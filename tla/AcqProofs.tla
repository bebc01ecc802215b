----------------------------- MODULE AcqProofs -----------------------------
(***************************************************************************)
(* Theorems about AcqChain and AcqFifo, for any number of word tags and    *)
(* any size of the FIFO, with lines of equal length or not.                *)
(***************************************************************************)
EXTENDS AcqFifo, SequenceTheorems, TLAPS

Level == {0, 1}

(***************************************************************************)
(* Types, for both senders.                                                *)
(***************************************************************************)
ATypes ==
  /\ sender \in Senders
  /\ SCLK \in Level /\ STROBE \in Level /\ bit \in 0..7 /\ i \in 0..7 /\ word \in Tag
  /\ xSCLK \in Level /\ xSTROBE \in Level /\ fresh \in BOOLEAN
  /\ previous_SCLK \in Level /\ previous_STROBE \in Level /\ wr_en \in Level
  /\ a_val \in Seq(BitTag) /\ Len(a_val) = 8
  /\ given \in Tag \cup {-1} /\ behind \in 0..2

LEMMA DropFirst ==
  ASSUME NEW S, NEW s \in Seq(S), s # <<>>
  PROVE  /\ Tail(s) \in Seq(S) /\ Len(Tail(s)) = Len(s) - 1
         /\ \A k \in 1..Len(Tail(s)) : Tail(s)[k] = s[k + 1]
BY HeadTailProperties, EmptySeq

LEMMA AddLast ==
  ASSUME NEW S, NEW s \in Seq(S), NEW x \in S
  PROVE  /\ Append(s, x) \in Seq(S) /\ Len(Append(s, x)) = Len(s) + 1
         /\ \A k \in 1..Len(s) : Append(s, x)[k] = s[k]
         /\ Append(s, x)[Len(s) + 1] = x
BY AppendProperties

\* What shifting a bit into eight does.
LEMMA Shifted ==
  ASSUME NEW S, NEW s \in Seq(S), Len(s) = 8, NEW x \in S
  PROVE  /\ Append(Tail(s), x) \in Seq(S) /\ Len(Append(Tail(s), x)) = 8
         /\ \A k \in 1..7 : Append(Tail(s), x)[k] = s[k + 1]
         /\ Append(Tail(s), x)[8] = x
<1>1. s # <<>>
  BY EmptySeq
<1>2. PICK t : t = Tail(s)
  OBVIOUS
<1>3. /\ t \in Seq(S) /\ Len(t) = Len(s) - 1
      /\ \A k \in 1..Len(t) : t[k] = s[k + 1]
  <2>1. /\ Tail(s) \in Seq(S) /\ Len(Tail(s)) = Len(s) - 1
        /\ \A k \in 1..Len(Tail(s)) : Tail(s)[k] = s[k + 1]
    BY <1>1, DropFirst
  <2> QED BY <1>2, <2>1, Zenon
<1>4. PICK u : u = Append(t, x)
  OBVIOUS
<1>5. /\ u \in Seq(S) /\ Len(u) = Len(t) + 1
      /\ \A k \in 1..Len(t) : u[k] = t[k]
      /\ u[Len(t) + 1] = x
  <2>1. /\ Append(t, x) \in Seq(S) /\ Len(Append(t, x)) = Len(t) + 1
        /\ \A k \in 1..Len(t) : Append(t, x)[k] = t[k]
        /\ Append(t, x)[Len(t) + 1] = x
    BY <1>3, AddLast
  <2> QED BY <1>4, <2>1, Zenon
<1>6. Len(t) = 7
  BY <1>3
<1>7. u \in Seq(S) /\ Len(u) = 8 /\ (\A k \in 1..7 : u[k] = s[k + 1]) /\ u[8] = x
  BY <1>3, <1>5, <1>6
<1> QED BY <1>2, <1>4, <1>7, Zenon

LEMMA InitATypes == Init => ATypes
<1> SUFFICES ASSUME Init PROVE ATypes
  OBVIOUS
<1>1. a_val = [k \in 1..8 |-> NoBit]
  BY DEF Init, Width
<1>2. a_val \in Seq(BitTag) /\ Len(a_val) = 8
  <2>1. \A k \in 1..8 : NoBit \in BitTag
    BY DEF BitTag
  <2> QED BY <1>1, <2>1, IsASeq
<1>3. fresh \in BOOLEAN /\ sender \in Senders
  BY DEF Init
<1>4. 0 \in Tag
  BY AcqAssumption DEF Tag
<1>5. /\ SCLK \in Level /\ STROBE \in Level /\ bit \in 0..7 /\ i \in 0..7 /\ word \in Tag
      /\ xSCLK \in Level /\ xSTROBE \in Level /\ given = -1 /\ behind = 0
      /\ previous_SCLK \in Level /\ previous_STROBE \in Level /\ wr_en \in Level
  BY <1>4 DEF Init, Level
<1> QED BY <1>2, <1>3, <1>5 DEF ATypes

LEMMA ATypesNext == ATypes /\ [Next]_vars => ATypes'
<1> SUFFICES ASSUME ATypes, [Next]_vars PROVE ATypes'
  OBVIOUS
<1> USE DEF ATypes, Level
<1>1. CASE Send
  <2>1. UNCHANGED rxvars /\ fresh' = TRUE /\ sender' = sender
    BY <1>1 DEF Send
  <2>2. FormatStep \/ ClocksimStep
    BY <1>1 DEF Send
  <2>3. SCLK' \in Level /\ STROBE' \in Level /\ i' \in 0..7
    BY <2>2 DEF FormatStep, ClocksimStep
  <2>4. bit' \in 0..7 /\ word' \in Tag
    BY <2>2, AcqAssumption DEF FormatStep, ClocksimStep, NextBit, Tag
  <2>5. xSCLK' \in Level /\ xSTROBE' \in Level
    BY <1>1, <2>3 DEF Send
  <2>6. behind' \in 0..2
    BY <1>1 DEF Send, MaxBehind
  <2> QED BY <2>1, <2>3, <2>4, <2>5, <2>6 DEF rxvars
<1>2. CASE Clk
  <2>1. /\ UNCHANGED txvars /\ xSCLK' = SCLK /\ xSTROBE' = STROBE
        /\ fresh' = (xSCLK # SCLK \/ xSTROBE # STROBE)
    BY <1>2 DEF Clk
  <2>2. previous_SCLK' \in Level /\ previous_STROBE' \in Level /\ wr_en' \in Level
    BY <1>2 DEF Clk, Shift, Strobe
  <2>3. <<word, bit>> \in BitTag
    BY DEF BitTag
  <2>4. a_val' \in Seq(BitTag) /\ Len(a_val') = 8
    <3>1. a_val' = a_val \/ a_val' = Append(Tail(a_val), <<word, bit>>)
      BY <1>2 DEF Clk, Shift
    <3>2. Append(Tail(a_val), <<word, bit>>) \in Seq(BitTag) /\ Len(Append(Tail(a_val), <<word, bit>>)) = 8
      BY <2>3, Shifted
    <3> QED BY <3>1, <3>2
  <2>5. given' \in Tag \cup {-1}
    <3>1. a_val[1] \in BitTag
      <4>1. \A k \in 1..Len(a_val) : a_val[k] \in BitTag
        BY ElementOfSeq
      <4> QED BY <4>1
    <3>2. a_val[1] # NoBit => a_val[1][1] \in Tag
      BY <3>1 DEF BitTag
    <3> QED BY <1>2, <3>2 DEF Clk
  <2>6. fresh' \in BOOLEAN
    BY <2>1
  <2>7. behind' \in 0..2
    BY <1>2 DEF Clk, GivesNext
  <2> QED BY <2>1, <2>2, <2>4, <2>5, <2>6, <2>7 DEF txvars
<1>3. CASE UNCHANGED vars
  BY <1>3 DEF vars, txvars, pinvars, rxvars
<1> QED BY <1>1, <1>2, <1>3 DEF Next

(***************************************************************************)
(* The shift register always holds eight bits, and word and position stay  *)
(* in range, from either sender (sclk_data_acq.vhdl, data_bridge.vhdl).    *)
(***************************************************************************)
THEOREM AcqTypeCorrect == Spec => []TypeOK
<1>1. Spec => []ATypes
  BY InitATypes, ATypesNext, PTL DEF Spec
<1>2. ATypes => TypeOK
  BY AcqAssumption DEF ATypes, TypeOK, Level, Tag, Width, MaxBehind
<1> QED BY <1>1, <1>2, PTL
-----------------------------------------------------------------------------
(***************************************************************************)
(* The bits of the format.  W is the word whose bits come in, n of them so *)
(* far: the register holds these behind the last ones of the word given.  *)
(***************************************************************************)
W == (given + 1) % NTags

Old(s, p) == IF s = -1 THEN NoBit ELSE <<s, p>>

Holds(a, s, n) == \A k \in 1..8 :
  a[k] = IF k <= 8 - n THEN Old(s, 8 - n - k) ELSE <<(s + 1) % NTags, 16 - k - n>>

Untaken == SCLK = 0 \/ previous_SCLK = 0

\* The strobe is up behind a whole word, or behind none at the start, and the
\* write it leads to is still to come.
Strobing == STROBE = 1 /\ (previous_STROBE = 0 \/ wr_en = 1)

\* Before the first bit: the levels that the receiver remembers may still be high.
Starting == SCLK = 0 /\ given = -1 /\ word = 0 /\ bit = 7 /\ wr_en = 0 /\ Holds(a_val, given, 0)

\* The receiver sees each level before it changes again.
Lines ==
  /\ ~fresh => /\ xSCLK = SCLK /\ xSTROBE = STROBE
               /\ \/ previous_SCLK = SCLK /\ previous_STROBE = STROBE
                  \/ Starting /\ STROBE = 0
  /\ xSCLK # SCLK => previous_SCLK = xSCLK
  /\ xSTROBE # STROBE => \/ previous_STROBE = xSTROBE
                         \/ Starting /\ STROBE = 1
  /\ SCLK = 0 /\ STROBE = 0 => Starting
  /\ SCLK = 1 => STROBE = IF bit = 0 THEN 0 ELSE 1
  /\ wr_en = 1 => STROBE = 1 /\ xSTROBE = 1 /\ previous_STROBE = 1

Bits ==
  \/ /\ ~Strobing /\ word = W
     /\ Holds(a_val, given, IF Untaken THEN 7 - bit ELSE 8 - bit)
  \/ /\ Strobing /\ bit = 7 /\ Untaken /\ (SCLK = 1 => wr_en = 1)
     /\ \/ word = (W + 1) % NTags /\ Holds(a_val, given, 8)
        \/ word = 0 /\ given = -1 /\ Holds(a_val, given, 0)

Aligned == sender = "format" => Lines /\ Bits

LEMMA FollowsZero == (-1 + 1) % NTags = 0
BY AcqAssumption

\* A further bit of the word that comes in.
LEMMA ShiftHolds ==
  ASSUME NEW a \in Seq(BitTag), Len(a) = 8, NEW s \in Tag \cup {-1}, NEW n \in 0..7,
         Holds(a, s, n), NEW x \in BitTag, x = <<(s + 1) % NTags, 7 - n>>
  PROVE  Holds(Append(Tail(a), x), s, n + 1)
<1> DEFINE w == (s + 1) % NTags
           o(p) == Old(s, p)
<1>1. PICK b : b = Append(Tail(a), x)
  OBVIOUS
<1>2. (\A k \in 1..7 : b[k] = a[k + 1]) /\ b[8] = x
  <2>1. /\ \A k \in 1..7 : Append(Tail(a), x)[k] = a[k + 1]
        /\ Append(Tail(a), x)[8] = x
    BY Shifted
  <2> QED BY <1>1, <2>1, Zenon
<1>3. \A k \in 1..8 : a[k] = IF k <= 8 - n THEN o(8 - n - k) ELSE <<w, 16 - k - n>>
  BY DEF Holds
<1>4. x = <<w, 7 - n>>
  OBVIOUS
<1> HIDE DEF w, o
<1>5. ASSUME NEW k \in 1..8
      PROVE  b[k] = IF k <= 8 - (n + 1) THEN o(8 - (n + 1) - k) ELSE <<w, 16 - k - (n + 1)>>
  <2>1. CASE k = 8
    <3>1. ~(k <= 8 - (n + 1)) /\ 16 - k - (n + 1) = 7 - n
      BY <2>1
    <3> QED BY <1>2, <1>4, <2>1, <3>1
  <2>2. CASE k # 8
    <3>1. /\ k \in 1..7 /\ k + 1 \in 1..8
          /\ (k + 1 <= 8 - n <=> k <= 8 - (n + 1))
          /\ 8 - n - (k + 1) = 8 - (n + 1) - k
          /\ 16 - (k + 1) - n = 16 - k - (n + 1)
      BY <2>2
    <3>2. b[k] = a[k + 1]
      BY <1>2, <3>1
    <3>3. a[k + 1] = IF k + 1 <= 8 - n THEN o(8 - n - (k + 1)) ELSE <<w, 16 - (k + 1) - n>>
      BY <1>3, <3>1
    <3> QED BY <3>1, <3>2, <3>3
  <2> QED BY <2>1, <2>2
<1>6. Holds(b, s, n + 1)
  BY <1>5 DEF w, o, Holds
<1> QED BY <1>1, <1>6

\* A word that is given: it is what the register holds, and none of the next.
LEMMA StoreHolds ==
  ASSUME NEW a, NEW s \in Tag \cup {-1}, Holds(a, s, 8)
  PROVE  a[1] # NoBit /\ a[1][1] = (s + 1) % NTags /\ Holds(a, (s + 1) % NTags, 0)
<1>1. (s + 1) % NTags \in Tag
  BY AcqAssumption DEF Tag
<1>2. PICK w \in Tag : w = (s + 1) % NTags
  BY <1>1
<1>3. \A k \in 1..8 : a[k] = <<w, 8 - k>>
  BY <1>2 DEF Holds
<1>4. a[1] = <<w, 7>> /\ w >= 0 /\ w # -1
  BY <1>3 DEF Tag
<1>5. Holds(a, w, 0)
  BY <1>3, <1>4 DEF Holds, Old
<1> QED BY <1>2, <1>4, <1>5 DEF NoBit

LEMMA InitAligned == Init => Aligned
<1> SUFFICES ASSUME Init, sender = "format" PROVE Lines /\ Bits
  BY DEF Aligned
<1>1. \A k \in 1..8 : a_val[k] = NoBit
  BY DEF Init, Width
<1>2. Holds(a_val, -1, 0)
  BY <1>1 DEF Holds, Old
<1>3. W = 0
  BY FollowsZero DEF Init, W
<1> QED BY <1>2, <1>3 DEF Init, Lines, Bits, Starting, Strobing, Untaken

LEMMA AlignedSend == ATypes /\ Aligned /\ Send => Aligned'
<1> SUFFICES ASSUME ATypes, Lines, Bits, Send, sender = "format" PROVE Lines' /\ Bits'
  BY DEF Aligned, Send
<1> USE DEF ATypes, Level
<1>1. /\ UNCHANGED <<previous_SCLK, a_val, previous_STROBE, wr_en, given>> /\ fresh' = TRUE
      /\ ~fresh /\ FormatStep
  BY DEF Send, rxvars
<1>2. /\ xSCLK = SCLK /\ xSTROBE = STROBE
      /\ \/ previous_SCLK = SCLK /\ previous_STROBE = STROBE
         \/ Starting /\ STROBE = 0
  BY <1>1 DEF Lines
<1>3. \/ xSCLK' = SCLK' /\ xSTROBE' = STROBE'
      \/ xSCLK' = SCLK' /\ xSTROBE' = xSTROBE
      \/ xSTROBE' = STROBE' /\ xSCLK' = xSCLK
  BY DEF Send
<1>4. W' = W
  BY <1>1 DEF W
<1>5. CASE SCLK = 0 /\ STROBE = 0 /\ STROBE' = 1 /\ UNCHANGED <<SCLK, word, bit, i>>
  <2>1. Starting /\ Starting'
    BY <1>1, <1>5 DEF Lines, Starting
  <2>2. W = 0
    BY <2>1, FollowsZero DEF W, Starting
  <2> QED BY <1>1, <1>2, <1>3, <1>4, <1>5, <2>1, <2>2 DEF Lines, Bits, Starting, Strobing, Untaken
<1>6. CASE /\ SCLK = 0 /\ STROBE = 1
           /\ SCLK' = 1 /\ STROBE' = (IF bit = 0 THEN 0 ELSE 1)
           /\ UNCHANGED <<word, bit, i>>
  <2>1. previous_SCLK = 0 /\ previous_STROBE = 1
    BY <1>2, <1>6
  <2>2. wr_en = 1 => bit = 7
    BY <1>6 DEF Bits, Strobing
  <2>3. Lines'
    BY <1>1, <1>2, <1>3, <1>6, <2>1, <2>2 DEF Lines
  <2>4. Bits'
    BY <1>1, <1>4, <1>6, <2>1, <2>2 DEF Bits, Strobing, Untaken
  <2> QED BY <2>3, <2>4
<1>7. CASE SCLK = 1 /\ SCLK' = 0 /\ STROBE' = 1 /\ NextBit /\ UNCHANGED i
  <2>1. previous_SCLK = 1 /\ previous_STROBE = STROBE /\ ~Untaken
    BY <1>2, <1>7 DEF Starting, Untaken
  <2>2. ~Strobing /\ word = W /\ Holds(a_val, given, 8 - bit) /\ wr_en = 0
    BY <2>1 DEF Bits, Strobing, Lines
  <2>3. STROBE = IF bit = 0 THEN 0 ELSE 1
    BY <1>7 DEF Lines
  <2>4. Lines'
    BY <1>1, <1>2, <1>3, <1>7, <2>1, <2>2, <2>3 DEF Lines
  <2>5. CASE bit = 0
    <3>1. bit' = 7 /\ word' = (W + 1) % NTags /\ Holds(a_val, given, 8)
      BY <1>7, <2>2, <2>5 DEF NextBit
    <3> QED BY <1>1, <1>4, <1>7, <2>1, <2>3, <2>4, <2>5, <3>1 DEF Bits, Strobing, Untaken
  <2>6. CASE bit # 0
    <3>1. bit' = bit - 1 /\ word' = W /\ 7 - bit' = 8 - bit
      BY <1>7, <2>2, <2>6 DEF NextBit
    <3> QED BY <1>1, <1>4, <1>7, <2>1, <2>2, <2>3, <2>4, <2>6, <3>1 DEF Bits, Strobing, Untaken
  <2> QED BY <2>5, <2>6
<1> QED BY <1>1, <1>5, <1>6, <1>7 DEF FormatStep

\* An edge of the receiver: what it does to register and store.
LEMMA ClkHolds ==
  ASSUME ATypes, Lines, Clk, NEW s \in Tag \cup {-1}, s = given', word = (s + 1) % NTags,
         Holds(a_val, s, IF Untaken THEN 7 - bit ELSE 8 - bit)
  PROVE  Holds(a_val', s, IF Untaken' THEN 7 - bit ELSE 8 - bit)
<1> USE DEF ATypes, Level
<1>1. /\ previous_SCLK' = xSCLK /\ SCLK' = SCLK
      /\ a_val' = IF xSCLK # previous_SCLK /\ xSCLK = 1
                  THEN Append(Tail(a_val), <<word, bit>>) ELSE a_val
      /\ xSCLK # SCLK => previous_SCLK = xSCLK
  BY DEF Clk, Shift, txvars, Lines
<1>2. CASE xSCLK # previous_SCLK /\ xSCLK = 1
  <2>1. SCLK = 1 /\ Untaken /\ ~Untaken'
    BY <1>1, <1>2 DEF Untaken
  <2>2. PICK n \in 0..7 : n = 7 - bit
    OBVIOUS
  <2>3. Holds(a_val, s, n) /\ 7 - n = bit /\ n + 1 = 8 - bit
    BY <2>1, <2>2
  <2>4. <<word, bit>> \in BitTag /\ <<word, bit>> = <<(s + 1) % NTags, 7 - n>>
    BY <2>3 DEF BitTag
  <2>5. Holds(Append(Tail(a_val), <<word, bit>>), s, n + 1)
    BY <2>3, <2>4, ShiftHolds
  <2> QED BY <1>1, <1>2, <2>1, <2>3, <2>5
<1>3. CASE ~(xSCLK # previous_SCLK /\ xSCLK = 1)
  <2>1. a_val' = a_val /\ (Untaken' <=> Untaken)
    BY <1>1, <1>3 DEF Untaken
  <2> QED BY <2>1
<1> QED BY <1>2, <1>3

LEMMA AlignedClk == ATypes /\ Aligned /\ Clk => Aligned'
<1> SUFFICES ASSUME ATypes, Lines, Bits, Clk PROVE Lines' /\ Bits'
  BY DEF Aligned, Clk, txvars
<1> USE DEF ATypes, Level
<1>1. /\ UNCHANGED <<SCLK, STROBE, word, bit>> /\ xSCLK' = SCLK /\ xSTROBE' = STROBE
      /\ fresh' = (xSCLK # SCLK \/ xSTROBE # STROBE)
      /\ previous_SCLK' = xSCLK /\ previous_STROBE' = xSTROBE
      /\ wr_en' = IF xSTROBE # previous_STROBE /\ xSTROBE = 1 THEN 1 ELSE 0
      /\ given' = IF wr_en = 1 /\ a_val[1] # NoBit THEN a_val[1][1] ELSE given
  BY DEF Clk, Shift, Strobe, txvars
<1>2. SCLK = 0 => a_val' = a_val
  BY DEF Clk, Shift, Lines
<1>3. wr_en' = 1 => STROBE = 1 /\ previous_STROBE = 0 /\ wr_en = 0
  BY <1>1 DEF Lines
<1>4. Lines'
  <2>1. SCLK = 0 /\ STROBE = 0 => Starting'
    <3> SUFFICES ASSUME SCLK = 0, STROBE = 0 PROVE Starting'
      OBVIOUS
    <3>1. Starting
      BY DEF Lines
    <3>2. given' = given /\ wr_en' = 0
      BY <1>1, <1>3, <3>1 DEF Starting
    <3> QED BY <1>1, <1>2, <3>1, <3>2 DEF Starting
  <2>2. SCLK = 1 => STROBE = IF bit = 0 THEN 0 ELSE 1
    BY DEF Lines
  <2> QED BY <1>1, <1>3, <2>1, <2>2 DEF Lines
<1>5. CASE wr_en = 1
  <2>1. /\ Strobing /\ ~Strobing' /\ bit = 7 /\ Untaken
        /\ \/ word = (W + 1) % NTags /\ Holds(a_val, given, 8)
           \/ word = 0 /\ given = -1 /\ Holds(a_val, given, 0)
    BY <1>1, <1>3, <1>5 DEF Bits, Strobing, Lines
  <2>2. word = (given' + 1) % NTags /\ Holds(a_val, given', 0)
    <3>1. CASE word = (W + 1) % NTags /\ Holds(a_val, given, 8)
      BY <1>1, <1>5, <3>1, StoreHolds DEF W
    <3>2. CASE word = 0 /\ given = -1 /\ Holds(a_val, given, 0)
      <4>1. a_val[1] = NoBit
        BY <3>2 DEF Holds, Old
      <4> QED BY <1>1, <3>2, <4>1, FollowsZero
    <3> QED BY <2>1, <3>1, <3>2
  <2>3. given' \in Tag \cup {-1}
    BY ATypesNext DEF Next
  <2>4. Holds(a_val', given', IF Untaken' THEN 7 - bit ELSE 8 - bit)
    BY <2>1, <2>2, <2>3, ClkHolds
  <2> QED BY <1>1, <1>4, <2>1, <2>2, <2>4 DEF Bits, W
<1>6. CASE wr_en = 0 /\ Strobing
  <2>1. /\ previous_STROBE = 0 /\ STROBE = 1 /\ SCLK = 0 /\ bit = 7
        /\ \/ word = (W + 1) % NTags /\ Holds(a_val, given, 8)
           \/ word = 0 /\ given = -1 /\ Holds(a_val, given, 0)
    BY <1>6 DEF Bits, Strobing
  <2>2. Strobing' /\ Untaken' /\ given' = given /\ W' = W /\ a_val' = a_val
    BY <1>1, <1>2, <1>6, <2>1 DEF Strobing, Untaken, W
  <2> QED BY <1>1, <1>4, <2>1, <2>2 DEF Bits
<1>7. CASE wr_en = 0 /\ ~Strobing
  <2>1. given' = given /\ W' = W /\ wr_en' = 0 /\ word = W
        /\ Holds(a_val, given, IF Untaken THEN 7 - bit ELSE 8 - bit)
    BY <1>1, <1>3, <1>7 DEF Bits, Strobing, W
  <2>2. CASE Strobing'
    <3>1. xSTROBE = 0 /\ STROBE = 1 /\ previous_STROBE = 1
      BY <1>1, <1>7, <2>1, <2>2 DEF Strobing
    <3>2. Starting
      BY <3>1 DEF Lines
    <3> QED BY <1>1, <1>2, <1>4, <2>1, <2>2, <3>2 DEF Bits, Starting, Untaken
  <2>3. CASE ~Strobing'
    <3>1. Holds(a_val', given', IF Untaken' THEN 7 - bit ELSE 8 - bit)
      BY <2>1, ClkHolds DEF W
    <3> QED BY <1>1, <1>4, <2>1, <2>3, <3>1 DEF Bits
  <2> QED BY <2>2, <2>3
<1> QED BY <1>5, <1>6, <1>7

\* The register when it holds a whole word, or none.
LEMMA HoldsWhole ==
  ASSUME NEW a \in Seq(BitTag), Len(a) = 8, NEW s \in Tag \cup {-1}, Holds(a, s, 8)
  PROVE  a = Whole((s + 1) % NTags)
<1>1. PICK w : w = (s + 1) % NTags
  OBVIOUS
<1>2. \A k \in 1..8 : a[k] = <<w, 8 - k>>
  BY <1>1 DEF Holds
<1>3. DOMAIN a = 1..8 /\ a = [k \in DOMAIN a |-> a[k]]
  BY LenProperties
<1>4. a = [k \in 1..8 |-> <<w, 8 - k>>]
  BY <1>2, <1>3
<1> QED BY <1>1, <1>4 DEF Whole, Width

LEMMA HoldsBlank ==
  ASSUME NEW a \in Seq(BitTag), Len(a) = 8, Holds(a, -1, 0)
  PROVE  a = Blank
<1>1. \A k \in 1..8 : a[k] = NoBit
  BY DEF Holds, Old
<1>2. DOMAIN a = 1..8 /\ a = [k \in DOMAIN a |-> a[k]]
  BY LenProperties
<1>3. a = [k \in 1..8 |-> NoBit]
  BY <1>1, <1>2
<1> QED BY <1>3 DEF Blank, Width

\* What is written is the next word, or an empty register before the first one.
LEMMA Written ==
  ASSUME ATypes, Lines, Bits, wr_en = 1
  PROVE  \/ a_val = Whole(W) /\ Holds(a_val, given, 8)
         \/ given = -1 /\ a_val = Blank /\ Holds(a_val, -1, 0)
<1>1. \/ Holds(a_val, given, 8)
      \/ given = -1 /\ Holds(a_val, given, 0)
  BY DEF Lines, Bits, Strobing
<1>2. a_val \in Seq(BitTag) /\ Len(a_val) = 8 /\ given \in Tag \cup {-1}
  BY DEF ATypes
<1>3. CASE Holds(a_val, given, 8)
  BY <1>2, <1>3, HoldsWhole DEF W
<1>4. CASE given = -1 /\ Holds(a_val, given, 0)
  BY <1>2, <1>4, HoldsBlank
<1> QED BY <1>1, <1>3, <1>4

LEMMA InvImpliesWordsAligned == ATypes /\ Aligned => WordsAligned
<1> SUFFICES ASSUME ATypes, Lines, Bits, wr_en = 1
             PROVE  \/ a_val = Whole((given + 1) % NTags)
                    \/ given = -1 /\ \A k \in 1..Width : a_val[k] = NoBit
  BY DEF WordsAligned, Aligned
<1> QED BY Written DEF W, Blank

LEMMA AlignedNext == ATypes /\ Aligned /\ [Next]_vars => ATypes' /\ Aligned'
<1> SUFFICES ASSUME ATypes, Aligned, [Next]_vars PROVE ATypes' /\ Aligned'
  OBVIOUS
<1>1. ATypes'
  BY ATypesNext
<1>2. CASE UNCHANGED vars
  <2>1. /\ UNCHANGED <<sender, SCLK, STROBE, word, bit>> /\ UNCHANGED pinvars
        /\ UNCHANGED <<previous_SCLK, a_val, previous_STROBE, wr_en, given>>
    BY <1>2 DEF vars, txvars, rxvars
  <2>2. (Starting' <=> Starting) /\ (Strobing' <=> Strobing) /\ (Untaken' <=> Untaken) /\ W' = W
    BY <2>1 DEF Starting, Strobing, Untaken, W
  <2>3. Lines' <=> Lines
    BY <2>1, <2>2 DEF Lines, pinvars
  <2>4. Bits' <=> Bits
    BY <2>1, <2>2 DEF Bits
  <2> QED BY <1>1, <2>1, <2>3, <2>4 DEF Aligned
<1> QED BY <1>1, <1>2, AlignedSend, AlignedClk DEF Next

LEMMA AlignedAlways == Init /\ [][Next]_vars => [](ATypes /\ Aligned)
BY InitATypes, InitAligned, AlignedNext, PTL

(***************************************************************************)
(* A word of the format is given to the FIFO whole, in its order and once, *)
(* whichever line is seen late: the strobe rises after its eighth bit was  *)
(* taken, and the write comes before the first bit of the next word is in  *)
(* the register (sclk_data_acq.vhdl, data_bridge.vhdl), for any numbering. *)
(***************************************************************************)
THEOREM AcqWordsAligned == Spec => []WordsAligned
BY InvImpliesWordsAligned, AlignedAlways, PTL DEF Spec
-----------------------------------------------------------------------------
(***************************************************************************)
(* No word of the format is skipped: the count of words not yet given is   *)
(* up exactly while the strobe behind a whole word leads to its write.     *)
(***************************************************************************)
Owing == behind = IF Strobing /\ a_val[1] # NoBit THEN 1 ELSE 0

NoneSkipped == sender = "format" => Owing

LEMMA OwingSend ==
  ASSUME ATypes, Lines, Bits, Owing, Send, sender = "format"
  PROVE  Owing'
<1> USE DEF ATypes, Level
<1>1. /\ UNCHANGED <<previous_SCLK, a_val, previous_STROBE, wr_en, given>>
      /\ ~fresh /\ FormatStep
      /\ behind' = IF bit = 0 /\ bit' = 7 /\ behind < 2 THEN behind + 1 ELSE behind
  BY DEF Send, rxvars, MaxBehind
<1>2. /\ xSCLK = SCLK /\ xSTROBE = STROBE
      /\ \/ previous_SCLK = SCLK /\ previous_STROBE = STROBE
         \/ Starting /\ STROBE = 0
  BY <1>1 DEF Lines
<1>3. CASE SCLK = 0 /\ STROBE = 0 /\ STROBE' = 1 /\ UNCHANGED <<SCLK, word, bit, i>>
  <2>1. Starting
    BY <1>3 DEF Lines
  <2>2. a_val[1] = NoBit
    BY <2>1 DEF Starting, Holds, Old
  <2> QED BY <1>1, <1>3, <2>2 DEF Owing
<1>4. CASE /\ SCLK = 0 /\ STROBE = 1
           /\ SCLK' = 1 /\ STROBE' = (IF bit = 0 THEN 0 ELSE 1)
           /\ UNCHANGED <<word, bit, i>>
  <2>1. previous_STROBE = 1 /\ behind' = behind
    BY <1>1, <1>2, <1>4
  <2>2. wr_en = 1 => bit = 7
    BY <1>4 DEF Bits, Strobing
  <2>3. Strobing' <=> Strobing
    BY <1>1, <1>4, <2>1, <2>2 DEF Strobing
  <2> QED BY <1>1, <2>1, <2>3 DEF Owing
<1>5. CASE SCLK = 1 /\ SCLK' = 0 /\ STROBE' = 1 /\ NextBit /\ UNCHANGED i
  <2>1. previous_SCLK = 1 /\ previous_STROBE = STROBE /\ ~Untaken
    BY <1>2, <1>5 DEF Starting, Untaken
  <2>2. ~Strobing /\ Holds(a_val, given, 8 - bit) /\ wr_en = 0 /\ behind = 0
    BY <2>1 DEF Bits, Strobing, Lines, Owing
  <2>3. STROBE = IF bit = 0 THEN 0 ELSE 1
    BY <1>5 DEF Lines
  <2>4. CASE bit = 0
    <3>1. Holds(a_val, given, 8) /\ bit' = 7
      BY <1>5, <2>2, <2>4 DEF NextBit
    <3>2. a_val[1] # NoBit
      BY <3>1, StoreHolds
    <3> QED BY <1>1, <1>5, <2>1, <2>2, <2>3, <2>4, <3>1, <3>2 DEF Owing, Strobing
  <2>5. CASE bit # 0
    BY <1>1, <1>5, <2>1, <2>2, <2>3, <2>5 DEF Owing, Strobing
  <2> QED BY <2>4, <2>5
<1> QED BY <1>1, <1>3, <1>4, <1>5 DEF FormatStep

LEMMA OwingClk ==
  ASSUME ATypes, Lines, Bits, Owing, Clk
  PROVE  Owing'
<1> USE DEF ATypes, Level
<1>1. /\ STROBE' = STROBE /\ previous_STROBE' = xSTROBE
      /\ wr_en' = IF xSTROBE # previous_STROBE /\ xSTROBE = 1 THEN 1 ELSE 0
      /\ behind' = IF GivesNext THEN behind - 1 ELSE behind
      /\ SCLK = 0 => a_val' = a_val
  BY DEF Clk, Shift, Strobe, txvars, Lines
<1>2. CASE wr_en = 1
  <2>1. /\ Strobing /\ ~Strobing'
        /\ \/ Holds(a_val, given, 8)
           \/ given = -1 /\ Holds(a_val, given, 0)
    BY <1>1, <1>2 DEF Bits, Strobing, Lines
  <2>2. CASE Holds(a_val, given, 8)
    <3>1. a_val[1] # NoBit /\ a_val[1][1] = (given + 1) % NTags
      BY <2>2, StoreHolds
    <3> QED BY <1>1, <1>2, <2>1, <3>1 DEF Owing, GivesNext
  <2>3. CASE given = -1 /\ Holds(a_val, given, 0)
    <3>1. a_val[1] = NoBit
      BY <2>3 DEF Holds, Old
    <3> QED BY <1>1, <2>1, <3>1 DEF Owing, GivesNext
  <2> QED BY <2>1, <2>2, <2>3
<1>3. CASE wr_en = 0 /\ Strobing
  <2>1. previous_STROBE = 0 /\ STROBE = 1 /\ SCLK = 0
    BY <1>3 DEF Bits, Strobing
  <2>2. Strobing' /\ a_val' = a_val /\ behind' = behind
    BY <1>1, <1>3, <2>1 DEF Strobing, GivesNext
  <2> QED BY <1>3, <2>2 DEF Owing
<1>4. CASE wr_en = 0 /\ ~Strobing
  <2>1. behind = 0 /\ behind' = 0
    BY <1>1, <1>4 DEF Owing, GivesNext
  <2>2. CASE Strobing'
    <3>1. xSTROBE = 0 /\ STROBE = 1 /\ previous_STROBE = 1
      BY <1>1, <1>4, <2>2 DEF Strobing, Lines
    <3>2. Starting
      BY <3>1 DEF Lines
    <3>3. a_val'[1] = NoBit
      BY <1>1, <3>2 DEF Starting, Holds, Old
    <3> QED BY <2>1, <3>3 DEF Owing
  <2> QED BY <2>1, <2>2 DEF Owing
<1> QED BY <1>2, <1>3, <1>4

(***************************************************************************)
(* From a sender of the format, a word is given to the FIFO before the     *)
(* next one is over: never two of them wait, so none is passed over,       *)
(* whichever line is seen late and for any numbering of the words.         *)
(***************************************************************************)
THEOREM AcqNoneSkipped == Spec => [](sender = "format" => behind <= 1)
<1>1. Init => NoneSkipped
  <2> SUFFICES ASSUME Init, sender = "format" PROVE Owing
    BY DEF NoneSkipped
  <2>1. STROBE = 0 /\ behind = 0
    BY DEF Init
  <2> QED BY <2>1 DEF Owing, Strobing
<1>2. ATypes /\ Aligned /\ NoneSkipped /\ [Next]_vars => NoneSkipped'
  <2> SUFFICES ASSUME ATypes, Aligned, NoneSkipped, [Next]_vars, sender' = "format"
               PROVE  Owing'
    BY DEF NoneSkipped
  <2>1. sender = "format"
    BY DEF Next, Send, Clk, vars, txvars
  <2>2. Lines /\ Bits /\ Owing
    BY <2>1 DEF Aligned, NoneSkipped
  <2>3. CASE Send
    BY <2>1, <2>2, <2>3, OwingSend
  <2>4. CASE Clk
    BY <2>2, <2>4, OwingClk
  <2>5. CASE UNCHANGED vars
    BY <2>2, <2>5 DEF vars, txvars, rxvars, Owing, Strobing
  <2> QED BY <2>3, <2>4, <2>5 DEF Next
<1>3. NoneSkipped => (sender = "format" => behind <= 1)
  BY DEF NoneSkipped, Owing
<1> QED BY <1>1, <1>2, <1>3, AlignedAlways, PTL DEF Spec
-----------------------------------------------------------------------------
(***************************************************************************)
(* With the FIFO behind the receiver: the theorems of FifoProofs apply,    *)
(* the word being the shift register.                                      *)
(***************************************************************************)
F == INSTANCE FifoProofs WITH Word <- [1..Width -> BitTag], Zero <- Blank

LEMMA BlankIsWord == Blank \in [1..Width -> BitTag] /\ Size \in Nat /\ Size >= 2
BY ChainAssumption DEF Blank, BitTag

\* The two instances of the FIFO are one.
LEMMA SameContents == FIFO!Contents = F!Contents
BY DEF FIFO!Contents, F!Contents, FIFO!Occupancy, F!Occupancy, FIFO!SlotAt, F!SlotAt

LEMMA SameContentsThen == (FIFO!Contents = F!Contents)'
BY SameContents, PTL

LEMMA SameDout == FIFO!dout = F!dout
BY DEF FIFO!dout, F!dout

LEMMA SameInit == FIFO!Init => F!Init
BY DEF FIFO!Init, F!Init, FIFO!Slot, F!Slot

LEMMA SameClk == \A r, w, d : FIFO!Clk(r, w, d) => F!Clk(r, w, d)
BY DEF FIFO!Clk, F!Clk, FIFO!ReadWrite, F!ReadWrite, FIFO!ReadOnly, F!ReadOnly,
       FIFO!WriteOnly, F!WriteOnly, FIFO!Hold, F!Hold, FIFO!Inc, F!Inc, FIFO!Dec, F!Dec,
       FIFO!Takes, F!Takes, FIFO!Contents, F!Contents, FIFO!Occupancy, F!Occupancy,
       FIFO!SlotAt, F!SlotAt

LEMMA RegisterIsWord == ATypes => a_val \in [1..Width -> BitTag]
<1> SUFFICES ASSUME ATypes PROVE a_val \in [1..8 -> BitTag]
  BY DEF Width
<1>1. a_val \in Seq(BitTag) /\ Len(a_val) = 8
  BY DEF ATypes
<1> QED BY <1>1, LenProperties
-----------------------------------------------------------------------------
(* The words on their way: t left the queue last, c is what it holds.      *)
Linked(t, c) ==
  /\ c # <<>> => Follows(t, c[1])
  /\ \A k \in 1..(Len(c) - 1) : Follows(c[k], c[k + 1])

Newest(t, c) == IF c = <<>> THEN t ELSE c[Len(c)]

LEMMA LinkedTail ==
  ASSUME NEW S, NEW c \in Seq(S), c # <<>>, NEW t, Linked(t, c)
  PROVE  Linked(Head(c), Tail(c)) /\ Newest(Head(c), Tail(c)) = Newest(t, c)
<1>1. PICK n \in Nat : n = Len(c) /\ n >= 1
  BY EmptySeq, LenProperties
<1>2. PICK d : d = Tail(c)
  OBVIOUS
<1>3. d \in Seq(S) /\ Len(d) = n - 1 /\ \A k \in 1..(n - 1) : d[k] = c[k + 1]
  <2>1. /\ Tail(c) \in Seq(S) /\ Len(Tail(c)) = n - 1
        /\ \A k \in 1..Len(Tail(c)) : Tail(c)[k] = c[k + 1]
    BY <1>1, DropFirst
  <2> QED BY <1>2, <2>1, Zenon
<1>4. Head(c) = c[1]
  OBVIOUS
<1>5. d = <<>> <=> n = 1
  BY <1>1, <1>3, EmptySeq
<1>6. \A k \in 1..(n - 1) : Follows(c[k], c[k + 1])
  BY <1>1 DEF Linked
<1>7. d # <<>> => Follows(Head(c), d[1])
  <2> SUFFICES ASSUME d # <<>> PROVE Follows(Head(c), d[1])
    OBVIOUS
  <2>1. 1 \in 1..(n - 1) /\ 1 + 1 = 2
    BY <1>1, <1>5
  <2>2. d[1] = c[1 + 1] /\ Follows(c[1], c[1 + 1])
    BY <1>3, <1>6, <2>1
  <2> QED BY <1>4, <2>2
<1>8. \A k \in 1..(Len(d) - 1) : Follows(d[k], d[k + 1])
  <2> SUFFICES ASSUME NEW k \in 1..(Len(d) - 1) PROVE Follows(d[k], d[k + 1])
    OBVIOUS
  <2>1. k \in 1..(n - 1) /\ k + 1 \in 1..(n - 1)
    BY <1>1, <1>3
  <2>2. d[k] = c[k + 1] /\ d[k + 1] = c[(k + 1) + 1] /\ Follows(c[k + 1], c[(k + 1) + 1])
    BY <1>3, <1>6, <2>1
  <2> QED BY <2>2
<1>9. Newest(Head(c), d) = Newest(t, c)
  <2>1. CASE n = 1
    BY <1>1, <1>4, <1>5, <2>1 DEF Newest
  <2>2. CASE n # 1
    <3>1. n - 1 \in 1..(n - 1) /\ (n - 1) + 1 = n
      BY <1>1, <2>2
    <3>2. d[n - 1] = c[n]
      BY <1>3, <3>1
    <3> QED BY <1>1, <1>3, <1>5, <2>2, <3>2 DEF Newest
  <2> QED BY <2>1, <2>2
<1> QED BY <1>2, <1>7, <1>8, <1>9 DEF Linked

LEMMA LinkedAppend ==
  ASSUME NEW S, NEW c \in Seq(S), NEW x \in S, NEW t, Linked(t, c), Follows(Newest(t, c), x)
  PROVE  Linked(t, Append(c, x)) /\ Newest(t, Append(c, x)) = x
<1>1. PICK n \in Nat : n = Len(c)
  BY LenProperties
<1>2. PICK d : d = Append(c, x)
  OBVIOUS
<1>3. d \in Seq(S) /\ Len(d) = n + 1 /\ (\A k \in 1..n : d[k] = c[k]) /\ d[n + 1] = x
  <2>1. /\ Append(c, x) \in Seq(S) /\ Len(Append(c, x)) = Len(c) + 1
        /\ \A k \in 1..Len(c) : Append(c, x)[k] = c[k]
        /\ Append(c, x)[Len(c) + 1] = x
    BY AddLast
  <2> QED BY <1>1, <1>2, <2>1, Zenon
<1>4. d # <<>> /\ (c = <<>> <=> n = 0)
  BY <1>1, <1>3, EmptySeq
<1>5. Follows(t, d[1])
  <2>1. CASE n = 0
    BY <1>3, <1>4, <2>1 DEF Newest
  <2>2. CASE n # 0
    <3>1. 1 \in 1..n
      BY <2>2
    <3>2. d[1] = c[1] /\ Follows(t, c[1])
      BY <1>3, <1>4, <2>2, <3>1 DEF Linked
    <3> QED BY <3>2
  <2> QED BY <2>1, <2>2
<1>6. \A k \in 1..(Len(d) - 1) : Follows(d[k], d[k + 1])
  <2> SUFFICES ASSUME NEW k \in 1..n PROVE Follows(d[k], d[k + 1])
    BY <1>3
  <2>1. CASE k = n
    <3>1. d[k] = Newest(t, c)
      BY <1>1, <1>3, <1>4, <2>1 DEF Newest
    <3>2. d[k + 1] = x
      BY <1>3, <2>1
    <3> QED BY <3>1, <3>2
  <2>2. CASE k # n
    <3>1. k \in 1..(Len(c) - 1) /\ k + 1 \in 1..n
      BY <1>1, <2>2
    <3>2. d[k] = c[k] /\ d[k + 1] = c[k + 1] /\ Follows(c[k], c[k + 1])
      BY <1>3, <3>1 DEF Linked
    <3> QED BY <3>2
  <2> QED BY <2>1, <2>2
<1>7. Newest(t, d) = x
  BY <1>3, <1>4 DEF Newest
<1> QED BY <1>2, <1>4, <1>5, <1>6, <1>7 DEF Linked

\* An edge of the clock: what comes in links up with the newest word.
LEMMA EdgeOnWords ==
  ASSUME F!IInv, F!IInv', ATypes, NEW rd_en \in {0, 1}, ChainClk(rd_en), ~dropped',
         Linked(taken, F!Contents), wr_en = 1 => Follows(Newest(taken, F!Contents), a_val)
  PROVE  /\ Linked(taken', F!Contents')
         /\ Newest(taken', F!Contents') =
              IF wr_en = 1 THEN a_val ELSE Newest(taken, F!Contents)
<1> DEFINE Words == [1..Width -> BitTag]
<1>1. PICK c : c = F!Contents
  OBVIOUS
<1>2. PICK e : e = F!Contents'
  OBVIOUS
<1>3. c \in Seq(Words)
  BY <1>1, BlankIsWord, F!ContentsIs DEF F!Stored
<1>4. a_val \in Words
  BY RegisterIsWord
<1>5. wr_en \in {0, 1} /\ emptyxB \in {0, 1} /\ fullxB \in {0, 1}
  BY BlankIsWord, F!Pointers DEF ATypes, Level
<1>6. F!Clk(rd_en, wr_en, a_val)
  BY SameClk DEF ChainClk
<1>7. /\ rd_en = 1 /\ emptyxB = 0 => c # <<>> /\ F!dout = Head(c)
      /\ CASE rd_en = 1 /\ emptyxB = 0 ->
                e = IF wr_en = 1 THEN Append(Tail(c), a_val) ELSE Tail(c)
           [] rd_en = 0 /\ wr_en = 1 /\ fullxB = 0 -> e = Append(c, a_val)
           [] OTHER -> e = c
  BY <1>1, <1>2, <1>4, <1>5, <1>6, BlankIsWord, F!ClkOnContents DEF F!Bit
<1>8. ~Lost(rd_en) /\ taken' = IF rd_en = 1 /\ emptyxB = 0 THEN F!dout ELSE taken
  BY SameDout DEF ChainClk
<1>9. /\ Linked(taken, c) /\ (wr_en = 1 => Follows(Newest(taken, c), a_val))
  BY <1>1
<1>10. /\ Linked(taken', e)
       /\ Newest(taken', e) = IF wr_en = 1 THEN a_val ELSE Newest(taken, c)
  <2>1. CASE rd_en = 1 /\ emptyxB = 0
    <3>1. c # <<>> /\ taken' = Head(c) /\ Tail(c) \in Seq(Words)
      BY <1>3, <1>7, <1>8, <2>1, DropFirst
    <3>2. Linked(taken', Tail(c)) /\ Newest(taken', Tail(c)) = Newest(taken, c)
      BY <1>3, <1>9, <3>1, LinkedTail
    <3>3. CASE wr_en = 1
      <4>1. Linked(taken', Append(Tail(c), a_val)) /\ Newest(taken', Append(Tail(c), a_val)) = a_val
        BY <1>4, <1>9, <3>1, <3>2, <3>3, LinkedAppend
      <4>2. e = Append(Tail(c), a_val)
        BY <1>7, <2>1, <3>3
      <4>3. Linked(taken', e) /\ Newest(taken', e) = a_val
        BY <4>1, <4>2, Zenon
      <4> QED BY <3>3, <4>3
    <3>4. CASE wr_en = 0
      <4>1. e = Tail(c)
        BY <1>7, <2>1, <3>4
      <4>2. Linked(taken', e) /\ Newest(taken', e) = Newest(taken, c)
        BY <3>2, <4>1, Zenon
      <4> QED BY <3>4, <4>2
    <3> QED BY <1>5, <3>3, <3>4
  <2>2. CASE rd_en = 0 /\ wr_en = 1
    <3>1. fullxB = 0 /\ taken' = taken
      BY <1>5, <1>8, <2>2 DEF Lost
    <3>2. e = Append(c, a_val)
      BY <1>7, <2>2, <3>1
    <3>3. Linked(taken, Append(c, a_val)) /\ Newest(taken, Append(c, a_val)) = a_val
      BY <1>3, <1>4, <1>9, <2>2, LinkedAppend
    <3> QED BY <2>2, <3>1, <3>2, <3>3
  <2>3. CASE wr_en = 0 /\ ~(rd_en = 1 /\ emptyxB = 0)
    BY <1>7, <1>8, <1>9, <2>3
  <2>4. CASE rd_en = 1 /\ emptyxB = 1 /\ wr_en = 1
    BY <1>8, <2>4 DEF Lost
  <2> QED BY <1>5, <2>1, <2>2, <2>3, <2>4
<1> QED BY <1>1, <1>2, <1>10
-----------------------------------------------------------------------------
(***************************************************************************)
(* The order of the words.  The newest one is the last one given, and the *)
(* strobe that finds the register empty comes once: after it the strobe    *)
(* stays up till the last bit of the first word, and falls for that one.   *)
(***************************************************************************)
Last == Newest(taken, F!Contents)

LastIsStored == IF given = -1 THEN Last \in {<<>>, Blank} ELSE Last = Whole(given)

BlankOnce ==
  given = -1 /\ Last = Blank =>
    \/ wr_en = 0 /\ STROBE = 1 /\ xSTROBE = 1 /\ previous_STROBE = 1
    \/ wr_en = 0 /\ STROBE = 0 /\ SCLK = 1 /\ bit = 0
    \/ Strobing /\ Holds(a_val, -1, 8)

InOrder ==
  sender = "format" /\ ~dropped => Linked(taken, F!Contents) /\ LastIsStored /\ BlankOnce

LEMMA InitInOrder == ChainInit => F!IInv /\ InOrder
<1> SUFFICES ASSUME ChainInit PROVE F!IInv /\ InOrder
  OBVIOUS
<1>1. F!IInv
  BY BlankIsWord, SameInit, F!InitIInv DEF ChainInit
<1>2. emptyxB = 1
  BY DEF ChainInit, FIFO!Init
<1>3. F!Contents = <<>>
  BY <1>1, <1>2, BlankIsWord, F!ContentsIs DEF F!Stored
<1>4. Linked(taken, <<>>) /\ Newest(taken, <<>>) = <<>>
  BY DEF ChainInit, Linked, Newest
<1>5. given = -1 /\ SCLK = 0 /\ wr_en = 0 /\ previous_STROBE = 1
  BY DEF ChainInit, Init
<1>6. Last = <<>>
  BY <1>3, <1>4 DEF Last
<1>7. Last # Blank
  <2>1. Blank[1] = NoBit /\ 1 \in DOMAIN Blank /\ 1 \notin DOMAIN <<>>
    BY DEF Blank, Width
  <2> QED BY <1>6, <2>1
<1> QED BY <1>1, <1>3, <1>4, <1>5, <1>6, <1>7 DEF InOrder, LastIsStored, BlankOnce

\* A line that moves: the strobe does not rise again before the first word.
LEMMA BlankOnceSend ==
  ASSUME ATypes, Lines, Bits, Send, sender = "format", BlankOnce, Last' = Last
  PROVE  BlankOnce'
<1> USE DEF ATypes, Level
<1>1. /\ UNCHANGED <<previous_SCLK, a_val, previous_STROBE, wr_en, given>>
      /\ ~fresh /\ FormatStep
  BY DEF Send, rxvars
<1>2. /\ xSCLK = SCLK /\ xSTROBE = STROBE
      /\ \/ previous_SCLK = SCLK /\ previous_STROBE = STROBE
         \/ SCLK = 0 /\ STROBE = 0
  BY <1>1 DEF Lines, Starting
<1>3. xSTROBE' \in {xSTROBE, STROBE'}
  BY DEF Send
<1>4. Holds(a_val, -1, 8)' <=> Holds(a_val, -1, 8)
  BY <1>1 DEF Holds, Old
<1> SUFFICES ASSUME given = -1, Last = Blank
             PROVE  \/ wr_en' = 0 /\ STROBE' = 1 /\ xSTROBE' = 1 /\ previous_STROBE' = 1
                    \/ wr_en' = 0 /\ STROBE' = 0 /\ SCLK' = 1 /\ bit' = 0
                    \/ Strobing' /\ Holds(a_val, -1, 8)'
  BY <1>1 DEF BlankOnce
<1>5. CASE wr_en = 0 /\ STROBE = 1 /\ xSTROBE = 1 /\ previous_STROBE = 1
  BY <1>1, <1>3, <1>5 DEF FormatStep
<1>6. CASE wr_en = 0 /\ STROBE = 0 /\ SCLK = 1 /\ bit = 0
  <2>1. STROBE' = 1 /\ previous_STROBE' = 0
    BY <1>1, <1>2, <1>6 DEF FormatStep
  <2>2. Holds(a_val, -1, 8)
    BY <1>2, <1>6 DEF Bits, Strobing, Untaken
  <2> QED BY <1>4, <2>1, <2>2 DEF Strobing
<1>7. CASE Strobing /\ Holds(a_val, -1, 8)
  <2>1. STROBE = 1 /\ wr_en = 1 /\ SCLK = 0 /\ bit = 7
    BY <1>2, <1>7 DEF Strobing, Bits, Untaken
  <2>2. STROBE' = 1 /\ wr_en' = 1
    BY <1>1, <2>1 DEF FormatStep
  <2> QED BY <1>4, <1>7, <2>2 DEF Strobing
<1> QED BY <1>5, <1>6, <1>7 DEF BlankOnce

\* An edge that writes nothing.
LEMMA BlankOnceIdle ==
  ASSUME ATypes, Lines, Bits, Clk, sender = "format", wr_en = 0, BlankOnce, Last' = Last
  PROVE  BlankOnce'
<1> USE DEF ATypes, Level
<1>1. /\ UNCHANGED <<SCLK, STROBE, word, bit, given>> /\ xSTROBE' = STROBE
      /\ previous_STROBE' = xSTROBE
      /\ wr_en' = IF xSTROBE # previous_STROBE /\ xSTROBE = 1 THEN 1 ELSE 0
  BY DEF Clk, Shift, Strobe, txvars
<1>2. SCLK = 0 => a_val' = a_val
  BY DEF Clk, Shift, Lines
<1>3. wr_en' = 1 => STROBE = 1 /\ previous_STROBE = 0
  BY <1>1 DEF Lines
<1> SUFFICES ASSUME given = -1, Last = Blank
             PROVE  \/ wr_en' = 0 /\ STROBE' = 1 /\ xSTROBE' = 1 /\ previous_STROBE' = 1
                    \/ wr_en' = 0 /\ STROBE' = 0 /\ SCLK' = 1 /\ bit' = 0
                    \/ Strobing' /\ Holds(a_val, -1, 8)'
  BY <1>1 DEF BlankOnce
<1>4. CASE STROBE = 1 /\ xSTROBE = 1 /\ previous_STROBE = 1
  BY <1>1, <1>4
<1>5. CASE STROBE = 0 /\ SCLK = 1 /\ bit = 0
  BY <1>1, <1>3, <1>5
<1>6. CASE Strobing /\ Holds(a_val, -1, 8)
  <2>1. STROBE = 1 /\ previous_STROBE = 0 /\ SCLK = 0
    BY <1>6 DEF Strobing, Bits
  <2>2. Strobing'
    BY <1>1, <2>1 DEF Strobing
  <2>3. Holds(a_val, -1, 8)'
    BY <1>2, <1>6, <2>1 DEF Holds, Old
  <2> QED BY <2>2, <2>3
<1> QED BY <1>4, <1>5, <1>6 DEF BlankOnce

LEMMA InOrderClk ==
  ASSUME ATypes, Aligned, F!IInv, F!IInv', InOrder, NEW rd_en \in {0, 1}, ChainClk(rd_en)
  PROVE  InOrder'
<1> SUFFICES ASSUME sender = "format", ~dropped'
             PROVE  Linked(taken', F!Contents') /\ LastIsStored' /\ BlankOnce'
  BY DEF ChainClk, Clk, txvars, InOrder
<1> USE DEF Level
<1>1. /\ Lines /\ Bits /\ Clk /\ Linked(taken, F!Contents) /\ LastIsStored /\ BlankOnce
  BY DEF Aligned, InOrder, ChainClk
<1>2. wr_en \in {0, 1} /\ given \in Tag \cup {-1}
  BY DEF ATypes
<1>3. given' = IF wr_en = 1 /\ a_val[1] # NoBit THEN a_val[1][1] ELSE given
  BY <1>1 DEF Clk
<1>4. CASE wr_en = 0
  <2>1. /\ Linked(taken', F!Contents') /\ Last' = Last
    BY <1>1, <1>4, EdgeOnWords DEF Last
  <2>2. LastIsStored'
    BY <1>1, <1>3, <1>4, <2>1 DEF LastIsStored
  <2> QED BY <1>1, <1>4, <2>1, <2>2, BlankOnceIdle
<1>5. CASE wr_en = 1
  <2>1. /\ STROBE' = 1 /\ xSTROBE' = 1 /\ previous_STROBE' = 1 /\ wr_en' = 0
    BY <1>1, <1>5 DEF Clk, Strobe, Lines, txvars
  <2>2. BlankOnce'
    BY <2>1 DEF BlankOnce
  <2>3. CASE a_val = Whole(W) /\ Holds(a_val, given, 8)
    <3>1. given' = W /\ W \in Tag /\ W # -1
      BY <1>2, <1>3, <1>5, <2>3, StoreHolds, AcqAssumption DEF W, Tag
    <3>2. Follows(Last, a_val)
      <4>1. CASE given = -1
        <5>1. W = 0 /\ Last \in {<<>>, Blank}
          BY <1>1, <4>1, FollowsZero DEF W, LastIsStored
        <5> QED BY <2>3, <5>1 DEF Follows
      <4>2. CASE given # -1
        BY <1>1, <1>2, <2>3, <4>2 DEF Follows, LastIsStored, W
      <4> QED BY <4>1, <4>2
    <3>3. Linked(taken', F!Contents') /\ Last' = a_val
      BY <1>1, <1>5, <3>2, EdgeOnWords DEF Last
    <3> QED BY <2>2, <2>3, <3>1, <3>3 DEF LastIsStored
  <2>4. CASE given = -1 /\ a_val = Blank /\ Holds(a_val, -1, 0)
    <3>1. a_val[1] = NoBit
      BY <2>4 DEF Holds, Old
    <3>2. ~Holds(a_val, -1, 8)
      <4>1. Holds(a_val, -1, 8) => a_val[1] # NoBit
        BY <2>4, StoreHolds
      <4> QED BY <3>1, <4>1
    <3>3. Last = <<>>
      BY <1>1, <1>5, <2>4, <3>2 DEF LastIsStored, BlankOnce
    <3>4. Follows(Last, a_val)
      BY <2>4, <3>3 DEF Follows
    <3>5. Linked(taken', F!Contents') /\ Last' = a_val
      BY <1>1, <1>5, <3>4, EdgeOnWords DEF Last
    <3>6. given' = -1
      BY <1>3, <2>4, <3>1
    <3> QED BY <2>2, <2>4, <3>5, <3>6 DEF LastIsStored
  <2> QED BY <1>1, <1>5, <2>3, <2>4, Written
<1> QED BY <1>2, <1>4, <1>5

\* The parts of the chain step as they do alone.
LEMMA ChainStep == ATypes /\ [ChainNext]_chainvars => [Next]_vars /\ [F!Next]_(F!vars)
<1> SUFFICES ASSUME ATypes, [ChainNext]_chainvars PROVE [Next]_vars /\ [F!Next]_(F!vars)
  OBVIOUS
<1>1. CASE ChainSend
  BY <1>1 DEF ChainSend, Next, fifovars, F!vars
<1>2. ASSUME NEW rd_en \in {0, 1}, ChainClk(rd_en) PROVE [Next]_vars /\ [F!Next]_(F!vars)
  <2>1. F!Clk(rd_en, wr_en, a_val)
    BY <1>2, SameClk DEF ChainClk
  <2>2. wr_en \in {0, 1} /\ a_val \in [1..Width -> BitTag]
    BY RegisterIsWord DEF ATypes, Level
  <2> QED BY <1>2, <2>1, <2>2 DEF ChainClk, Next, F!Next, F!Bit
<1>3. CASE UNCHANGED chainvars
  BY <1>3 DEF chainvars, fifovars, F!vars
<1> QED BY <1>1, <1>2, <1>3 DEF ChainNext, ChainEdge

LEMMA ChainIsChain == ChainSpec => [](ATypes /\ Aligned)
<1>1. ChainInit => Init
  BY DEF ChainInit
<1>2. ATypes /\ Aligned /\ [ChainNext]_chainvars => ATypes' /\ Aligned'
  BY ChainStep, AlignedNext
<1> QED BY <1>1, <1>2, InitATypes, InitAligned, PTL DEF ChainSpec

(***************************************************************************)
(* The same with the FIFO behind: reads and a full FIFO do not disturb the *)
(* receiver (wb_fifo_chain.vhdl:75-107).                                   *)
(***************************************************************************)
THEOREM ChainWordsAligned == ChainSpec => []WordsAligned
BY ChainIsChain, InvImpliesWordsAligned, PTL

(***************************************************************************)
(* The FIFO of the chain, driven by the bridge and by any reader, is the   *)
(* FIFO of fifo.vhdl, so it is the bounded queue of FifoImplementsQueue.   *)
(***************************************************************************)
THEOREM ChainImplementsQueue == ChainSpec => F!ImplementsQueue
<1>1. ChainInit => F!Init
  BY SameInit DEF ChainInit
<1>2. ChainSpec => F!Spec
  BY <1>1, ChainIsChain, ChainStep, PTL DEF ChainSpec, F!Spec
<1> QED BY <1>2, BlankIsWord, F!FifoImplementsQueue

LEMMA InOrderNext ==
  ATypes /\ Aligned /\ F!IInv /\ F!IInv' /\ InOrder /\ [ChainNext]_chainvars => InOrder'
<1> SUFFICES ASSUME ATypes, Aligned, F!IInv, F!IInv', InOrder, [ChainNext]_chainvars
             PROVE  InOrder'
  OBVIOUS
<1>1. CASE UNCHANGED <<fifovars, taken, dropped>> /\ (Send \/ UNCHANGED vars)
  <2>1. F!Contents' = F!Contents /\ taken' = taken /\ dropped' = dropped
    BY <1>1 DEF fifovars, F!Contents, F!Occupancy, F!SlotAt
  <2>2. Last' = Last
    BY <2>1 DEF Last
  <2>3. sender' = sender /\ given' = given
    BY <1>1 DEF Send, rxvars, vars, txvars
  <2> SUFFICES ASSUME sender = "format", ~dropped PROVE BlankOnce'
    BY <2>1, <2>2, <2>3 DEF InOrder, LastIsStored
  <2>4. CASE Send
    BY <2>2, <2>4, BlankOnceSend DEF Aligned, InOrder
  <2>5. CASE UNCHANGED vars
    BY <2>2, <2>5 DEF InOrder, BlankOnce, Strobing, Holds, Old, vars, txvars, pinvars, rxvars
  <2> QED BY <1>1, <2>4, <2>5
<1>2. ASSUME NEW rd_en \in {0, 1}, ChainClk(rd_en) PROVE InOrder'
  BY <1>2, InOrderClk
<1> QED BY <1>1, <1>2 DEF ChainNext, ChainSend, ChainEdge, chainvars

\* Behind the word that left last come those that are given.
LEMMA LinkedDelivered ==
  ASSUME NEW S, NEW c \in Seq(S), NEW t, Linked(t, c),
         NEW k \in 1..(Len(<<t>> \o c) - 1)
  PROVE  Follows((<<t>> \o c)[k], (<<t>> \o c)[k + 1])
<1>1. PICK n \in Nat : n = Len(c)
  BY LenProperties
<1>2. <<t>> \in Seq(S \cup {t}) /\ Len(<<t>>) = 1 /\ c \in Seq(S \cup {t})
  OBVIOUS
<1>3. PICK d : d = <<t>> \o c
  OBVIOUS
<1>4. /\ Len(d) = n + 1
      /\ \A j \in 1..(n + 1) : d[j] = IF j <= 1 THEN <<t>>[j] ELSE c[j - 1]
  <2>1. /\ Len(<<t>> \o c) = Len(<<t>>) + Len(c)
        /\ \A j \in 1..(Len(<<t>>) + Len(c)) :
             (<<t>> \o c)[j] = IF j <= Len(<<t>>) THEN <<t>>[j] ELSE c[j - Len(<<t>>)]
    BY <1>2, ConcatProperties
  <2>2. Len(<<t>>) + Len(c) = n + 1
    BY <1>1, <1>2
  <2> QED BY <1>2, <1>3, <2>1, <2>2
<1>5. k \in 1..n
  BY <1>1, <1>3, <1>4
<1>6. d[k + 1] = c[k]
  BY <1>4, <1>5
<1>7. CASE k = 1
  <2>1. d[k] = t
    BY <1>4, <1>7, <1>5
  <2>2. Follows(t, c[1])
    BY <1>1, <1>5, <1>7, EmptySeq DEF Linked
  <2> QED BY <1>3, <1>6, <1>7, <2>1, <2>2
<1>8. CASE k # 1
  <2>1. d[k] = c[k - 1] /\ k - 1 \in 1..(Len(c) - 1) /\ (k - 1) + 1 = k
    BY <1>1, <1>4, <1>5, <1>8
  <2>2. Follows(c[k - 1], c[(k - 1) + 1])
    BY <2>1 DEF Linked
  <2> QED BY <1>3, <1>6, <2>1, <2>2
<1> QED BY <1>7, <1>8

(***************************************************************************)
(* End to end, for any size of the FIFO and any numbering of the words: as *)
(* long as none is dropped, the words of the format leave the FIFO whole,  *)
(* once and in the order they were sent, after at most one empty register. *)
(***************************************************************************)
THEOREM ChainWordsFollow == ChainSpec => []WordsFollow
<1>1. ATypes /\ F!IInv /\ [ChainNext]_chainvars => F!IInv'
  BY ChainStep, BlankIsWord, F!NextIInv
<1>2. ChainSpec => []F!IInv
  BY <1>1, ChainIsChain, InitInOrder, PTL DEF ChainSpec
<1>3. ChainSpec => []InOrder
  BY <1>2, ChainIsChain, InitInOrder, InOrderNext, PTL DEF ChainSpec
<1>4. F!IInv /\ InOrder => WordsFollow
  <2> SUFFICES ASSUME F!IInv, InOrder, sender = "format", ~dropped,
                      NEW k \in 1..(Len(Delivered) - 1)
               PROVE  Follows(Delivered[k], Delivered[k + 1])
    BY DEF WordsFollow
  <2>1. Delivered = <<taken>> \o F!Contents
    BY SameContents DEF Delivered
  <2>2. Linked(taken, F!Contents)
    BY DEF InOrder
  <2>3. F!Contents \in Seq([1..Width -> BitTag])
    BY BlankIsWord, F!ContentsIs DEF F!Stored
  <2> QED BY <2>1, <2>2, <2>3, LinkedDelivered
<1> QED BY <1>2, <1>3, <1>4, PTL
=============================================================================
