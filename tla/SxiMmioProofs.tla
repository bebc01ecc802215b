--------------------------- MODULE SxiMmioProofs ---------------------------
(***************************************************************************)
(* Theorems about SxiMmio, for every size of the FIFO, every number of     *)
(* words and accesses of any length, if at least one clock lies between    *)
(* two of them.                                                            *)
(***************************************************************************)
EXTENDS SxiMmio, FifoProofs

DataAccess == master = "user" /\ pc = "data"

\* The word address of what the program asks for.
Wanted == CASE pc = "checkID" -> 4 [] pc = "count" -> 5 [] OTHER -> 6

(* Who is on the bus, and when the read enable is up: from the first edge   *)
(* of a data access to the first edge after it.                             *)
Bus ==
  /\ rd_en \in Bit /\ wr_en \in Bit
  /\ din \in 0..NWords /\ (wr_en = 1 => din >= 1)
  /\ beats \in Nat /\ gap \in Nat /\ slow \in BOOLEAN /\ overrun \in BOOLEAN
  /\ pc \in {"checkID", "exited", "count", "data", "done"}
  /\ \/ master = "none"
     \/ master = "kernel" /\ address \in {1, 7, 8}
     \/ master = "user" /\ address = Wanted /\ pc \in {"checkID", "count", "data"}
  /\ master # "none" => gap = 0
  /\ DataAccess /\ beats >= 1 => rd_en = 1
  /\ rd_en = 1 => \/ DataAccess /\ beats >= 1
                  \/ master = "none" /\ gap = 0 /\ pc # "data"

MTypes == IInv /\ Bus

LEMMA Addresses ==
  /\ is_slctd(5, fifoa) /\ is_slctd(6, fifoa)
  /\ ~is_slctd(5, irqa) /\ ~is_slctd(6, irqa)
  /\ 5 % 4 = 1 /\ 6 % 4 = 2
  /\ \A a \in {1, 4, 5, 7, 8} : a % 4 # 2
  /\ C_ID \div 2 = 4 /\ C_COUNT \div 2 = 5 /\ C_DATA \div 2 = 6
  /\ \A offset \in OtherOffset : offset \div 2 \in {1, 7, 8}
BY DEF is_slctd, irqa, fifoa, C_ID, C_COUNT, C_DATA, OtherOffset

LEMMA InitMTypes == MmioInit => MTypes
<1> SUFFICES ASSUME MmioInit PROVE MTypes
  OBVIOUS
<1>1. Init
  BY FifoAssumption DEF MmioInit, WbInit, Init
<1>2. /\ rd_en = 0 /\ wr_en = 0 /\ din = 0 /\ beats = 0 /\ gap = 0 /\ master = "none"
      /\ pc \in {"checkID", "count"}
  BY MmioAssumption DEF MmioInit, WbInit
<1>3. slow \in BOOLEAN /\ overrun \in BOOLEAN
  BY DEF MmioInit
<1>4. Bus
  BY <1>2, <1>3, MmioAssumption DEF Bus, Bit, DataAccess
<1> QED BY <1>1, <1>4, InitIInv DEF MTypes

(* The two registers of the read path at an edge.                           *)
LEMMA EdgeReads ==
  ASSUME MTypes, Edge
  PROVE  /\ rd_en' = IF DataAccess THEN 1 ELSE 0
         /\ DataAccess => readdata' = dout
         /\ master = "user" /\ pc = "count" => readdata' = DCntr
<1> USE DEF MTypes, Bus
<1>1. DataAccess => address = 6 /\ is_slctd(address, fifoa) /\ address % 4 = 2
  BY Addresses DEF DataAccess, Wanted
<1>2. master # "none" /\ ~DataAccess => address % 4 # 2
  <2>1. master # "none" /\ ~DataAccess => address \in {1, 4, 5, 7, 8}
    BY DEF DataAccess, Wanted
  <2> QED BY <2>1, Addresses
<1>3. master = "user" /\ pc = "count" => is_slctd(address, fifoa) /\ address % 4 = 1
  BY Addresses DEF Wanted
<1>4. WbEdge(master # "none" /\ is_slctd(address, fifoa), address % 4)
  BY DEF Edge
<1>5. Register[1] = DCntr /\ Register[2] = dout
  BY DEF Register
<1>6. rd_en' = IF DataAccess THEN 1 ELSE 0
  BY <1>1, <1>2, <1>4 DEF WbEdge, DataAccess
<1>7. DataAccess => readdata' = dout
  BY <1>1, <1>4, <1>5 DEF WbEdge, DataAccess
<1>8. master = "user" /\ pc = "count" => readdata' = DCntr
  BY <1>3, <1>4, <1>5 DEF WbEdge
<1> QED BY <1>6, <1>7, <1>8

LEMMA FifoStep == MTypes /\ [MmioNext]_allvars => IInv'
<1> SUFFICES ASSUME MTypes, [MmioNext]_allvars PROVE IInv'
  OBVIOUS
<1>1. CASE Edge
  <2>1. din \in Word /\ rd_en \in Bit /\ wr_en \in Bit
    BY MmioAssumption, FifoAssumption DEF MTypes, Bus
  <2>2. Next
    BY <1>1, <2>1 DEF Edge, Next
  <2> QED BY <2>2, NextIInv DEF MTypes
<1>2. CASE ~Edge
  <2>1. UNCHANGED vars
    BY <1>2 DEF MmioNext, User, Kernel, BeginUser, Begin, CheckID, SeeCount, TakeData, Release,
       allvars
  <2> QED BY <2>1, NextIInv DEF MTypes
<1> QED BY <1>1, <1>2

LEMMA BusStep ==
  ASSUME MinGap >= 1
  PROVE  MTypes /\ [MmioNext]_allvars => Bus'
<1> SUFFICES ASSUME MTypes, [MmioNext]_allvars PROVE Bus'
  OBVIOUS
<1> USE MmioAssumption DEF MTypes, Bus, busvars, wbvars
<1>1. CASE Edge
  <2>1. rd_en' = IF DataAccess THEN 1 ELSE 0
    BY <1>1, EdgeReads
  <2>2. wr_en' \in Bit /\ din' \in 0..NWords /\ (wr_en' = 1 => din' >= 1)
    BY <1>1 DEF Edge, Bridge, Bit
  <2>3. /\ beats' \in Nat /\ gap' \in Nat /\ UNCHANGED <<pc, master, address>>
        /\ master # "none" => beats' >= 1 /\ gap' = gap
        /\ slow' \in BOOLEAN /\ overrun' \in BOOLEAN
    BY <1>1 DEF Edge
  <2> QED BY <2>1, <2>2, <2>3 DEF DataAccess, Wanted, Bit
<1>2. ASSUME NEW who \in {"user", "kernel"}, NEW offset, Begin(who, offset),
             \/ who = "user" /\ pc \in {"checkID", "count", "data"} /\ offset \div 2 = Wanted
             \/ who = "kernel" /\ offset \div 2 \in {1, 7, 8}
      PROVE  Bus'
  <2>1. rd_en = 0
    BY <1>2 DEF Begin, Bit, DataAccess
  <2>2. master' = who /\ address' = offset \div 2 /\ beats' = 0 /\ gap' = 0
        /\ UNCHANGED <<wbvars, wr_en, din, pc, overrun, slow>>
    BY <1>2 DEF Begin
  <2> QED BY <1>2, <2>1, <2>2 DEF DataAccess, Wanted
<1>3. CASE BeginUser
  BY <1>2, <1>3, Addresses DEF BeginUser, Wanted
<1>4. ASSUME NEW who \in {"user", "kernel"}, Release(who), pc' \in {"checkID", "exited", "count", "data", "done"},
             rd_en = 1 => pc' # "data", who = "kernel" => rd_en = 0
      PROVE  Bus'
  <2>1. /\ master' = "none" /\ gap = 0 /\ UNCHANGED <<wbvars, wr_en, din, beats, gap, overrun, slow>>
    BY <1>4 DEF Release
  <2> QED BY <1>4, <2>1 DEF DataAccess, Wanted
<1>5. CASE CheckID \/ SeeCount \/ TakeData
  BY <1>4, <1>5 DEF CheckID, SeeCount, TakeData, DataAccess, Release
<1>6. CASE Kernel
  BY <1>2, <1>4, <1>6, Addresses DEF Kernel, DataAccess, Release, Bit
<1>7. CASE UNCHANGED allvars
  BY <1>7 DEF allvars, DataAccess, Wanted
<1> QED BY <1>1, <1>3, <1>5, <1>6, <1>7 DEF MmioNext, User
-----------------------------------------------------------------------------
\* What a sequence is once its first word is gone.
Rest(s) == IF s = <<>> THEN <<>> ELSE Tail(s)

LEMMA RestProperties ==
  ASSUME NEW S, NEW s \in Seq(S)
  PROVE  /\ Rest(s) \in Seq(S)
         /\ Len(Rest(s)) = IF s = <<>> THEN 0 ELSE Len(s) - 1
         /\ \A i \in 1..Len(Rest(s)) : i + 1 \in 1..Len(s) /\ Rest(s)[i] = s[i + 1]
         /\ s # <<>> => Len(s) >= 1 /\ Head(s) = s[1]
<1>1. CASE s = <<>>
  BY <1>1, EmptySeq DEF Rest
<1>2. CASE s # <<>>
  <2>1. Len(s) \in Nat \ {0} /\ Tail(s) \in Seq(S) /\ Len(Tail(s)) = Len(s) - 1
        /\ \A i \in 1..Len(Tail(s)) : Tail(s)[i] = s[i + 1]
    BY <1>2, EmptySeq, HeadTailProperties
  <2> QED BY <1>2, <2>1 DEF Rest
<1> QED BY <1>1, <1>2

LEMMA WaitingIs == Waiting = IF rd_en = 1 THEN Rest(Contents) ELSE Contents
BY DEF Waiting, Rest

(* An edge takes away the word asked for and puts the word offered; the     *)
(* latter is lost to a full FIFO, and to a read of an empty one.            *)
LEMMA FifoEdge ==
  ASSUME MTypes, IInv', Edge
  PROVE  /\ wr_en = 0 => Contents' = Waiting
         /\ wr_en = 1 => \/ Contents' = Append(Waiting, din)
                         \/ Contents' = Waiting /\ (overrun' \/ (rd_en = 1 /\ emptyxB = 1))
<1> USE DEF MTypes, Bus, Bit
<1>0. din \in Word /\ IInv /\ (Contents = <<>> <=> emptyxB = 1) /\ emptyxB \in {0, 1} /\ fullxB \in {0, 1}
  BY MmioAssumption, FifoAssumption, ContentsIs, Pointers DEF Stored
<1>1. (Contents = <<>> <=> emptyxB = 1)'
  BY ContentsThen DEF Stored
<1>2. CASE rd_en = 1 /\ wr_en = 1
  <2>1. ReadWrite(din)
    BY <1>2 DEF Edge, Clk
  <2>2. CASE emptyxB = 1
    BY <1>0, <1>1, <1>2, <2>1, <2>2 DEF ReadWrite, Waiting
  <2>3. CASE emptyxB = 0
    BY <1>0, <1>2, <2>1, <2>3, ReadWriteExchanges DEF Waiting
  <2> QED BY <1>0, <2>2, <2>3
<1>3. CASE rd_en = 1 /\ wr_en = 0
  <2>1. ReadOnly
    BY <1>3 DEF Edge, Clk
  <2>2. CASE emptyxB = 1
    BY <1>0, <1>1, <1>3, <2>1, <2>2 DEF ReadOnly, Waiting
  <2>3. CASE emptyxB = 0
    BY <1>0, <1>3, <2>1, <2>3, ReadTakesHead DEF Waiting
  <2> QED BY <1>0, <2>2, <2>3
<1>4. CASE rd_en = 0 /\ wr_en = 1
  <2>1. WriteOnly(din)
    BY <1>4 DEF Edge, Clk
  <2>4. fullxB = 1 => overrun'
    <3>1. overrun' = (overrun \/ (wr_en = 1 /\ rd_en = 0 /\ fullxB = 1))
      BY DEF Edge
    <3> QED BY <1>4, <3>1, Zenon
  <2>2. CASE fullxB = 0
    BY <1>0, <1>4, <2>1, <2>2, WriteAppends DEF Waiting
  <2>3. CASE fullxB = 1
    <3>1. UNCHANGED <<reg, fullxB, WrCntr, RdCntr>>
      BY <2>1, <2>3 DEF WriteOnly
    <3>2. Contents' = Contents
      BY <3>1 DEF Contents, Occupancy, SlotAt
    <3>3. Contents' = Waiting
      BY <1>4, <3>2 DEF Waiting
    <3>4. wr_en # 0
      BY <1>4
    <3>5. overrun'
      BY <2>3, <2>4, Zenon
    <3> QED BY <3>3, <3>4, <3>5, Zenon
  <2> QED BY <1>0, <2>2, <2>3
<1>5. CASE rd_en = 0 /\ wr_en = 0
  <2>1. UNCHANGED <<reg, fullxB, WrCntr, RdCntr>>
    BY <1>5 DEF Edge, Clk, Hold
  <2>2. Contents' = Contents
    BY <2>1 DEF Contents, Occupancy, SlotAt
  <2> QED BY <1>5, <2>2 DEF Waiting
<1> QED BY <1>2, <1>3, <1>4, <1>5
-----------------------------------------------------------------------------
(* Words in the order they were sent; a 0 is none of them.                  *)
Ascending(s) == \A i, j \in 1..Len(s) : i < j /\ s[i] # 0 /\ s[j] # 0 => s[i] < s[j]

Below(s, t) == \A i \in 1..Len(s), j \in 1..Len(t) : s[i] # 0 /\ t[j] # 0 => s[i] < t[j]

LEMMA SeqGrows ==
  ASSUME NEW m \in Int, NEW n \in Nat, NEW k \in Nat, n <= k, NEW s \in Seq(m..n)
  PROVE  s \in Seq(m..k) /\ Len(s) \in Nat /\ \A i \in 1..Len(s) : s[i] \in m..n
<1>1. m..n \subseteq m..k
  OBVIOUS
<1>2. s \in Seq(m..k)
  BY <1>1, SeqMonotonic
<1>3. Len(s) \in Nat /\ \A i \in 1..Len(s) : s[i] \in m..n
  BY LenProperties, ElementOfSeq
<1> QED BY <1>2, <1>3

LEMMA OneMore ==
  ASSUME NEW S, NEW s \in Seq(S), NEW x \in S
  PROVE  /\ Append(s, x) \in Seq(S) /\ Len(Append(s, x)) = Len(s) + 1 /\ Len(s) \in Nat
         /\ \A i \in 1..(Len(s) + 1) : Append(s, x)[i] = IF i = Len(s) + 1 THEN x ELSE s[i]
<1>1. /\ Append(s, x) \in Seq(S) /\ Len(Append(s, x)) = Len(s) + 1
      /\ \A i \in 1..Len(s) : Append(s, x)[i] = s[i]
      /\ Append(s, x)[Len(s) + 1] = x
  BY AppendProperties
<1>2. Len(s) \in Nat
  BY LenProperties
<1> QED BY <1>1, <1>2

LEMMA AscendingAppend ==
  ASSUME NEW n \in Nat, NEW s \in Seq(0..n), NEW x \in 0..n, Ascending(s),
         \A i \in 1..Len(s) : s[i] # 0 /\ x # 0 => s[i] < x
  PROVE  Ascending(Append(s, x))
<1> DEFINE t == Append(s, x)
<1>1. /\ Len(t) = Len(s) + 1 /\ Len(s) \in Nat
      /\ \A i \in 1..(Len(s) + 1) : t[i] = IF i = Len(s) + 1 THEN x ELSE s[i]
  BY OneMore
<1>2. \A i \in 1..Len(s) : s[i] \in 0..n
  BY ElementOfSeq
<1> HIDE DEF t
<1>3. Ascending(t)
  <2> SUFFICES ASSUME NEW i \in 1..Len(t), NEW j \in 1..Len(t), i < j, t[i] # 0, t[j] # 0
               PROVE  t[i] < t[j]
    BY DEF Ascending
  <2>1. i \in 1..Len(s) /\ t[i] = s[i]
    BY <1>1
  <2>2. CASE j = Len(s) + 1
    BY <1>1, <2>1, <2>2
  <2>3. CASE j # Len(s) + 1
    <3>1. j \in 1..Len(s) /\ t[j] = s[j]
      BY <1>1, <2>3
    <3> QED BY <2>1, <3>1 DEF Ascending
  <2> QED BY <2>2, <2>3
<1> QED BY <1>3 DEF t

LEMMA BelowAppend ==
  ASSUME NEW n \in Nat, NEW s \in Seq(0..n), NEW t \in Seq(0..n), NEW x \in 0..n, Below(s, t),
         \A i \in 1..Len(s) : s[i] # 0 /\ x # 0 => s[i] < x
  PROVE  Below(s, Append(t, x))
<1> DEFINE a == Append(t, x)
<1>1. /\ Len(a) = Len(t) + 1 /\ Len(t) \in Nat
      /\ \A i \in 1..(Len(t) + 1) : a[i] = IF i = Len(t) + 1 THEN x ELSE t[i]
  BY OneMore
<1> HIDE DEF a
<1>2. Below(s, a)
  <2> SUFFICES ASSUME NEW i \in 1..Len(s), NEW j \in 1..Len(a), s[i] # 0, a[j] # 0
               PROVE  s[i] < a[j]
    BY DEF Below
  <2>1. CASE j = Len(t) + 1
    BY <1>1, <2>1
  <2>2. CASE j # Len(t) + 1
    <3>1. j \in 1..Len(t) /\ a[j] = t[j]
      BY <1>1, <2>2
    <3> QED BY <3>1 DEF Below
  <2> QED BY <2>1, <2>2
<1> QED BY <1>2 DEF a

LEMMA AppendBelow ==
  ASSUME NEW n \in Nat, NEW s \in Seq(0..n), NEW t \in Seq(0..n), NEW x \in 0..n, Below(s, t),
         \A j \in 1..Len(t) : x # 0 /\ t[j] # 0 => x < t[j]
  PROVE  Below(Append(s, x), t)
<1> DEFINE a == Append(s, x)
<1>1. /\ Len(a) = Len(s) + 1 /\ Len(s) \in Nat
      /\ \A i \in 1..(Len(s) + 1) : a[i] = IF i = Len(s) + 1 THEN x ELSE s[i]
  BY OneMore
<1> HIDE DEF a
<1>2. Below(a, t)
  <2> SUFFICES ASSUME NEW i \in 1..Len(a), NEW j \in 1..Len(t), a[i] # 0, t[j] # 0
               PROVE  a[i] < t[j]
    BY DEF Below
  <2>1. CASE i = Len(s) + 1
    BY <1>1, <2>1
  <2>2. CASE i # Len(s) + 1
    <3>0. i \in 1..(Len(s) + 1) /\ i \in 1..Len(s)
      BY <1>1, <2>2
    <3>1. a[i] = s[i]
      BY <1>1, <2>2, <3>0
    <3> QED BY <3>0, <3>1 DEF Below
  <2> QED BY <2>1, <2>2
<1> QED BY <1>2 DEF a

LEMMA RestOrder ==
  ASSUME NEW n \in Nat, NEW s \in Seq(0..n), NEW t \in Seq(1..n)
  PROVE  /\ Ascending(t) => Ascending(Rest(t))
         /\ Below(s, t) => Below(s, Rest(t))
         /\ Ascending(t) /\ t # <<>> => \A j \in 1..Len(Rest(t)) : t[1] < Rest(t)[j]
<1>1. /\ Rest(t) \in Seq(1..n)
      /\ Len(Rest(t)) = IF t = <<>> THEN 0 ELSE Len(t) - 1
      /\ \A i \in 1..Len(Rest(t)) : i + 1 \in 1..Len(t) /\ Rest(t)[i] = t[i + 1]
      /\ t # <<>> => Len(t) >= 1
  BY RestProperties
<1>2. Len(t) \in Nat /\ \A i \in 1..Len(t) : t[i] \in 1..n
  BY LenProperties, ElementOfSeq
<1> DEFINE u == Rest(t)
<1> HIDE DEF u
<1>3. \A i \in 1..Len(u) : i \in Nat \ {0} /\ i + 1 \in 1..Len(t) /\ u[i] = t[i + 1]
  BY <1>1 DEF u
<1>4. Ascending(t) => Ascending(u)
  <2> SUFFICES ASSUME Ascending(t), NEW i \in 1..Len(u), NEW j \in 1..Len(u), i < j,
                      u[i] # 0, u[j] # 0
               PROVE  u[i] < u[j]
    BY DEF Ascending
  <2>1. i + 1 \in 1..Len(t) /\ j + 1 \in 1..Len(t) /\ i + 1 < j + 1
    BY <1>3
  <2>2. u[i] = t[i + 1] /\ u[j] = t[j + 1]
    BY <1>3
  <2> QED BY <2>1, <2>2 DEF Ascending
<1>5. Below(s, t) => Below(s, u)
  BY <1>2, <1>3 DEF Below
<1>6. Ascending(t) /\ t # <<>> => \A j \in 1..Len(u) : t[1] < u[j]
  <2> SUFFICES ASSUME Ascending(t), t # <<>>, NEW j \in 1..Len(u) PROVE t[1] < u[j]
    OBVIOUS
  <2>1. 1 \in 1..Len(t) /\ j + 1 \in 1..Len(t) /\ 1 < j + 1 /\ u[j] = t[j + 1]
    BY <1>1, <1>2, <1>3
  <2>2. t[1] # 0 /\ t[j + 1] # 0
    BY <1>2, <2>1
  <2> QED BY <2>1, <2>2 DEF Ascending
<1> QED BY <1>4, <1>5, <1>6 DEF u
-----------------------------------------------------------------------------
(***************************************************************************)
(* The invariant.  Enough: the program asks for a word only when there is  *)
(* one, and the word stays until the edge that takes it.  Flow: the words  *)
(* that were taken, the one on its way and those still to be taken are in  *)
(* order, and nothing but an overrun or a slow read makes them fewer than  *)
(* were sent.                                                              *)
(***************************************************************************)
Enough ==
  /\ ~slow /\ (pc = "data" \/ rd_en = 1) => emptyxB = 0
  /\ pc = "count" /\ master = "user" /\ beats >= 1 /\ readdata # 0 => emptyxB = 0

Seen == buf \o InFlight

Answered == DataAccess /\ beats >= 1

Flow ==
  /\ buf \in Seq(0..Sent) /\ Contents \in Seq(1..Sent)
  /\ Answered => /\ readdata \in 0..Sent /\ (readdata = 0 => slow)
                 /\ Below(buf, Contents)
  /\ ~slow => \A i \in 1..Len(buf) : buf[i] # 0
  /\ Ascending(Seen) /\ Ascending(Contents) /\ Below(Seen, Waiting)
  /\ ~overrun /\ ~slow => Len(Seen) + Len(Waiting) = Sent

MInv == MTypes /\ Enough /\ Flow

LEMMA SeenIs ==
  ASSUME buf \in Seq(0..Sent), Answered => readdata \in 0..Sent
  PROVE  Seen = IF Answered THEN Append(buf, readdata) ELSE buf
<1>1. CASE Answered
  <2>1. InFlight = <<readdata>>
    BY <1>1 DEF Answered, DataAccess, InFlight
  <2> QED BY <1>1, <2>1, AppendIsConcat DEF Seen
<1>2. CASE ~Answered
  <2>1. InFlight = <<>>
    BY <1>2 DEF Answered, DataAccess, InFlight
  <2> QED BY <1>2, <2>1, ConcatEmptySeq DEF Seen
<1> QED BY <1>1, <1>2

LEMMA SeenNext ==
  ASSUME buf' \in Seq(0..Sent'), Answered' => readdata' \in 0..Sent'
  PROVE  Seen' = IF Answered' THEN Append(buf', readdata') ELSE buf'
<1>1. CASE Answered'
  <2>1. InFlight' = <<readdata'>>
    BY <1>1 DEF Answered, DataAccess, InFlight
  <2> QED BY <1>1, <2>1, AppendIsConcat DEF Seen
<1>2. CASE ~Answered'
  <2>1. InFlight' = <<>>
    BY <1>2 DEF Answered, DataAccess, InFlight
  <2> QED BY <1>2, <2>1, ConcatEmptySeq DEF Seen
<1> QED BY <1>1, <1>2

LEMMA EnoughStep == MTypes /\ Enough /\ IInv' /\ Bus' /\ [MmioNext]_allvars => Enough'
<1> SUFFICES ASSUME MTypes, Enough, IInv', Bus', [MmioNext]_allvars PROVE Enough'
  OBVIOUS
<1> USE DEF busvars, wbvars
<1>0. Bus /\ IInv
  BY DEF MTypes
<1>1. CASE Edge
  <2>1. /\ UNCHANGED <<pc, master>> /\ (master # "none" => beats' = beats + 1)
        /\ Clk(rd_en, wr_en, din)
    BY <1>1 DEF Edge
  <2>2. slow' = (slow \/ (master = "user" /\ pc = "data" /\ beats >= 1))
    BY <1>1 DEF Edge
  <2>3. rd_en = 0 => (emptyxB = 0 => emptyxB' = 0)
    BY <2>1 DEF Clk, WriteOnly, Hold
  <2>4. ASSUME ~slow', pc = "data" \/ rd_en' = 1 PROVE emptyxB' = 0
    <3>1. ~slow /\ ~(DataAccess /\ beats >= 1)
      BY <2>2, <2>4, Zenon DEF DataAccess
    <3>2. pc = "data"
      BY <1>0, <1>1, <2>4, EdgeReads DEF DataAccess
    <3>3. rd_en = 0
      BY <1>0, <3>1, <3>2 DEF Bus, Bit
    <3> QED BY <2>3, <3>1, <3>2, <3>3 DEF Enough
  <2>5. ASSUME pc = "count", master = "user", readdata' # 0 PROVE emptyxB' = 0
    <3>1. readdata' = DCntr /\ rd_en = 0
      BY <1>0, <1>1, <2>5, EdgeReads DEF Bus, Bit, DataAccess
    <3>2. Occupancy # 0
      BY <1>0, <2>5, <3>1, FifoAssumption DEF IInv, CountFollowsOccupancy
    <3>3. emptyxB = 0
      BY <1>0, <3>2, ContentsIs, Pointers DEF Stored
    <3> QED BY <2>3, <3>1, <3>3
  <2> QED BY <2>1, <2>4, <2>5 DEF Enough
<1>2. CASE BeginUser \/ \E offset \in OtherOffset : Begin("kernel", offset)
  <2>1. UNCHANGED <<emptyxB, slow, pc, rd_en>> /\ beats' = 0
    BY <1>2 DEF BeginUser, Begin, vars
  <2> QED BY <2>1 DEF Enough
<1>3. CASE SeeCount
  <2>1. /\ pc = "count" /\ master = "user" /\ beats >= 1 /\ master' = "none"
        /\ UNCHANGED <<emptyxB, slow, rd_en>>
        /\ pc' = IF Mux = 0 THEN "count" ELSE "data"
    BY <1>3 DEF SeeCount, Release, vars
  <2>2. Mux = readdata
    BY <1>0, <2>1, Addresses DEF Bus, Wanted, Mux
  <2> QED BY <1>0, <2>1, <2>2 DEF Enough, Bus
<1>4. CASE CheckID \/ TakeData
  <2>1. UNCHANGED <<emptyxB, slow, rd_en>> /\ master' = "none" /\ pc' # "data"
    BY <1>4 DEF CheckID, TakeData, Release, vars
  <2> QED BY <2>1 DEF Enough
<1>5. CASE Release("kernel") /\ UNCHANGED <<pc, buf>>
  <2>1. UNCHANGED <<emptyxB, slow, rd_en, pc>> /\ master' = "none"
    BY <1>5 DEF Release, vars
  <2> QED BY <2>1 DEF Enough
<1>6. CASE UNCHANGED allvars
  BY <1>6 DEF allvars, vars, Enough
<1> QED BY <1>1, <1>2, <1>3, <1>4, <1>5, <1>6 DEF MmioNext, User, Kernel

(* A step that is no edge and stores no word.                               *)
LEMMA FlowQuiet ==
  ASSUME Flow, UNCHANGED <<vars, rd_en, readdata, wr_en, din, buf, overrun, slow>>, Answered' = Answered
  PROVE  Flow'
<1>1. UNCHANGED <<Contents, Waiting, Sent>>
  BY DEF vars, Contents, Waiting, Sent, Occupancy, SlotAt
<1>2. Seen' = Seen
  BY DEF Answered, DataAccess, InFlight, Seen
<1> QED BY <1>1, <1>2 DEF Flow

(* The bridge offers the next word, and the FIFO has seen every one before. *)
LEMMA SentStep ==
  ASSUME MTypes, Edge
  PROVE  /\ Sent \in Nat /\ Sent' = Sent + wr_en
         /\ wr_en = 1 => din = Sent + 1
<1> QED BY MmioAssumption DEF MTypes, Bus, Bit, Edge, Bridge, Sent

(* What the edge leaves in the FIFO is in order, behind the words taken.    *)
LEMMA EdgeContents ==
  ASSUME MTypes, IInv', Flow, Edge
  PROVE  /\ Sent \in Nat /\ Sent' \in Nat /\ Sent <= Sent'
         /\ Waiting \in Seq(1..Sent) /\ Contents' \in Seq(1..Sent')
         /\ Ascending(Contents') /\ Below(Seen, Contents')
         /\ \A x \in 0..Sent : (\A j \in 1..Len(Waiting) : x < Waiting[j])
                                 => \A j \in 1..Len(Contents') : x < Contents'[j]
         /\ Waiting # <<>> => Contents' # <<>> /\ Contents'[1] = Waiting[1]
<1>1. Sent \in Nat /\ Sent' = Sent + wr_en /\ wr_en \in {0, 1} /\ (wr_en = 1 => din = Sent + 1)
  BY SentStep DEF MTypes, Bus, Bit
<1>2. Waiting \in Seq(1..Sent) /\ Ascending(Waiting) /\ Below(Seen, Waiting)
  BY <1>1, WaitingIs, RestProperties, RestOrder DEF Flow
<1>3. Seen \in Seq(0..Sent)
  <2>1. buf \in Seq(0..Sent) /\ (Answered => readdata \in 0..Sent)
    BY DEF Flow
  <2>2. Answered => Append(buf, readdata) \in Seq(0..Sent)
    BY <2>1, OneMore
  <2> QED BY <2>1, <2>2, SeenIs
<1> DEFINE n == Sent
           w == Waiting
           s == Seen
<1>4. n \in Nat /\ w \in Seq(1..n) /\ s \in Seq(0..n) /\ Ascending(w) /\ Below(s, w)
  BY <1>1, <1>2, <1>3
<1>5. CASE Contents' = Waiting
  <2>1. w \in Seq(1..Sent')
    BY <1>1, <1>4, SeqGrows
  <2> QED BY <1>1, <1>2, <1>5, <2>1
<1>6. CASE wr_en = 1 /\ Contents' = Append(Waiting, din)
  <2> DEFINE a == Append(w, n + 1)
  <2>1. Contents' = a /\ Sent' = n + 1
    BY <1>1, <1>6
  <2> HIDE DEF n, w, s
  <2>2. /\ w \in Seq(1..(n + 1)) /\ w \in Seq(0..(n + 1)) /\ s \in Seq(0..(n + 1))
        /\ Len(w) \in Nat /\ \A i \in 1..Len(w) : w[i] \in 1..n
        /\ Len(s) \in Nat /\ \A i \in 1..Len(s) : s[i] \in 0..n
    <3>1. 1..n \subseteq 0..(n + 1)
      BY <1>4
    <3>2. w \in Seq(0..(n + 1))
      BY <1>4, <3>1, SeqMonotonic
    <3> QED BY <1>4, <3>2, SeqGrows
  <2>3. n + 1 \in 1..(n + 1) /\ n + 1 \in Nat
    BY <1>4
  <2>4. /\ a \in Seq(1..(n + 1)) /\ Len(a) = Len(w) + 1
        /\ \A i \in 1..(Len(w) + 1) : a[i] = IF i = Len(w) + 1 THEN n + 1 ELSE w[i]
    BY <2>2, <2>3, OneMore
  <2>5. Ascending(a)
    <3>1. n + 1 \in 0..(n + 1) /\ \A i \in 1..Len(w) : w[i] < n + 1
      BY <1>4, <2>2
    <3> QED BY <1>4, <2>2, <2>3, <3>1, AscendingAppend
  <2>6. Below(s, a)
    <3>1. n + 1 \in 0..(n + 1) /\ \A i \in 1..Len(s) : s[i] < n + 1
      BY <1>4, <2>2
    <3> QED BY <1>4, <2>2, <2>3, <3>1, BelowAppend
  <2>7. ASSUME NEW x \in 0..n, \A j \in 1..Len(w) : x < w[j],
               NEW j \in 1..Len(a)
        PROVE  x < a[j]
    <3>1. CASE j = Len(w) + 1
      BY <1>4, <2>2, <2>4, <3>1
    <3>2. CASE j # Len(w) + 1
      BY <2>2, <2>4, <2>7, <3>2
    <3> QED BY <3>1, <3>2
  <2>8. w # <<>> => a # <<>> /\ a[1] = w[1]
    <3>1. ASSUME w # <<>> PROVE Len(w) >= 1
      BY <1>4, <3>1, EmptySeq, <2>2
    <3>2. w # <<>> => a[1] = w[1]
      BY <2>2, <2>4, <3>1
    <3>3. Len(a) # 0
      BY <2>2, <2>4
    <3> QED BY <3>2, <3>3, EmptySeq
  <2> QED BY <1>1, <1>4, <2>1, <2>3, <2>4, <2>5, <2>6, <2>7, <2>8 DEF n, w, s
<1> QED BY <1>1, <1>5, <1>6, FifoEdge

(* Without an overrun or a slow read an edge takes no word unseen.          *)
LEMMA EdgeLength ==
  ASSUME MTypes, IInv', Flow, Enough, Edge, ~overrun', ~slow'
  PROVE  /\ Len(Waiting) \in Nat /\ Len(Contents') = Len(Waiting) + wr_en
         /\ ~overrun /\ ~slow
<1>1. ~overrun /\ ~slow
  <2>1. /\ overrun' = (overrun \/ (wr_en = 1 /\ rd_en = 0 /\ fullxB = 1))
        /\ slow' = (slow \/ (master = "user" /\ pc = "data" /\ beats >= 1))
    BY DEF Edge
  <2> QED BY <2>1, Zenon
<1>2. ~(rd_en = 1 /\ emptyxB = 1)
  BY <1>1 DEF Enough
<1>3. \/ wr_en = 0 /\ Contents' = Waiting
      \/ wr_en = 1 /\ Contents' = Append(Waiting, din)
  BY <1>2, FifoEdge DEF MTypes, Bus, Bit
<1>4. Waiting \in Seq(1..Sent)
  BY EdgeContents
<1>5. Len(Waiting) \in Nat
  BY <1>4, LenProperties
<1>6. Len(Append(Waiting, din)) = Len(Waiting) + 1
  BY <1>4
<1> QED BY <1>1, <1>3, <1>5, <1>6

LEMMA FlowEdge ==
  ASSUME MTypes, IInv', Bus', Flow, Enough, Edge
  PROVE  Flow'
<1>0. IInv /\ Bus
  BY DEF MTypes
<1>1. /\ Sent \in Nat /\ Sent' \in Nat /\ Sent' = Sent + wr_en
      /\ Sent <= Sent' /\ wr_en \in {0, 1}
      /\ Waiting \in Seq(1..Sent) /\ Contents' \in Seq(1..Sent')
      /\ Ascending(Contents') /\ Below(Seen, Contents')
  BY <1>0, EdgeContents, SentStep DEF Bus, Bit
<1>2. /\ UNCHANGED <<buf, pc, master>> /\ (master # "none" => beats' = beats + 1)
      /\ beats \in Nat
  BY <1>0 DEF Edge, Bus
<1>3. slow' = (slow \/ (master = "user" /\ pc = "data" /\ beats >= 1))
  BY DEF Edge
<1>4. /\ rd_en' = IF DataAccess THEN 1 ELSE 0
      /\ DataAccess => readdata' = dout
  BY EdgeReads
<1>5. Answered' <=> DataAccess
  BY <1>2 DEF Answered, DataAccess
<1>6. /\ buf \in Seq(0..Sent) /\ (Answered => readdata \in 0..Sent)
      /\ buf' \in Seq(0..Sent') /\ Len(buf) \in Nat /\ \A i \in 1..Len(buf) : buf[i] \in 0..Sent
  BY <1>1, <1>2, SeqGrows DEF Flow
<1>7. Seen = IF Answered THEN Append(buf, readdata) ELSE buf
  BY <1>6, SeenIs
<1>8. Waiting' = IF DataAccess THEN Rest(Contents') ELSE Contents'
  <2>1. Waiting' = IF rd_en' = 1 THEN Rest(Contents') ELSE Contents'
    BY DEF Waiting, Rest
  <2> QED BY <1>4, <2>1
<1>9. ~slow' => \A i \in 1..Len(buf') : buf'[i] # 0
  BY <1>2, <1>3 DEF Flow
<1>10. CASE ~DataAccess
  <2>1. Seen' = Seen /\ Seen = buf
    BY <1>2, <1>5, <1>6, <1>7, <1>10, SeenNext DEF Answered
  <2>2. ~overrun' /\ ~slow' => Len(Seen') + Len(Waiting') = Sent'
    <3> SUFFICES ASSUME ~overrun', ~slow' PROVE Len(Seen') + Len(Waiting') = Sent'
      OBVIOUS
    <3>1. /\ Len(Waiting) \in Nat /\ Len(Contents') = Len(Waiting) + wr_en
          /\ Len(Seen) + Len(Waiting) = Sent
      BY EdgeLength DEF Flow
    <3>2. Len(Waiting') = Len(Waiting) + wr_en
      BY <1>8, <1>10, <3>1
    <3>3. Len(Seen') = Len(Seen) /\ Len(Seen) \in Nat
      BY <1>6, <2>1
    <3>4. Sent' = Sent + wr_en /\ wr_en \in {0, 1}
      BY <1>1
    <3> QED BY <3>1, <3>2, <3>3, <3>4
  <2>3. Ascending(Seen') /\ Below(Seen', Waiting')
    BY <1>1, <1>8, <1>10, <2>1 DEF Flow
  <2> QED BY <1>1, <1>5, <1>6, <1>9, <1>10, <2>2, <2>3 DEF Flow
<1>11. CASE DataAccess
  <2> DEFINE x == dout
  <2>0. PICK y : y = x
    OBVIOUS
  <2>1. Contents \in Seq(1..Sent) /\ Len(Contents) \in Nat /\ \A i \in 1..Len(Contents) : Contents[i] \in 1..Sent
    BY <1>1, SeqGrows DEF Flow
  <2>2. y = IF Contents = <<>> THEN 0 ELSE Contents[1]
    <3>1. dout = IF Contents = <<>> THEN Zero ELSE Head(Contents)
      BY <1>0, DoutIsFront DEF Queue!Front
    <3>2. Contents # <<>> => Head(Contents) = Contents[1]
      BY <2>1, RestProperties
    <3> QED BY <2>0, <3>1, <3>2, MmioAssumption
  <2>3. y \in 0..Sent /\ (Contents # <<>> => y \in 1..Sent)
    <3>1. Contents # <<>> => 1 \in 1..Len(Contents)
      BY <2>1, RestProperties
    <3> QED BY <1>1, <2>1, <2>2, <3>1
  <2>4. readdata' = y /\ y \in 0..Sent'
    BY <1>1, <1>4, <1>11, <2>0, <2>3
  <2>5. y = 0 => slow'
    <3>1. y = 0 => emptyxB = 1
      BY <1>0, <2>2, <2>3, ContentsIs DEF Stored
    <3>2. ~slow /\ pc = "data" => emptyxB = 0
      BY DEF Enough
    <3>3. y = 0 => slow
      BY <1>11, <3>1, <3>2 DEF DataAccess
    <3> QED BY <1>3, <3>3, Zenon
  <2>6. Seen' = Append(buf, y)
    BY <1>2, <1>5, <1>6, <1>11, <2>4, SeenNext
  <2>7. Below(buf, Contents)
    <3>1. CASE beats >= 1
      BY <1>11, <3>1 DEF Flow, Answered
    <3>2. CASE ~(beats >= 1)
      <4>1. rd_en = 0
        BY <1>0, <1>11, <3>2 DEF Bus, Bit, DataAccess
      <4>2. Waiting = Contents
        BY <4>1, WaitingIs
      <4> QED BY <1>7, <3>2, <4>2 DEF Flow, Answered
    <3> QED BY <3>1, <3>2
  <2>8. Below(buf, Contents')
    <3>1. CASE Answered
      <4>1. Len(Append(buf, readdata)) = Len(buf) + 1
            /\ \A i \in 1..Len(buf) : Append(buf, readdata)[i] = buf[i]
        BY <1>6
      <4>2. Below(Append(buf, readdata), Contents')
        BY <1>1, <1>7, <3>1
      <4>3. \A i \in 1..Len(buf) : i \in 1..(Len(buf) + 1)
        BY <1>6
      <4> QED BY <4>1, <4>2, <4>3 DEF Below
    <3>2. CASE ~Answered
      BY <1>1, <1>7, <3>2
    <3> QED BY <3>1, <3>2
  <2>9. Ascending(Append(buf, y))
    <3>1. Ascending(buf)
      <4>1. CASE Answered
        <5>1. Len(Append(buf, readdata)) = Len(buf) + 1
              /\ \A i \in 1..Len(buf) : Append(buf, readdata)[i] = buf[i]
          BY <1>6
        <5>2. Ascending(Append(buf, readdata))
          BY <1>7, <4>1 DEF Flow
        <5>3. \A i \in 1..Len(buf) : i \in 1..(Len(buf) + 1)
          BY <1>6
        <5> QED BY <5>1, <5>2, <5>3 DEF Ascending
      <4>2. CASE ~Answered
        BY <1>7, <4>2 DEF Flow
      <4> QED BY <4>1, <4>2
    <3>2. \A i \in 1..Len(buf) : buf[i] # 0 /\ y # 0 => buf[i] < y
      <4>1. y # 0 => y = Contents[1] /\ 1 \in 1..Len(Contents)
        BY <2>1, <2>2, RestProperties
      <4> QED BY <2>7, <4>1 DEF Below
    <3> QED BY <1>1, <1>6, <2>3, <3>1, <3>2, AscendingAppend
  <2>10. y # 0 => \A j \in 1..Len(Rest(Contents')) : y < Rest(Contents')[j]
    <3> SUFFICES ASSUME y # 0 PROVE \A j \in 1..Len(Rest(Contents')) : y < Rest(Contents')[j]
      OBVIOUS
    <3>1. Contents # <<>> /\ y = Contents[1]
      BY <2>2
    <3>2. CASE rd_en = 0
      <4>1. Waiting = Contents
        BY <3>2, WaitingIs
      <4>2. Contents' # <<>> /\ Contents'[1] = y
        BY <3>1, <4>1, EdgeContents
      <4> QED BY <1>1, <1>6, <4>2, RestOrder
    <3>3. CASE rd_en = 1
      <4>1. \A j \in 1..Len(Rest(Contents)) : y < Rest(Contents)[j]
        BY <1>1, <1>6, <2>1, <3>1, RestOrder DEF Flow
      <4>2. \A j \in 1..Len(Contents') : y < Contents'[j]
        BY <2>3, <3>3, <4>1, WaitingIs, EdgeContents
      <4> QED BY <1>1, <4>2, RestProperties
    <3> QED BY <1>0, <3>2, <3>3 DEF Bus, Bit
  <2>11. Below(Append(buf, y), Rest(Contents'))
    <3>1. Below(buf, Rest(Contents'))
      BY <1>1, <1>2, <1>6, <2>8, RestOrder
    <3>2. Rest(Contents') \in Seq(0..Sent')
      <4>1. Rest(Contents') \in Seq(1..Sent') /\ 1..Sent' \subseteq 0..Sent'
        BY <1>1, RestProperties
      <4> QED BY <4>1, SeqMonotonic
    <3>3. buf \in Seq(0..Sent')
      BY <1>2, <1>6
    <3> QED BY <1>1, <2>4, <2>10, <3>1, <3>2, <3>3, AppendBelow
  <2>12. ~overrun' /\ ~slow' => Len(Seen') + Len(Waiting') = Sent'
    <3> SUFFICES ASSUME ~overrun', ~slow' PROVE Len(Seen') + Len(Waiting') = Sent'
      OBVIOUS
    <3>1. /\ Len(Waiting) \in Nat /\ Len(Contents') = Len(Waiting) + wr_en
          /\ Len(Seen) + Len(Waiting) = Sent
      BY EdgeLength DEF Flow
    <3>2. ~(beats >= 1)
      BY <1>3, <1>11, Zenon DEF DataAccess
    <3>3. rd_en = 0 /\ ~Answered
      BY <1>0, <1>11, <3>2 DEF Bus, Bit, DataAccess, Answered
    <3>4. Waiting = Contents /\ Contents # <<>>
      BY <2>2, <2>5, <3>3, WaitingIs
    <3>5. Contents' # <<>>
      BY <3>4, EdgeContents
    <3>6. Len(Waiting') = Len(Contents') - 1
      BY <1>1, <1>8, <1>11, <3>5, RestProperties
    <3>7. Len(Seen') = Len(buf) + 1 /\ Seen = buf
      BY <1>6, <1>7, <2>6, <3>3
    <3>8. Sent' = Sent + wr_en /\ wr_en \in {0, 1} /\ Len(buf) \in Nat
      BY <1>1, <1>6
    <3>9. Len(Seen) = Len(buf)
      BY <3>7
    <3> QED BY <3>1, <3>6, <3>7, <3>8, <3>9
  <2>13. Ascending(Seen') /\ Below(Seen', Waiting')
    BY <1>8, <1>11, <2>6, <2>9, <2>11
  <2>14. Answered' => /\ readdata' \in 0..Sent' /\ (readdata' = 0 => slow')
                      /\ Below(buf', Contents')
    BY <1>2, <2>4, <2>5, <2>8
  <2> QED BY <1>1, <1>6, <1>9, <2>12, <2>13, <2>14 DEF Flow
<1> QED BY <1>10, <1>11

LEMMA FlowStep ==
  ASSUME MTypes, IInv', Bus', Enough, Flow, [MmioNext]_allvars
  PROVE  Flow'
<1> USE DEF busvars, wbvars
<1>0. Bus /\ IInv
  BY DEF MTypes
<1>1. CASE Edge
  BY <1>1, FlowEdge
<1>2. CASE BeginUser \/ \E offset \in OtherOffset : Begin("kernel", offset)
  <2>1. /\ UNCHANGED <<vars, rd_en, readdata, wr_en, din, buf, overrun, slow>>
        /\ master = "none" /\ beats' = 0
    BY <1>2 DEF BeginUser, Begin
  <2>2. Answered' = FALSE /\ Answered = FALSE
    BY <2>1 DEF Answered, DataAccess
  <2> QED BY <2>1, <2>2, FlowQuiet
<1>3. CASE CheckID \/ SeeCount \/ (Release("kernel") /\ UNCHANGED <<pc, buf>>)
  <2>1. /\ UNCHANGED <<vars, rd_en, readdata, wr_en, din, buf, overrun, slow>>
        /\ ~DataAccess /\ master' = "none"
    BY <1>3 DEF CheckID, SeeCount, Release, DataAccess
  <2>2. Answered' = FALSE /\ Answered = FALSE
    BY <2>1 DEF Answered, DataAccess
  <2> QED BY <2>1, <2>2, FlowQuiet
<1>4. CASE TakeData
  <2>1. /\ UNCHANGED <<vars, rd_en, readdata, wr_en, din, overrun, slow>>
        /\ DataAccess /\ Answered /\ master' = "none" /\ buf' = Append(buf, Mux)
    BY <1>4 DEF TakeData, Release, DataAccess, Answered
  <2>2. Mux = readdata
    BY <1>0, <2>1, Addresses DEF Bus, Wanted, Mux, DataAccess
  <2>3. ~Answered'
    BY <2>1 DEF Answered, DataAccess
  <2>4. UNCHANGED <<Contents, Waiting, Sent>>
    BY <2>1 DEF vars, Contents, Waiting, Sent, Occupancy, SlotAt
  <2>5. buf \in Seq(0..Sent) /\ readdata \in 0..Sent /\ (readdata = 0 => slow)
    BY <2>1 DEF Flow
  <2>6. /\ buf' \in Seq(0..Sent) /\ Len(buf') = Len(buf) + 1 /\ Len(buf) \in Nat
        /\ \A i \in 1..(Len(buf) + 1) : buf'[i] = IF i = Len(buf) + 1 THEN readdata ELSE buf[i]
    BY <2>1, <2>2, <2>5, OneMore
  <2>7. Seen = buf'
    BY <2>1, <2>2, <2>5, SeenIs
  <2>8. Seen' = buf'
    BY <2>3, <2>4, <2>6, SeenNext
  <2>9. ~slow => \A i \in 1..Len(buf') : buf'[i] # 0
    <3> SUFFICES ASSUME ~slow, NEW i \in 1..Len(buf') PROVE buf'[i] # 0
      OBVIOUS
    <3>1. CASE i = Len(buf) + 1
      BY <2>5, <2>6, <3>1
    <3>2. CASE i # Len(buf) + 1
      <4>1. i \in 1..Len(buf) /\ buf'[i] = buf[i]
        BY <2>6, <3>2
      <4> QED BY <4>1 DEF Flow
    <3> QED BY <3>1, <3>2
  <2>10. Seen' = Seen /\ slow' = slow /\ overrun' = overrun
    BY <2>1, <2>7, <2>8
  <2> QED BY <2>3, <2>4, <2>6, <2>9, <2>10 DEF Flow
<1>5. CASE UNCHANGED allvars
  <2>1. UNCHANGED <<vars, rd_en, readdata, wr_en, din, buf, overrun, slow>> /\ Answered' = Answered
    BY <1>5 DEF allvars, Answered, DataAccess
  <2> QED BY <2>1, FlowQuiet
<1> QED BY <1>1, <1>2, <1>3, <1>4, <1>5 DEF MmioNext, User, Kernel

LEMMA InitFlow == MmioInit => Enough /\ Flow
<1> SUFFICES ASSUME MmioInit PROVE Enough /\ Flow
  OBVIOUS
<1>1. /\ rd_en = 0 /\ wr_en = 0 /\ din = 0 /\ beats = 0 /\ master = "none"
      /\ pc \in {"checkID", "count"} /\ buf = <<>>
  BY MmioAssumption DEF MmioInit, WbInit
<1>2. IInv /\ Init
  <2>1. Init
    BY FifoAssumption DEF MmioInit, WbInit, Init
  <2> QED BY <2>1, InitIInv
<1>3. Contents = <<>>
  BY <1>2, ContentsIs, Pointers DEF Init, Stored
<1>4. Sent = 0 /\ ~Answered /\ Waiting = <<>>
  BY <1>1, <1>3 DEF Sent, Answered, DataAccess, Waiting
<1>5. <<>> \in Seq(0..0) /\ <<>> \in Seq(1..0) /\ Len(<<>>) = 0
  BY EmptySeq
<1>6. Seen = <<>>
  BY <1>1, <1>4, <1>5, SeenIs
<1>7. Flow
  BY <1>1, <1>3, <1>4, <1>5, <1>6 DEF Flow, Ascending, Below
<1> QED BY <1>1, <1>7 DEF Enough

(***************************************************************************)
(* The invariant holds if at least one clock lies between two accesses, so *)
(* that the slave lowers the read enable before the next one begins        *)
(* (wb_fifo.vhdl:80-99).                                                   *)
(***************************************************************************)
THEOREM MmioInvariant == ASSUME MinGap >= 1 PROVE MmioSpec => []MInv
<1>1. MmioInit => MInv
  BY InitMTypes, InitFlow DEF MInv
<1>2. MInv /\ [MmioNext]_allvars => MInv'
  <2> SUFFICES ASSUME MInv, [MmioNext]_allvars PROVE MInv'
    OBVIOUS
  <2>1. MTypes /\ Enough /\ Flow
    BY DEF MInv
  <2>2. IInv' /\ Bus'
    BY <2>1, FifoStep, BusStep
  <2>3. Enough' /\ Flow'
    BY <2>1, <2>2, EnoughStep, FlowStep
  <2> QED BY <2>2, <2>3 DEF MInv, MTypes
<1> QED BY <1>1, <1>2, PTL DEF MmioSpec
-----------------------------------------------------------------------------
(* Stream is the words taken followed by those still to be taken.           *)
LEMMA StreamIs ==
  MInv => /\ Seen \in Seq(0..Sent) /\ Waiting \in Seq(1..Sent) /\ Sent \in Nat /\ Sent <= din
          /\ Len(Seen) \in Nat /\ Len(Waiting) \in Nat /\ Len(Stream) = Len(Seen) + Len(Waiting)
          /\ \A i \in 1..Len(Stream) :
               Stream[i] = IF i <= Len(Seen) THEN Seen[i] ELSE Waiting[i - Len(Seen)]
          /\ \A i \in 1..Len(Seen) : Seen[i] \in 0..Sent /\ (Seen[i] = 0 => slow)
          /\ \A i \in 1..Len(Waiting) : Waiting[i] \in 1..Sent
<1> SUFFICES ASSUME MInv
             PROVE  /\ Seen \in Seq(0..Sent) /\ Waiting \in Seq(1..Sent) /\ Sent \in Nat /\ Sent <= din
                    /\ Len(Seen) \in Nat /\ Len(Waiting) \in Nat
                    /\ Len(Stream) = Len(Seen) + Len(Waiting)
                    /\ \A i \in 1..Len(Stream) :
                         Stream[i] = IF i <= Len(Seen) THEN Seen[i] ELSE Waiting[i - Len(Seen)]
                    /\ \A i \in 1..Len(Seen) : Seen[i] \in 0..Sent /\ (Seen[i] = 0 => slow)
                    /\ \A i \in 1..Len(Waiting) : Waiting[i] \in 1..Sent
  OBVIOUS
<1>1. Sent \in Nat /\ Sent <= din
  BY MmioAssumption DEF MInv, MTypes, Bus, Bit, Sent
<1>2. /\ buf \in Seq(0..Sent) /\ Contents \in Seq(1..Sent)
      /\ Answered => readdata \in 0..Sent /\ (readdata = 0 => slow)
      /\ ~slow => \A i \in 1..Len(buf) : buf[i] # 0
  BY DEF MInv, Flow
<1>3. Waiting \in Seq(1..Sent)
  BY <1>2, WaitingIs, RestProperties
<1>4. Seen = IF Answered THEN Append(buf, readdata) ELSE buf
  BY <1>2, SeenIs
<1>5. Seen \in Seq(0..Sent) /\ \A i \in 1..Len(Seen) : Seen[i] = 0 => slow
  <2>1. CASE Answered
    <3>1. /\ Seen \in Seq(0..Sent) /\ Len(Seen) = Len(buf) + 1 /\ Len(buf) \in Nat
          /\ \A i \in 1..(Len(buf) + 1) : Seen[i] = IF i = Len(buf) + 1 THEN readdata ELSE buf[i]
      BY <1>2, <1>4, <2>1, OneMore
    <3>2. ASSUME NEW i \in 1..Len(Seen), Seen[i] = 0 PROVE slow
      <4>1. CASE i = Len(buf) + 1
        BY <1>2, <2>1, <3>1, <3>2, <4>1
      <4>2. CASE i # Len(buf) + 1
        <5>1. i \in 1..Len(buf) /\ buf[i] = 0
          BY <3>1, <3>2, <4>2
        <5> QED BY <1>2, <5>1
      <4> QED BY <4>1, <4>2
    <3> QED BY <3>1, <3>2
  <2>2. CASE ~Answered
    BY <1>2, <1>4, <2>2
  <2> QED BY <2>1, <2>2
<1>6. /\ Len(Seen) \in Nat /\ \A i \in 1..Len(Seen) : Seen[i] \in 0..Sent
      /\ Len(Waiting) \in Nat /\ \A i \in 1..Len(Waiting) : Waiting[i] \in 1..Sent
  BY <1>3, <1>5, LenProperties, ElementOfSeq
<1>7. Waiting \in Seq(0..Sent)
  <2>1. 1..Sent \subseteq 0..Sent
    OBVIOUS
  <2> QED BY <1>3, <2>1, SeqMonotonic
<1>8. Stream = Seen \o Waiting
  BY DEF Stream, Seen
<1>9. /\ Len(Stream) = Len(Seen) + Len(Waiting)
      /\ \A i \in 1..(Len(Seen) + Len(Waiting)) :
           Stream[i] = IF i <= Len(Seen) THEN Seen[i] ELSE Waiting[i - Len(Seen)]
  BY <1>5, <1>7, <1>8, ConcatProperties
<1> QED BY <1>1, <1>3, <1>5, <1>6, <1>9

(***************************************************************************)
(* Whatever the length of the accesses, what getem has stored, the word on *)
(* its way and the words in the FIFO are in the order they were sent       *)
(* (sxi_clocks_mmio.c:103-109, wb_fifo.vhdl:80-99, fifo.vhdl:60-94).       *)
(***************************************************************************)
THEOREM MmioInOrder == ASSUME MinGap >= 1 PROVE MmioSpec => []InOrder
<1>1. MInv => InOrder
  <2> SUFFICES ASSUME MInv PROVE InOrder
    OBVIOUS
  <2> DEFINE a == Len(Seen)
             b == Len(Waiting)
  <2>1. /\ a \in Nat /\ b \in Nat /\ Len(Stream) = a + b /\ Sent \in Nat /\ Sent <= din
        /\ din \in Nat
        /\ \A i \in 1..Len(Stream) : Stream[i] = IF i <= a THEN Seen[i] ELSE Waiting[i - a]
        /\ \A i \in 1..a : Seen[i] \in 0..Sent /\ (Seen[i] = 0 => slow)
        /\ \A i \in 1..b : Waiting[i] \in 1..Sent
    BY StreamIs, MmioAssumption DEF MInv, MTypes, Bus
  <2>2. /\ \A i, j \in 1..a : i < j /\ Seen[i] # 0 /\ Seen[j] # 0 => Seen[i] < Seen[j]
        /\ \A i \in 1..a, j \in 1..b : Seen[i] # 0 /\ Waiting[j] # 0 => Seen[i] < Waiting[j]
    BY DEF MInv, Flow, Ascending, Below
  <2>3. \A i, j \in 1..b : i < j => Waiting[i] < Waiting[j]
    <3>1. Ascending(Waiting)
      <4>1. Contents \in Seq(1..Sent) /\ Ascending(Contents) /\ <<>> \in Seq(0..Sent)
        BY EmptySeq DEF MInv, Flow
      <4> QED BY <2>1, <4>1, WaitingIs, RestOrder
    <3> QED BY <2>1, <3>1 DEF Ascending
  <2> HIDE DEF a, b
  <2>4. \A i \in 1..Len(Stream) :
          \/ i \in 1..a /\ Stream[i] = Seen[i]
          \/ i - a \in 1..b /\ i > a /\ Stream[i] = Waiting[i - a]
    BY <2>1
  <2>5. ASSUME NEW i \in 1..Len(Stream)
        PROVE  Stream[i] \in 1..din \/ (slow /\ Stream[i] = Zero)
    <3>1. CASE i \in 1..a /\ Stream[i] = Seen[i]
      BY <2>1, <3>1, MmioAssumption
    <3>2. CASE i - a \in 1..b /\ Stream[i] = Waiting[i - a]
      BY <2>1, <3>2
    <3> QED BY <2>4, <3>1, <3>2
  <2>6. ASSUME NEW i \in 1..Len(Stream), NEW j \in 1..Len(Stream), i < j,
               Stream[i] # Zero, Stream[j] # Zero
        PROVE  Stream[i] < Stream[j]
    <3>0. Zero = 0
      BY MmioAssumption
    <3>1. CASE j \in 1..a /\ Stream[j] = Seen[j]
      <4>1. i \in 1..a /\ Stream[i] = Seen[i]
        BY <2>1, <2>4, <2>6, <3>1
      <4> QED BY <2>2, <2>6, <3>0, <3>1, <4>1
    <3>2. CASE j - a \in 1..b /\ Stream[j] = Waiting[j - a]
      <4>1. CASE i \in 1..a /\ Stream[i] = Seen[i]
        BY <2>2, <2>6, <3>0, <3>2, <4>1
      <4>2. CASE i - a \in 1..b /\ Stream[i] = Waiting[i - a]
        <5>1. i - a < j - a
          BY <2>1, <2>6
        <5> QED BY <2>3, <3>2, <4>2, <5>1
      <4> QED BY <2>4, <4>1, <4>2
    <3> QED BY <2>4, <3>1, <3>2
  <2> QED BY <2>5, <2>6 DEF InOrder
<1> QED BY <1>1, MmioInvariant, PTL

(***************************************************************************)
(* Only an overrun or a read of more than one edge loses a word            *)
(* (wb_fifo.vhdl:90-91, fifo.vhdl:60-94).                                  *)
(***************************************************************************)
THEOREM MmioNothingLost == ASSUME MinGap >= 1 PROVE MmioSpec => []NothingLost
<1>1. MInv => NothingLost
  BY StreamIs DEF MInv, Flow, NothingLost
<1> QED BY <1>1, MmioInvariant, PTL

(***************************************************************************)
(* getem polls the count before each word, so no read of one edge meets an *)
(* empty FIFO (sxi_clocks_mmio.c:103-109, fifo.vhdl:61-65).                *)
(***************************************************************************)
THEOREM MmioNoReadOfEmpty == ASSUME MinGap >= 1 PROVE MmioSpec => []NoReadOfEmpty
<1>1. MInv => NoReadOfEmpty
  BY DEF MInv, Enough, NoReadOfEmpty
<1> QED BY <1>1, MmioInvariant, PTL

(***************************************************************************)
(* The interrupt of wb_fifo is raised with half of the FIFO waiting, less  *)
(* the word that leaves at the same edge (wb_fifo.vhdl:60-78).             *)
(***************************************************************************)
THEOREM MmioPulseMeansHalfFull ==
  ASSUME MinGap >= 1 PROVE MmioSpec => []PulseMeansHalfFull
<1>1. MmioInit => PulseMeansHalfFull
  BY DEF MmioInit, WbInit, PulseMeansHalfFull
<1>2. MInv /\ MInv' /\ PulseMeansHalfFull /\ [MmioNext]_allvars => PulseMeansHalfFull'
  <2> SUFFICES ASSUME MInv, MInv', PulseMeansHalfFull, [MmioNext]_allvars
               PROVE  PulseMeansHalfFull'
    OBVIOUS
  <2>1. CASE Edge
    <3> SUFFICES ASSUME irqport' = 1 PROVE Occupancy' >= Size \div 2 - 1
      BY DEF PulseMeansHalfFull
    <3>1. half = 1
      BY <2>1 DEF Edge, WbEdge
    <3>2. PICK h : h = Size \div 2
      OBVIOUS
    <3>3. DCntr >= h /\ h \in Nat /\ (Size >= 2 => h >= 1) /\ (Size < 2 => h = 0)
      BY <3>1, <3>2, FifoAssumption DEF half
    <3>4. /\ Stored /\ Stored' /\ Len(Contents) \in Nat
          /\ Occupancy \in Nat /\ Occupancy' \in Nat
      BY ContentsIs, ContentsThen, FifoAssumption DEF MInv, MTypes, Stored
    <3>5. Occupancy >= h
      BY <3>3, <3>4, FifoAssumption DEF MInv, MTypes, IInv, CountFollowsOccupancy
    <3>6. /\ Waiting \in Seq(1..Sent) /\ Len(Waiting) \in Nat
          /\ Len(Waiting) >= Len(Contents) - 1
      <4>1. Contents \in Seq(1..Sent)
        BY DEF MInv, Flow
      <4>2. /\ Rest(Contents) \in Seq(1..Sent)
            /\ Len(Rest(Contents)) = IF Contents = <<>> THEN 0 ELSE Len(Contents) - 1
        BY <4>1, RestProperties
      <4>3. Len(Contents) \in Nat /\ (Contents = <<>> => Len(Contents) = 0)
        BY <4>1, EmptySeq
      <4> QED BY <4>1, <4>2, <4>3, WaitingIs
    <3>7. Len(Contents') >= Len(Waiting)
      <4>1. Contents' = Waiting \/ Contents' = Append(Waiting, din)
        BY <2>1, FifoEdge DEF MInv, MTypes, Bus, Bit
      <4>2. Len(Append(Waiting, din)) = Len(Waiting) + 1
        BY <3>6
      <4> QED BY <3>6, <4>1, <4>2
    <3>8. Len(Contents') = Occupancy' /\ Len(Contents) = Occupancy
      BY <3>4 DEF Stored
    <3>9. Occupancy' >= h - 1
      BY <3>3, <3>4, <3>5, <3>6, <3>7, <3>8
    <3> QED BY <3>2, <3>9
  <2>2. CASE ~Edge
    <3>1. UNCHANGED <<vars, wbvars>>
      BY <2>2 DEF MmioNext, User, Kernel, BeginUser, Begin, CheckID, SeeCount, TakeData,
         Release, allvars
    <3>2. UNCHANGED <<irqport, Occupancy>>
      BY <3>1 DEF vars, wbvars, Occupancy
    <3> QED BY <3>2 DEF PulseMeansHalfFull
  <2> QED BY <2>1, <2>2
<1> QED BY <1>1, <1>2, MmioInvariant, PTL DEF MmioSpec
-----------------------------------------------------------------------------
(* A clock edge of the system is one of the FIFO, with a word to write.     *)
LEMMA EdgeIsFifos == MTypes /\ [MmioNext]_allvars => [Next]_vars
<1> SUFFICES ASSUME MTypes, [MmioNext]_allvars PROVE [Next]_vars
  OBVIOUS
<1>1. CASE Edge
  <2>1. din \in Word /\ rd_en \in Bit /\ wr_en \in Bit
    BY MmioAssumption, FifoAssumption DEF MTypes, Bus
  <2> QED BY <1>1, <2>1 DEF Edge, Next
<1>2. CASE ~Edge
  BY <1>2 DEF MmioNext, User, Kernel, BeginUser, Begin, CheckID, SeeCount, TakeData, Release,
     allvars
<1> QED BY <1>1, <1>2

(***************************************************************************)
(* The FIFO between slave and bridge is the FIFO specified on its own:     *)
(* every step of SxiMmio is a clock edge of fifo.vhdl or leaves it alone   *)
(* (wb_fifo.vhdl:50-68 connects the two).                                  *)
(***************************************************************************)
THEOREM MmioImplementsFifo == ASSUME MinGap >= 1 PROVE MmioSpec => Spec
<1>1. MmioInit => Init
  BY FifoAssumption DEF MmioInit, WbInit, Init
<1>2. MInv => MTypes
  BY DEF MInv
<1> QED BY <1>1, <1>2, EdgeIsFifos, MmioInvariant, PTL DEF MmioSpec, Spec

(***************************************************************************)
(* So it is a bounded queue there too, with any program that polls and any *)
(* kernel on the bus (fifo.vhdl:50-96, wb_fifo.vhdl:80-99).                *)
(***************************************************************************)
THEOREM MmioImplementsQueue == ASSUME MinGap >= 1 PROVE MmioSpec => ImplementsQueue
BY MmioImplementsFifo, FifoImplementsQueue

(***************************************************************************)
(* getem never leaves its loop over a full FIFO (sxi_clocks_mmio.c:106):   *)
(* the finding of the run mmio_full for every size.                        *)
(***************************************************************************)
THEOREM MmioFullForEver == ASSUME MinGap >= 1 PROVE MmioSpec => FullForEver
<1>1. MTypes /\ [MmioNext]_allvars => (PollsFull => PollsFull')
  <2> SUFFICES ASSUME MTypes, [MmioNext]_allvars, PollsFull PROVE PollsFull'
    OBVIOUS
  <2>1. pc = "count" /\ fullxB = 1 /\ rd_en = 0 /\ DCntr = 0 /\ emptyxB = 0
    BY FifoAssumption DEF PollsFull, MTypes, IInv, CountFollowsOccupancy, Occupancy,
       FlagsTellEqualPointers, TypeOK, Bit
  <2>2. CASE Edge
    <3>1. rd_en' = 0 /\ (master = "user" => readdata' = 0)
      BY <2>1, <2>2, EdgeReads DEF DataAccess
    <3>2. fullxB' = 1
      BY <2>1, <2>2 DEF Edge, Clk, WriteOnly, Hold
    <3>3. pc' = "count" /\ master' = master
      BY <2>1, <2>2 DEF Edge
    <3> QED BY <3>1, <3>2, <3>3 DEF PollsFull
  <2>3. CASE BeginUser
    BY <2>1, <2>3 DEF BeginUser, Begin, PollsFull, vars, wbvars
  <2>4. CASE CheckID \/ TakeData
    BY <2>1, <2>4 DEF CheckID, TakeData
  <2>5. CASE SeeCount
    <3>1. Mux = 0
      BY <2>1, <2>5, Addresses DEF SeeCount, Release, Mux, PollsFull, MTypes, Bus, Wanted
    <3> QED BY <2>1, <2>5, <3>1 DEF SeeCount, Release, PollsFull, vars, wbvars
  <2>6. CASE Kernel
    BY <2>1, <2>6 DEF Kernel, Begin, Release, PollsFull, vars, wbvars
  <2>7. CASE UNCHANGED allvars
    BY <2>1, <2>7 DEF allvars, busvars, PollsFull, vars, wbvars
  <2> QED BY <2>2, <2>3, <2>4, <2>5, <2>6, <2>7 DEF MmioNext, User
<1>2. MInv => MTypes
  BY DEF MInv
<1> QED BY <1>1, <1>2, MmioInvariant, PTL DEF MmioSpec, FullForEver
-----------------------------------------------------------------------------
\* The top bit of the counter as a condition on the words stored (FifoIrq's half).
LevelHalf == IF Len(Contents) \in (Size \div 2)..(Size - 1) THEN 1 ELSE 0

LEMMA HalfIsOfLevel == ASSUME IInv PROVE half = LevelHalf
<1>1. Len(Contents) = Occupancy /\ Occupancy \in 0..Size
  BY ContentsIs DEF Stored
<1>2. Size \div 2 \in Nat \ {0} /\ Size \in Nat
  BY FifoAssumption
<1>3. DCntr = IF Occupancy = Size THEN 0 ELSE Occupancy
  BY DEF IInv, CountFollowsOccupancy
<1> QED BY <1>1, <1>2, <1>3 DEF half, LevelHalf

\* What FifoIrq takes for granted of an edge of the slave.
PulseOnRise ==
  /\ previous_half' = LevelHalf
  /\ irqport' = IF LevelHalf = 1 /\ previous_half = 0 THEN 1 ELSE 0

\* The level seen at the edge before.
HalfBit == previous_half \in Bit

(***************************************************************************)
(* The interrupt is raised at exactly the edges at which the number of     *)
(* words stored has come to half the size, from below or, as a full FIFO   *)
(* counts 0, from above (wb_fifo.vhdl:71-78, fifo.vhdl:79-91).  FifoIrq    *)
(* takes its source 0 to be so; here it is that of the slave and the FIFO. *)
(***************************************************************************)
THEOREM MmioPulseOnRise ==
  ASSUME MinGap >= 1 PROVE MmioSpec => [][Edge => PulseOnRise]_allvars
<1>1. MmioInit => HalfBit
  BY DEF HalfBit, MmioInit, WbInit, Bit
<1>2. HalfBit /\ [MmioNext]_allvars => HalfBit'
  <2> SUFFICES ASSUME HalfBit, [MmioNext]_allvars PROVE HalfBit'
    OBVIOUS
  <2>1. CASE Edge
    BY <2>1 DEF HalfBit, Edge, WbEdge, half, Bit
  <2>2. CASE ~Edge
    BY <2>2 DEF HalfBit, MmioNext, User, Kernel, BeginUser, Begin, CheckID, SeeCount, TakeData,
       Release, allvars, wbvars
  <2> QED BY <2>1, <2>2
<1>3. MInv /\ HalfBit /\ [MmioNext]_allvars => [Edge => PulseOnRise]_allvars
  <2> SUFFICES ASSUME MInv, HalfBit, Edge PROVE PulseOnRise
    OBVIOUS
  <2>1. half = LevelHalf
    BY HalfIsOfLevel DEF MInv, MTypes
  <2> QED BY <2>1 DEF Edge, WbEdge, PulseOnRise, HalfBit, Bit
<1> QED BY <1>1, <1>2, <1>3, MmioInvariant, PTL DEF MmioSpec
=============================================================================
