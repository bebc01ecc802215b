------------------------------ MODULE AcqChain ------------------------------
(***************************************************************************)
(* The serial link into the FIFO: a sender with a clock of its own drives  *)
(* SCLK, STROBE and the data; sclk_data_acq.vhdl shifts a bit in when it   *)
(* sees SCLK rise, and data_bridge.vhdl writes the shift register to the   *)
(* FIFO when it sees STROBE rise.  Both look at the lines once per sysc.clk *)
(* and the lines are not of equal length: one may be seen a clock late.    *)
(* The sender is either the format of test/clocksim.c, which the test      *)
(* benches play, or the serializer of clocksim.vhdl.  Lines a and b behave *)
(* alike, so one stands for both; a bit is tagged <<word, position>>: eight *)
(* slots of the serial line.  In the format they are eight bits of one     *)
(* state; clocksim.vhdl changes state at every SCLK (state_proc), so there *)
(* each slot carries a bit of the state of its own moment.                 *)
(***************************************************************************)
EXTENDS Integers, Sequences

CONSTANTS
  Senders, \* of "format" (test/clocksim.c) and "clocksim" (clocksim.vhdl)
  NTags,   \* words are numbered modulo NTags
  Skew     \* a line can be seen one clock late

ASSUME AcqAssumption ==
  Senders \subseteq {"format", "clocksim"} /\ NTags \in Nat \ {0} /\ Skew \in BOOLEAN

VARIABLES
  sender,                           \* who drives the lines, once and for all
  SCLK, STROBE, word, bit, i,       \* the sender: lines and counters
  xSCLK, xSTROBE, fresh,            \* the lines as seen; the last change was seen
  previous_SCLK, a_val,             \* sclk_data_acq
  previous_STROBE, wr_en,           \* data_bridge
  given,                            \* history: the last word given to the FIFO, taken or not
  behind                            \* history: words sent whole and not yet given

txvars == <<sender, SCLK, STROBE, word, bit, i>>
pinvars == <<xSCLK, xSTROBE, fresh>>
rxvars == <<previous_SCLK, a_val, previous_STROBE, wr_en, given>>
vars == <<txvars, pinvars, rxvars, behind>>

NoBit == <<-1, 0>>
Width == 8

Whole(w) == [k \in 1..Width |-> <<w, Width - k>>]

\* The count of words not yet given stops here: one is already too late.
MaxBehind == 2

\* Both ends come out of reset.  The format starts with the line "0 0 0 0", which
\* the next may follow unseen; sclocker first counts div clocks with SCLK low, so
\* the receiver sees it low before it rises.
Init ==
  /\ sender \in Senders
  /\ SCLK = 0 /\ STROBE = IF sender = "format" THEN 0 ELSE 1
  /\ word = 0 /\ bit = 7 /\ i = 0
  /\ xSCLK = SCLK /\ xSTROBE = STROBE /\ fresh = (sender = "clocksim")
  /\ previous_SCLK = 1 /\ a_val = [k \in 1..Width |-> NoBit]
  /\ previous_STROBE = 1 /\ wr_en = 0
  /\ given = -1 /\ behind = 0
-----------------------------------------------------------------------------
(* The sender *)

NextBit == /\ bit' = IF bit = 0 THEN 7 ELSE bit - 1
           /\ word' = IF bit = 0 THEN (word + 1) % NTags ELSE word

\* step(): each bit is printed with SCLK low, then high; the strobe is low in
\* the high half of bit 0.  The first half of the first bit adds only the strobe.
FormatStep ==
  \/ SCLK = 0 /\ STROBE = 0 /\ STROBE' = 1 /\ UNCHANGED <<SCLK, word, bit, i>>
  \/ /\ SCLK = 0 /\ STROBE = 1
     /\ SCLK' = 1 /\ STROBE' = (IF bit = 0 THEN 0 ELSE 1)
     /\ UNCHANGED <<word, bit, i>>
  \/ SCLK = 1 /\ SCLK' = 0 /\ STROBE' = 1 /\ NextBit /\ UNCHANGED i

\* sclocker, strober and A_and_B of clocksim.vhdl: the strobe moves when SCLK
\* rises, the bit when it falls.
ClocksimStep ==
  \/ /\ SCLK = 0 /\ SCLK' = 1
     /\ IF i < 7 THEN i' = i + 1 /\ STROBE' = 1 ELSE i' = 0 /\ STROBE' = 0
     /\ UNCHANGED <<word, bit>>
  \/ SCLK = 1 /\ SCLK' = 0 /\ NextBit /\ UNCHANGED <<STROBE, i>>

\* A half period of SCLK is longer than a clock of the receiver and its skew.
Send ==
  /\ ~fresh
  /\ \/ sender = "format" /\ FormatStep
     \/ sender = "clocksim" /\ ClocksimStep
  /\ UNCHANGED sender
  /\ \/ xSCLK' = SCLK' /\ xSTROBE' = STROBE'
     \/ Skew /\ xSCLK' = SCLK' /\ UNCHANGED xSTROBE
     \/ Skew /\ xSTROBE' = STROBE' /\ UNCHANGED xSCLK
  /\ fresh' = TRUE
  /\ behind' = IF bit = 0 /\ bit' = 7 /\ behind < MaxBehind THEN behind + 1 ELSE behind
  /\ UNCHANGED rxvars
-----------------------------------------------------------------------------
(* The receiver *)

\* Mutant of Shift: bits are taken when SCLK falls.
Shift_falling ==
  /\ previous_SCLK' = xSCLK
  /\ a_val' = IF xSCLK # previous_SCLK /\ xSCLK = 0
              THEN Append(Tail(a_val), <<word, bit>>) ELSE a_val

Shift ==
  /\ previous_SCLK' = xSCLK
  /\ a_val' = IF xSCLK # previous_SCLK /\ xSCLK = 1
              THEN Append(Tail(a_val), <<word, bit>>) ELSE a_val

\* Mutant of Strobe: a strobe that rises while a bit is shifted in is missed.
Strobe_missesSome ==
  /\ previous_STROBE' = xSTROBE
  /\ wr_en' = IF xSTROBE # previous_STROBE /\ xSTROBE = 1
                /\ ~(xSCLK # previous_SCLK /\ xSCLK = 1) THEN 1 ELSE 0

Strobe ==
  /\ previous_STROBE' = xSTROBE
  /\ wr_en' = IF xSTROBE # previous_STROBE /\ xSTROBE = 1 THEN 1 ELSE 0

\* The write of the word that is due: the one behind the last one given.
GivesNext == wr_en = 1 /\ behind > 0 /\ a_val[1][1] = (given + 1) % NTags

\* One edge of sysc.clk: with wr_en up, the FIFO takes a_val as it is before it.
Clk ==
  /\ Shift
  /\ Strobe
  /\ given' = IF wr_en = 1 /\ a_val[1] # NoBit THEN a_val[1][1] ELSE given
  /\ behind' = IF GivesNext THEN behind - 1 ELSE behind
  /\ xSCLK' = SCLK /\ xSTROBE' = STROBE
  /\ fresh' = (xSCLK # SCLK \/ xSTROBE # STROBE)
  /\ UNCHANGED txvars

Next == Send \/ Clk

Spec == Init /\ [][Next]_vars /\ WF_vars(Send) /\ WF_vars(Clk)
-----------------------------------------------------------------------------
TypeOK ==
  /\ SCLK \in 0..1 /\ STROBE \in 0..1 /\ bit \in 0..7 /\ i \in 0..7
  /\ word \in 0..(NTags - 1) /\ given \in -1..(NTags - 1) /\ behind \in 0..MaxBehind
  /\ Len(a_val) = Width

(***************************************************************************)
(* From a sender of the format, what the FIFO is given is the eight bits   *)
(* of the word after the last one given, in order: none lost at a strobe,  *)
(* none given twice.  Before the first word the strobe may rise once with  *)
(* an empty shift register.                                                *)
(***************************************************************************)
WordsAligned ==
  sender = "format" /\ wr_en = 1 =>
    \/ a_val = Whole((given + 1) % NTags)
    \/ given = -1 /\ \A k \in 1..Width : a_val[k] = NoBit

(***************************************************************************)
(* No word is skipped, from either sender: once a word is sent whole, the  *)
(* FIFO is given it, a write of its own that begins with bits of the word  *)
(* behind the last one given.  The numbers of the words repeat, so they    *)
(* are counted: a single word without its write leaves the count up for    *)
(* ever.  Whether the FIFO has room for the word is its own business.      *)
(***************************************************************************)
EveryWordGiven == behind # 0 ~> behind = 0

(***************************************************************************)
(* test/clocksim.c:35 "if( bit == 0 ) strobe = 0;": the strobe is low in   *)
(* the second half of the last bit of a word, and the receiver takes words *)
(* by that.  The code disagrees: clocksim.vhdl holds it low half a period  *)
(* longer, and what the receiver takes straddles two words.                *)
(***************************************************************************)
SerializerKeepsFormat ==
  sender = "clocksim" /\ wr_en = 1 => a_val = Whole((given + 1) % NTags)
=============================================================================
