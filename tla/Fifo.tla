-------------------------------- MODULE Fifo --------------------------------
(***************************************************************************)
(* fifo_syn (wishbone_CCD_simulator/vhdl/fifo.vhdl): a synchronous FIFO on *)
(* a block of 2**addrdepth words, with two pointers, a counter of the same *)
(* width as the pointers, and registered empty, full and wr_ack flags.     *)
(* A std_logic is 0 or 1.  One step is one rising edge of clk, with the    *)
(* values of rd_en, wr_en and din that hold just before the edge, or an    *)
(* asynchronous reset.                                                     *)
(***************************************************************************)
EXTENDS Integers, Sequences

CONSTANTS
  Word,  \* the values of wrdtype
  Zero,  \* the all-zero word that dout shows when the FIFO is empty
  Size   \* 2 ** addrdepth, the number of words of reg

ASSUME FifoAssumption == Zero \in Word /\ Size \in Nat /\ Size >= 2

VARIABLES
  reg,              \* the memory
  RdCntr, WrCntr,   \* next slot to read, next slot to write
  DCntr,            \* data_count
  emptyxB, fullxB,  \* the flags behind empty and full
  wr_ack,           \* acknowledges a write
  accepted          \* history: the last edge put its word behind the others

vars == <<reg, RdCntr, WrCntr, DCntr, emptyxB, fullxB, wr_ack, accepted>>

Bit == {0, 1}
Slot == 0..(Size - 1)

\* The counters are addrdepth bits wide: they wrap.
Inc(c) == IF c = Size - 1 THEN 0 ELSE c + 1
Dec(c) == IF c = 0 THEN Size - 1 ELSE c - 1

\* The outputs that are not registers.
dout == IF emptyxB = 0 THEN reg[RdCntr] ELSE Zero

\* The number of words stored, and the words, oldest first.
Occupancy == IF fullxB = 1 THEN Size
             ELSE IF WrCntr >= RdCntr THEN WrCntr - RdCntr
             ELSE WrCntr - RdCntr + Size

SlotAt(i) == IF RdCntr + i < Size THEN RdCntr + i ELSE RdCntr + i - Size

Contents == [i \in 1..Occupancy |-> reg[SlotAt(i - 1)]]

\* The RAM has no reset: it starts with any contents.
Init ==
  /\ reg \in [Slot -> Word]
  /\ RdCntr = 0 /\ WrCntr = 0 /\ DCntr = 0
  /\ emptyxB = 1 /\ fullxB = 0 /\ wr_ack = 0
  /\ accepted = 0

Reset ==
  /\ RdCntr' = 0 /\ WrCntr' = 0 /\ DCntr' = 0
  /\ emptyxB' = 1 /\ fullxB' = 0 /\ wr_ack' = 0
  /\ accepted' = 0
  /\ UNCHANGED reg

\* RW = "11": neither flag is looked at.
ReadWrite(din) ==
  /\ RdCntr' = Inc(RdCntr)
  /\ WrCntr' = Inc(WrCntr)
  /\ wr_ack' = 1
  /\ reg' = [reg EXCEPT ![WrCntr] = din]
  /\ UNCHANGED <<DCntr, emptyxB, fullxB>>

\* Mutant of ReadOnly: reading the last word does not raise empty.
ReadOnly_neverEmpty ==
  /\ \/ emptyxB = 0 /\ RdCntr' = Inc(RdCntr) /\ DCntr' = Dec(DCntr)
     \/ emptyxB = 1 /\ UNCHANGED <<RdCntr, DCntr>>
  /\ fullxB' = 0 /\ wr_ack' = 0
  /\ UNCHANGED <<reg, WrCntr, emptyxB>>

\* RW = "10"
ReadOnly ==
  /\ \/ /\ emptyxB = 0
        /\ emptyxB' = IF Inc(RdCntr) = WrCntr THEN 1 ELSE emptyxB
        /\ RdCntr' = Inc(RdCntr)
        /\ DCntr' = Dec(DCntr)
     \/ /\ emptyxB = 1
        /\ UNCHANGED <<emptyxB, RdCntr, DCntr>>
  /\ fullxB' = 0
  /\ wr_ack' = 0
  /\ UNCHANGED <<reg, WrCntr>>

\* Mutant of WriteOnly: the counter also counts the writes that are refused.
WriteOnly_countsRefused(din) ==
  /\ emptyxB' = 0
  /\ DCntr' = Inc(DCntr)
  /\ \/ /\ fullxB = 0
        /\ reg' = [reg EXCEPT ![WrCntr] = din]
        /\ fullxB' = IF Inc(WrCntr) = RdCntr THEN 1 ELSE fullxB
        /\ WrCntr' = Inc(WrCntr)
        /\ wr_ack' = 1
     \/ fullxB = 1 /\ UNCHANGED <<reg, fullxB, WrCntr, wr_ack>>
  /\ UNCHANGED RdCntr

\* Mutant of WriteOnly: a full FIFO takes the word and loses its oldest one.
WriteOnly_overwrites(din) ==
  /\ emptyxB' = 0
  /\ reg' = [reg EXCEPT ![WrCntr] = din]
  /\ fullxB' = IF Inc(WrCntr) = RdCntr THEN 1 ELSE fullxB
  /\ WrCntr' = IF fullxB = 1 THEN WrCntr ELSE Inc(WrCntr)
  /\ DCntr' = IF fullxB = 1 THEN DCntr ELSE Inc(DCntr)
  /\ wr_ack' = 1
  /\ UNCHANGED RdCntr

\* RW = "01": a write refused by a full FIFO leaves wr_ack as it was.
WriteOnly(din) ==
  /\ emptyxB' = 0
  /\ \/ /\ fullxB = 0
        /\ reg' = [reg EXCEPT ![WrCntr] = din]
        /\ fullxB' = IF Inc(WrCntr) = RdCntr THEN 1 ELSE fullxB
        /\ WrCntr' = Inc(WrCntr)
        /\ DCntr' = Inc(DCntr)
        /\ wr_ack' = 1
     \/ /\ fullxB = 1
        /\ UNCHANGED <<reg, fullxB, WrCntr, DCntr, wr_ack>>
  /\ UNCHANGED RdCntr

\* RW = "00"
Hold ==
  /\ wr_ack' = 0
  /\ UNCHANGED <<reg, RdCntr, WrCntr, DCntr, emptyxB, fullxB>>

\* The edge, seen from outside: din ends up behind the words that stay.
Takes(rd_en, din) ==
  \/ Contents' = Append(Contents, din)
  \/ rd_en = 1 /\ Contents # <<>> /\ Contents' = Append(Tail(Contents), din)

\* The rising edge of clk, by the two enables; wr_en is data_bridge's pulse.
Clk(rd_en, wr_en, din) ==
  /\ \/ rd_en = 1 /\ wr_en = 1 /\ ReadWrite(din)
     \/ rd_en = 1 /\ wr_en = 0 /\ ReadOnly
     \/ rd_en = 0 /\ wr_en = 1 /\ WriteOnly(din)
     \/ rd_en = 0 /\ wr_en = 0 /\ Hold
  /\ accepted' = IF wr_en = 1 /\ Takes(rd_en, din) THEN 1 ELSE 0

Next == \/ \E rd_en, wr_en \in Bit, din \in Word : Clk(rd_en, wr_en, din)
        \/ Reset

Spec == Init /\ [][Next]_vars
-----------------------------------------------------------------------------
TypeOK ==
  /\ reg \in [Slot -> Word]
  /\ RdCntr \in Slot /\ WrCntr \in Slot /\ DCntr \in Slot
  /\ emptyxB \in Bit /\ fullxB \in Bit /\ wr_ack \in Bit /\ accepted \in Bit

(***************************************************************************)
(* The flags are kept by comparing pointers at each edge, never recomputed *)
(* (fifo.vhdl:62-91): they must tell the two states with equal pointers    *)
(* apart, and never both be up, after every sequence of reads, writes,     *)
(* refused requests and simultaneous requests.                             *)
(***************************************************************************)
FlagsTellEqualPointers ==
  /\ RdCntr = WrCntr <=> emptyxB = 1 \/ fullxB = 1
  /\ ~(emptyxB = 1 /\ fullxB = 1)

(***************************************************************************)
(* data_count is the occupancy modulo the width of the counter: the two    *)
(* are updated by separate statements that must never drift apart.         *)
(***************************************************************************)
CountFollowsOccupancy ==
  DCntr = IF Occupancy = Size THEN 0 ELSE Occupancy

(***************************************************************************)
(* The FIFO implements a bounded queue of Size words: words leave in the   *)
(* order they were accepted, no accepted word is overwritten or repeated,  *)
(* and dout shows the oldest one.                                          *)
(***************************************************************************)
Queue == INSTANCE BoundedQueue
           WITH queue <- Contents, front <- dout, Capacity <- Size

ImplementsQueue == Queue!Spec

(***************************************************************************)
(* fifo.vhdl:5 "wr_ack now pulses upon successful write".  An edge that    *)
(* stores a word ends with wr_ack up.  The other direction fails in the    *)
(* code in two ways, the two exceptions here: a write that a full FIFO     *)
(* refuses does not touch wr_ack, so behind an accepted write it stays up  *)
(* and is no pulse (fifo.vhdl:78-88); and a write that meets a read on an  *)
(* empty FIFO is acknowledged and lost (fifo.vhdl:61-65).  Any other edge  *)
(* that ends with wr_ack up has stored its word.                           *)
(***************************************************************************)
AckMeansStored ==
  [][/\ accepted' = 1 => wr_ack' = 1
     /\ wr_ack' = 1 /\ accepted' = 0 =>
          \/ fullxB = 1 /\ wr_ack = 1
          \/ emptyxB = 1 /\ RdCntr' # RdCntr]_vars
=============================================================================
