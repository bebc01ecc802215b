------------------------------ MODULE AcqFifo ------------------------------
(***************************************************************************)
(* wb_fifo_chain.vhdl: sclk_data_acq and data_bridge with the FIFO behind  *)
(* them, all on one clock.  The FIFO takes the shift register as its din   *)
(* and the bridge's pulse as its wr_en; its rd_en comes from the bus, at   *)
(* any edge.  The slave's own registers are in WbFifo.                     *)
(***************************************************************************)
EXTENDS AcqChain

CONSTANT Size   \* 2 ** addrdepth

ASSUME ChainAssumption == Size \in Nat /\ Size >= 2

VARIABLES
  reg, RdCntr, WrCntr, DCntr, emptyxB, fullxB, wr_ack, accepted,   \* fifo_syn
  taken,     \* history: the last word that left the FIFO
  dropped    \* history: a word met a full FIFO, or a read of an empty one

fifovars == <<reg, RdCntr, WrCntr, DCntr, emptyxB, fullxB, wr_ack, accepted>>
chainvars == <<vars, fifovars, taken, dropped>>

\* A shift register out of reset, and what it can hold.
Blank == [k \in 1..Width |-> NoBit]
Tag == 0..(NTags - 1)
BitTag == (Tag \X (0..7)) \cup {NoBit}

FIFO == INSTANCE Fifo WITH Word <- [1..Width -> BitTag], Zero <- Blank

ChainInit ==
  /\ Init
  /\ reg = [s \in FIFO!Slot |-> Blank] /\ FIFO!Init
  /\ taken = <<>> /\ dropped = FALSE

\* A write that the FIFO does not take: it is full, or empty and read.
Lost(rd_en) == wr_en = 1 /\ IF rd_en = 1 THEN emptyxB = 1 ELSE fullxB = 1

\* Mutant of ChainClk: the FIFO takes the register as it is after the edge.
ChainClk_late(rd_en) ==
  /\ Clk
  /\ FIFO!Clk(rd_en, wr_en, a_val')
  /\ taken' = IF rd_en = 1 /\ emptyxB = 0 THEN FIFO!dout ELSE taken
  /\ dropped' = (dropped \/ Lost(rd_en))

\* One edge of sysc.clk, for the three of them.
ChainClk(rd_en) ==
  /\ Clk
  /\ FIFO!Clk(rd_en, wr_en, a_val)
  /\ taken' = IF rd_en = 1 /\ emptyxB = 0 THEN FIFO!dout ELSE taken
  /\ dropped' = (dropped \/ Lost(rd_en))

ChainSend == Send /\ UNCHANGED <<fifovars, taken, dropped>>

ChainEdge == \E rd_en \in {0, 1} : ChainClk(rd_en)

ChainNext == ChainSend \/ ChainEdge

ChainSpec ==
  ChainInit /\ [][ChainNext]_chainvars /\ WF_chainvars(ChainSend) /\ WF_chainvars(ChainEdge)
-----------------------------------------------------------------------------
\* What may come behind a word: the first one may come behind an empty register.
Follows(v, w) ==
  \/ v = <<>> /\ w \in {Blank, Whole(0)}
  \/ v = Blank /\ w = Whole(0)
  \/ \E t \in Tag : v = Whole(t) /\ w = Whole((t + 1) % NTags)

\* The words that came out, the last one of them, and those still to come.
Delivered == <<taken>> \o FIFO!Contents

(***************************************************************************)
(* End to end: as long as no write was lost, the words of the format come  *)
(* out of the FIFO whole, once and in the order they were sent, whatever   *)
(* the skew of the lines and whenever the bus reads, full or empty.        *)
(***************************************************************************)
WordsFollow ==
  sender = "format" /\ ~dropped =>
    \A k \in 1..(Len(Delivered) - 1) : Follows(Delivered[k], Delivered[k + 1])
=============================================================================
