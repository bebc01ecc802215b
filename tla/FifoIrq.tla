------------------------------ MODULE FifoIrq ------------------------------
(***************************************************************************)
(* The FIFO as a source of interrupts: source 0 of IrqPath is the pulse of *)
(* wb_fifo.vhdl, raised for one clock when the top bit of the counter      *)
(* rises, and its handler is sxi_interrupt, which reads a status and a     *)
(* word in turn while words may still come.  A FIFO that is full shows a   *)
(* count of 0, so taking a word off it raises the pulse again.  The other  *)
(* sources stay free.                                                      *)
(*                                                                         *)
(* The status register of the driver is that of the device it was written  *)
(* for: bit 0 says whether there is a word.  wb_fifo has no such register  *)
(* (its "11" answers 0xBAD2, its "01" is the count).                       *)
(***************************************************************************)
EXTENDS IrqPath

CONSTANTS
  Size,     \* words of the FIFO, a power of two
  Coming    \* the most words that come during one run of sxi_interrupt

ASSUME SizeAssumption == Size \in Nat \ {0, 1}
ASSUME ComingAssumption == Coming \in Nat

VARIABLES
  level,            \* words in the FIFO
  rd_en,            \* the read enable that wb_fifo registers
  previous_half,
  reads,            \* what sxi_interrupt reads next, if it runs
  available,        \* the status it has read
  came,             \* words that came since it started
  missed            \* history: the last pulse was masked, or nobody handles it

fivars == <<level, rd_en, previous_half, reads, available, came, missed>>
allvars == <<vars, fivars>>

\* The counter of a full FIFO is 0.
half == IF level \in (Size \div 2)..(Size - 1) THEN 1 ELSE 0
Rises == half = 1 /\ previous_half = 0

FIInit ==
  /\ Init
  /\ level = 0 /\ rd_en = FALSE /\ previous_half = 1
  /\ reads = "none" /\ available = FALSE /\ came = 0 /\ missed = FALSE

\* The pulse that the latch sees, and an acknowledge that no handler follows.
Pulse == 0 \in irq_r \ irq_old
AckForNobody == 0 \in irq_ack /\ (caller = "probe" \/ 0 \notin requested)

Misses ==
  missed' = IF Pulse THEN 0 \notin irq_mask \/ AckForNobody
            ELSE missed \/ (0 \in irq_pend /\ AckForNobody)

\* The words of fifo_syn at an edge that may bring one: with both enables up
\* neither flag is looked at, and a word for a full FIFO is refused.
Clk(word) ==
  \/ rd_en = (word = 1) /\ UNCHANGED level
  \/ rd_en /\ word = 0 /\ level' = IF level = 0 THEN level ELSE level - 1
  \/ ~rd_en /\ word = 1 /\ level' = IF level = Size THEN level ELSE level + 1

\* A word can come at any edge, but only so many during one run of the handler.
Comes(word) ==
  /\ came' = IF reads = "none" THEN came ELSE came + word
  /\ came' <= Coming

\* The registers of wb_fifo that an access of sxi_interrupt reaches.
Answers ==
  /\ rd_en' = (bus.op = "other" /\ reads = "word")
  /\ available' = IF bus.op = "other" /\ reads = "status" THEN level > 0
                  ELSE available

\* Mutant of FIEdge: the process forgets to keep half.
FIEdge_neverKeeps ==
  /\ Edge /\ Answers
  /\ \E word \in 0..1 : Clk(word) /\ Comes(word)
  /\ Rises <=> 0 \in irqport'
  /\ Misses
  /\ UNCHANGED <<previous_half, reads>>

\* One edge of sysc.clk.
FIEdge ==
  /\ Edge /\ Answers
  /\ \E word \in 0..1 : Clk(word) /\ Comes(word)
  /\ Rises <=> 0 \in irqport'
  /\ previous_half' = half
  /\ Misses
  /\ UNCHANGED reads
-----------------------------------------------------------------------------
(* sxi_interrupt: while the status says so, a word.                         *)

sxi_interrupt ==
  /\ Handle
  /\ reads' = IF irq = 0 /\ irq \in requested THEN "status" ELSE "none"
  /\ UNCHANGED <<level, rd_en, previous_half, available, came, missed>>

ReadBegin == BeginAccess /\ reads # "none" /\ UNCHANGED fivars

StatusDone ==
  /\ HandlerDone /\ reads = "status"
  /\ reads' = IF available THEN "word" ELSE "none"
  /\ came' = IF available THEN came ELSE 0
  /\ available' = FALSE
  /\ UNCHANGED <<level, rd_en, previous_half, missed>>

\* Mutant of WordDone: one word for each interrupt.
WordDone_once ==
  /\ HandlerDone /\ reads = "word"
  /\ reads' = "none" /\ came' = 0
  /\ UNCHANGED <<level, rd_en, previous_half, available, missed>>

WordDone ==
  /\ HandlerDone /\ reads = "word"
  /\ reads' = "status"
  /\ UNCHANGED <<level, rd_en, previous_half, available, came, missed>>

\* It returns, and the handlers of the other sources do nothing here.
HandlerReturns == HandlerEnd /\ reads = "none" /\ UNCHANGED fivars

FIDriver == \/ sxi_interrupt \/ ReadBegin \/ StatusDone \/ WordDone \/ HandlerReturns
            \/ Quiet /\ UNCHANGED fivars

FINext == FIEdge \/ FIDriver \/ (Admin /\ UNCHANGED fivars)

FISpec ==
  FIInit /\ [][FINext]_allvars /\ WF_allvars(FIEdge) /\ WF_allvars(FIDriver)
-----------------------------------------------------------------------------
(* The registers' ranges; a pulse seen only while the FIFO is half full.    *)
FITypeOK ==
  /\ level \in 0..Size /\ previous_half \in 0..1 /\ missed \in BOOLEAN
  /\ rd_en \in BOOLEAN /\ available \in BOOLEAN /\ came \in 0..Coming
  /\ reads \in {"none", "status", "word"}
  /\ 0 \in irqport => previous_half = 1

\* sxi_interrupt runs, and has not read a status without a word.
Draining == \/ reads = "word"
            \/ reads = "status" /\ (bus.op = "none" \/ beats = 0 \/ available)

(* The pulse is still to come, latched, or has its handler before it, or    *)
(* the handler is at work.                                                  *)
OnItsWay ==
  \/ Rises \/ 0 \in irqport \/ Pulse \/ 0 \in irq_pend
  \/ irq = 0 /\ caller = "demux" /\ 0 \in requested /\ pc \in Handling
  \/ Draining

(***************************************************************************)
(* The one pulse of a FIFO that is half full is never used up in vain:     *)
(* while so many words are there, the pulse is on its way somewhere        *)
(* between the counter and the handler, or the handler still reads and     *)
(* has seen no empty FIFO; even if it meets the acknowledge of the pulse   *)
(* before, if words come while the FIFO is emptied, or if the FIFO was     *)
(* full and raises a second pulse when the first word is taken off it.     *)
(* Only a pulse that was masked or acknowledged for nobody is gone         *)
(* (wb_fifo.vhdl:74, irq_mngr.vhdl:70, sxi_sim_driver.c:225-226).          *)
(***************************************************************************)
HalfFullKnown == level >= Size \div 2 /\ ~missed => OnItsWay

(***************************************************************************)
(* A FIFO that is half full or more gets below that while source 0 is      *)
(* requested, although its pulse comes once: it may fill up, other sources *)
(* may be served, up to Coming words may come while it is emptied, and a   *)
(* read that lasts two clocks may take two words.  What it does not        *)
(* survive is a pulse that came while the source was masked or that was    *)
(* acknowledged for nobody: no second one comes                            *)
(* (irq_mngr.vhdl:70, wb_fifo.vhdl:74, sxi_sim_driver.c:225-226).          *)
(***************************************************************************)
HalfFullServed ==
  level >= Size \div 2
    ~> \/ level < Size \div 2 \/ missed \/ lost
       \/ 0 \notin requested \/ life # "up"
=============================================================================
