------------------------------- MODULE WbFifo -------------------------------
(***************************************************************************)
(* wb_fifo (wishbone_CCD_simulator/vhdl/wb_fifo.vhdl): the Wishbone slave  *)
(* around fifo_syn.  Its process registers the value to be read and the    *)
(* read enable of the FIFO, so a word leaves the FIFO one edge after it    *)
(* was copied to readdata, and raises irqport for one edge when the top    *)
(* bit of the counter rises.                                               *)
(***************************************************************************)
EXTENDS Fifo

CONSTANTS id, BAD2   \* the words read at the registers "00" and "11"

VARIABLES
  rd_en, readdata,   \* registers of the read path
  irqport,           \* bit 0 of the interrupt port
  previous_half

wbvars == <<rd_en, readdata, irqport, previous_half>>

\* data_count(data_count'high): Size is a power of two.
half == IF DCntr >= Size \div 2 THEN 1 ELSE 0

WbInit ==
  /\ reg = [s \in Slot |-> Zero] /\ Init
  /\ rd_en = 0 /\ readdata = Zero
  /\ irqport = 0 /\ previous_half = 1

\* The values of the four registers: ID, count, data, error.
Register == [a \in 0..3 |-> CASE a = 0 -> id
                              [] a = 1 -> DCntr
                              [] a = 2 -> dout
                              [] a = 3 -> BAD2]

\* Mutant of WbEdge: the word is taken off the FIFO by every read.
WbEdge_popsAlways(read, a) ==
  /\ irqport' = IF half # previous_half /\ half = 1 THEN 1 ELSE 0
  /\ previous_half' = half
  /\ rd_en' = IF read THEN 1 ELSE 0
  /\ readdata' = IF read THEN Register[a] ELSE readdata

\* Mutant of WbEdge: rd_en keeps its value between accesses.
WbEdge_keepsRdEn(read, a) ==
  /\ irqport' = IF half # previous_half /\ half = 1 THEN 1 ELSE 0
  /\ previous_half' = half
  /\ rd_en' = IF read THEN (IF a = 2 THEN 1 ELSE 0) ELSE rd_en
  /\ readdata' = IF read THEN Register[a] ELSE readdata

\* Mutant of WbEdge: any change of half is signalled.
WbEdge_bothEdges(read, a) ==
  /\ irqport' = IF half # previous_half THEN 1 ELSE 0
  /\ previous_half' = half
  /\ rd_en' = IF read /\ a = 2 THEN 1 ELSE 0
  /\ readdata' = IF read THEN Register[a] ELSE readdata

\* One edge of the process: read is check_wb0(wbw), a the register selected.
WbEdge(read, a) ==
  /\ irqport' = IF half # previous_half /\ half = 1 THEN 1 ELSE 0
  /\ previous_half' = half
  /\ rd_en' = IF read /\ a = 2 THEN 1 ELSE 0
  /\ readdata' = IF read THEN Register[a] ELSE readdata
=============================================================================
