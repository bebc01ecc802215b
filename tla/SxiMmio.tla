------------------------------ MODULE SxiMmio ------------------------------
(***************************************************************************)
(* The acquisition path as the user program sees it: data_bridge writes    *)
(* words into wb_fifo, and getem of user/sxi_clocks_mmio.c polls the count *)
(* register and reads the data register through /dev/mem.  An access goes  *)
(* through wishbone_wrapper and intercon, which hold no state: it is seen  *)
(* by the slaves at every clock edge while it lasts.  How many edges that  *)
(* is, and how many lie between two accesses, is decided by the processor, *)
(* which is outside the repository.                                        *)
(***************************************************************************)
EXTENDS WbFifo

CONSTANTS
  IrqWord, DEAD,  \* what the irq manager and an unselected address answer
  NWords,     \* words the CCD sends; word number i is the value i
  MaxBeats,   \* the most clock edges an access can last; it lasts at least one
  MinGap      \* the least number of edges between two accesses

ASSUME MmioAssumption ==
  /\ NWords \in Nat /\ 1..NWords \subseteq Word /\ Zero = 0
  /\ MaxBeats \in Nat \ {0} /\ MinGap \in Nat

VARIABLES
  wr_en, din,   \* the write port, driven by data_bridge; din = words sent
  pc,           \* where the user program is
  master,       \* who has the bus: "none", "user" or "kernel"
  address,      \* imx_address of the access
  beats, gap,   \* edges seen by this access, edges since the last one
  buf,          \* the words getem stored
  overrun,      \* history: a word met a full FIFO
  slow          \* history: a read of the data register lasted more than an edge

busvars == <<pc, master, address, beats, gap, buf>>
allvars == <<vars, wbvars, wr_en, din, busvars, overrun, slow>>

\* intercon_decs.vhdl and the register offsets of sxi_clocks_mmio.c, as word addresses.
irqa == 0
fifoa == 1
is_slctd(a, device) == (a \div 4) % 64 = device
C_ID == 8
C_COUNT == 10
C_DATA == 12
C_ID_NUM == id

\* wwbr: what the processor reads; the other slaves have no part in this model.
Mux == IF is_slctd(address, irqa) THEN IrqWord
       ELSE IF is_slctd(address, fifoa) THEN readdata
       ELSE DEAD

\* From the start of main, and from the call of getem, which main never reaches.
MmioInit ==
  /\ WbInit
  /\ pc \in {"checkID", "count"}
  /\ wr_en = 0 /\ din = Zero
  /\ master = "none" /\ address = 0 /\ beats = 0 /\ gap = 0
  /\ buf = <<>> /\ overrun = FALSE /\ slow = FALSE

\* The clock edge: FIFO, slave process and data_bridge at once.  The bridge
\* raises wr_en for one edge, and a strobe must fall before it can do so again.
Bridge ==
  \/ wr_en = 0 /\ din < NWords /\ wr_en' = 1 /\ din' = din + 1
  \/ wr_en' = 0 /\ UNCHANGED din

Edge ==
  /\ master # "none" => beats < MaxBeats
  /\ Clk(rd_en, wr_en, din)
  /\ WbEdge(master # "none" /\ is_slctd(address, fifoa), address % 4)
  /\ Bridge
  /\ overrun' = (overrun \/ (wr_en = 1 /\ rd_en = 0 /\ fullxB = 1))
  /\ slow' = (slow \/ (master = "user" /\ pc = "data" /\ beats >= 1))
  /\ beats' = IF master = "none" THEN beats ELSE beats + 1
  /\ gap' = IF master = "none" /\ gap < MinGap THEN gap + 1 ELSE gap
  /\ UNCHANGED <<pc, master, address, buf>>

\* The address lines settle: getreg(reg) is a load of the byte offset reg.
Begin(who, offset) ==
  /\ master = "none" /\ gap >= MinGap
  /\ master' = who /\ address' = offset \div 2
  /\ beats' = 0 /\ gap' = 0
  /\ UNCHANGED <<vars, wbvars, wr_en, din, pc, buf, overrun, slow>>

BeginUser == \/ pc = "checkID" /\ Begin("user", C_ID)
             \/ pc = "count" /\ Begin("user", C_COUNT)
             \/ pc = "data" /\ Begin("user", C_DATA)

\* The processor samples the bus and releases it.
Release(who) ==
  /\ master = who /\ beats >= 1
  /\ master' = "none"
  /\ UNCHANGED <<vars, wbvars, wr_en, din, address, beats, gap, overrun, slow>>

\* checkID compares two constants of the program, not the word it read.
CheckID ==
  /\ pc = "checkID" /\ Release("user")
  /\ pc' = IF C_ID_NUM # C_ID THEN "exited" ELSE "count"
  /\ UNCHANGED buf

\* Mutant of SeeCount: the program waits for a second word.
SeeCount_waitsForTwo ==
  /\ pc = "count" /\ Release("user")
  /\ pc' = IF Mux \in {0, 1} THEN "count" ELSE "data"
  /\ UNCHANGED buf

\* while( !getreg( C_COUNT )) ;
SeeCount ==
  /\ pc = "count" /\ Release("user")
  /\ pc' = IF Mux = 0 THEN "count" ELSE "data"
  /\ UNCHANGED buf

\* Mutant of TakeData: the count is not polled again before the next word.
TakeData_noPoll ==
  /\ pc = "data" /\ Release("user")
  /\ buf' = Append(buf, Mux)
  /\ pc' = IF Len(buf) = NWords THEN "done" ELSE "data"

\* *buf++ = getreg( C_DATA );
TakeData ==
  /\ pc = "data" /\ Release("user")
  /\ buf' = Append(buf, Mux)
  /\ pc' = IF Len(buf') = NWords THEN "done" ELSE "count"

\* The kernel uses the same bus between two accesses of the program: its
\* interrupt handlers read the irq manager, and fpgaregs reads any register
\* that does not consume data.
OtherOffset == {2, 14, 16}

Kernel == \/ \E offset \in OtherOffset : Begin("kernel", offset)
          \/ Release("kernel") /\ UNCHANGED <<pc, buf>>

User == BeginUser \/ CheckID \/ SeeCount \/ TakeData

MmioNext == Edge \/ User \/ Kernel

\* The FPGA clock runs, the program is scheduled and an access of either ends.
Fairness ==
  /\ WF_allvars(Edge)
  /\ SF_allvars(User)
  /\ WF_allvars(Release("kernel") /\ UNCHANGED <<pc, buf>>)

MmioSpec == MmioInit /\ [][MmioNext]_allvars /\ Fairness
-----------------------------------------------------------------------------
\* A word that left the FIFO or will at the next edge, and getem has not stored.
InFlight ==
  IF pc = "data" /\ master = "user" /\ beats >= 1 THEN <<readdata>> ELSE <<>>

Waiting == IF rd_en = 1 /\ Contents # <<>> THEN Tail(Contents) ELSE Contents

Stream == buf \o InFlight \o Waiting

(***************************************************************************)
(* Words are never repeated, reordered or made up: what getem has stored,  *)
(* the word on its way and the words in the FIFO are in the order they     *)
(* were sent (getem, sxi_clocks_mmio.c:103-109, against wb_fifo.vhdl:80-99 *)
(* and fifo.vhdl:60-94).  A read of the data register that goes on after   *)
(* it emptied the FIFO returns the Zero that dout then shows.              *)
(***************************************************************************)
InOrder ==
  /\ \A i \in 1..Len(Stream) : Stream[i] \in 1..din \/ (slow /\ Stream[i] = Zero)
  /\ \A i, j \in 1..Len(Stream) :
       i < j /\ Stream[i] # Zero /\ Stream[j] # Zero => Stream[i] < Stream[j]

(***************************************************************************)
(* Every word sent is stored, on its way or in the FIFO, unless the FIFO   *)
(* was full when it came, or a read of the data register lasted more than  *)
(* one edge: each further edge takes another word (wb_fifo.vhdl:90-91).    *)
(* Nothing else loses one: no read of another register, no count seen too  *)
(* early, no read of an empty FIFO that meets a write.                     *)
(***************************************************************************)
Sent == din - wr_en

NothingLost == ~overrun /\ ~slow => Len(Stream) = Sent

(***************************************************************************)
(* The FIFO is never asked for a word it does not hold, which would drop a *)
(* word written at the same edge (fifo.vhdl:61-65), unless a slow read.    *)
(***************************************************************************)
NoReadOfEmpty == ~slow /\ rd_en = 1 => emptyxB = 0

(***************************************************************************)
(* The interrupt is a request to read: when it is raised at least half the *)
(* FIFO waits, less the word that leaves at the same edge.                 *)
(***************************************************************************)
PulseMeansHalfFull == irqport = 1 => Occupancy >= Size \div 2 - 1

(***************************************************************************)
(* A waiting word is read, unless the FIFO fills up.                       *)
(***************************************************************************)
ReadUnlessFull ==
  \A n \in 0..(NWords - 1) :
    pc = "count" /\ Len(buf) = n /\ Waiting # <<>>
      ~> Len(buf) > n \/ fullxB = 1

(***************************************************************************)
(* A program that polls a full FIFO does so for ever: its count reads 0,   *)
(* nobody else takes a word, words that come are refused without a change  *)
(* of the count, and there is no step by which it could leave the loop     *)
(* (sxi_clocks_mmio.c:106, fifo.vhdl:79-91).                               *)
(***************************************************************************)
PollsFull ==
  /\ pc = "count" /\ fullxB = 1 /\ rd_en = 0
  /\ master = "user" /\ beats >= 1 => readdata = 0

FullForEver == [][PollsFull => PollsFull']_allvars

(***************************************************************************)
(* Addressing.txt:31 "fifo_count is a 16 bit unsigned integer,             *)
(* representing the current size of the queue", so getem can wait for it.  *)
(* The code disagrees: a full FIFO shows 0, which getem polls for ever.    *)
(***************************************************************************)
WaitingWordIsRead ==
  \A n \in 0..(NWords - 1) :
    pc = "count" /\ Len(buf) = n /\ Waiting # <<>> ~> Len(buf) > n
=============================================================================
