------------------------------ MODULE IrqPath ------------------------------
(***************************************************************************)
(* Interrupts from the logic to a Linux handler: irq_mngr.vhdl latches the *)
(* rising edges of irqport and drives one line into a GPIO of the          *)
(* processor; modules/irq_mngr.c demultiplexes it.  The GPIO block and the *)
(* kernel's handle_edge_irq (acknowledge, then run the handler) are        *)
(* outside the repository.  A word of 16 bits is the set of its ones.      *)
(***************************************************************************)
EXTENDS Naturals, FiniteSets

CONSTANTS
  NB_IT,      \* interrupt sources (16 in the code)
  MaxBeats,   \* the most clock edges a register access can last
  MinGap      \* the least number of clock edges between two accesses

ASSUME IrqAssumption ==
  /\ NB_IT \in Nat \ {0}
  /\ MaxBeats \in Nat \ {0} /\ MinGap \in Nat

VARIABLES
  irqport,                             \* from the other slaves
  irq_r, irq_old, irq_pend, irq_ack, irq_mask,
  readdata,
  bus, beats, gap,                     \* the access in progress
  gpio,                                \* the bit of the GPIO status register
  latches,                             \* whether it latches rising edges
  life,                                \* of the driver: down, up, removing
  requested,                           \* sources some driver has requested
  pc, caller, todo, irq, shadow,       \* the function that runs, and its locals
  owed,                                \* history: edges no handler has run for yet
  remasked,                            \* history: requested sources a probe masked
  lost                                 \* history: the edge of the line was cleared

hwvars == <<irqport, irq_r, irq_old, irq_pend, irq_ack, irq_mask, readdata>>
busvars == <<bus, beats, gap>>
locals == <<pc, caller, todo, irq, shadow>>
drvvars == <<life, requested, locals>>
hvars == <<owed, remasked, lost>>
vars == <<hwvars, busvars, gpio, latches, drvvars, hvars>>

Irqs == 0..(NB_IT - 1)
IMR == 0   \* the registers of irq_mngr, by irqaddr
ISR == 1
ID_OFFSET == 2
ID == {0, 3, 12}                          \* 0x1009
BAD0 == {4, 6, 7, 9, 11, 12, 13, 15}      \* 0xBAD0

Idle == [op |-> "none", reg |-> 0, data |-> {}]

\* An access to another slave, which irq_mngr does not see.
Other == [op |-> "other", reg |-> 0, data |-> {}]

Init ==
  /\ irqport = {} /\ irq_r = {} /\ irq_old = {}
  /\ irq_pend = {} /\ irq_ack = {} /\ irq_mask = {} /\ readdata = {}
  /\ bus = Idle /\ beats = 0 /\ gap = 0
  /\ gpio = 0 /\ latches \in BOOLEAN
  /\ life = "down" /\ requested = {}
  /\ pc = "idle" /\ caller = "none" /\ todo = {} /\ irq = 0 /\ shadow = {}
  /\ owed = {} /\ remasked = {} /\ lost = FALSE
-----------------------------------------------------------------------------
(* irq_mngr.vhdl *)

irq_line == irq_pend # {}

Register == [a \in 0..3 |-> CASE a = 0 -> irq_mask
                              [] a = 1 -> irq_pend
                              [] a = 3 -> ID
                              [] OTHER -> BAD0]

\* Mutant of Latch: requests are latched whether masked or not.
Latch_ignoresMask ==
  irq_pend' = (irq_pend \cup (irq_r \ irq_old)) \ irq_ack

\* Mutant of Latch: nothing is latched in the cycle of an acknowledge.
Latch_ackBlocks ==
  irq_pend' = IF irq_ack # {} THEN irq_pend \ irq_ack
              ELSE irq_pend \cup ((irq_r \ irq_old) \cap irq_mask)

\* Mutant of Latch: an acknowledge clears the whole word.
Latch_ackClearsAll ==
  irq_pend' = IF irq_ack # {} THEN {}
              ELSE irq_pend \cup ((irq_r \ irq_old) \cap irq_mask)

Latch == irq_pend' = (irq_pend \cup ((irq_r \ irq_old) \cap irq_mask)) \ irq_ack

\* One edge of sysc.clk: a source raises its request for one edge at a time.
Edge ==
  /\ bus.op # "none" => beats < MaxBeats
  /\ irqport' \in SUBSET (Irqs \ irqport)
  /\ irq_r' = irqport
  /\ irq_old' = irq_r
  /\ Latch
  /\ readdata' = IF bus.op = "read" THEN Register[bus.reg] ELSE readdata
  /\ irq_mask' = IF bus.op = "write" /\ bus.reg = IMR THEN bus.data ELSE irq_mask
  /\ irq_ack' = IF bus.op = "write" /\ bus.reg = ISR THEN bus.data ELSE {}
  /\ gpio' = IF irq_pend' = {} THEN (IF latches THEN gpio ELSE 0)
             ELSE IF latches /\ irq_line THEN gpio ELSE 1
  /\ owed' = owed \cup ((irq_r \ irq_old) \cap irq_mask)
  /\ beats' = IF bus.op # "none" THEN beats + 1 ELSE beats
  /\ gap' = IF bus.op = "none" /\ gap < MinGap THEN gap + 1 ELSE gap
  /\ lost' = (lost /\ irq_pend' # {})
  /\ UNCHANGED <<bus, latches, drvvars, remasked>>
-----------------------------------------------------------------------------
(* modules/irq_mngr.c: each step of the driver is an access or a decision.  *)
(* The kernel calls ack, mask and unmask with interrupts off, so one        *)
(* function runs at a time.                                                 *)

Bit == {irq}     \* 1 << ((irq - IRQ_FPGA_START) % NB_IT)

\* Mutant of Access: unmask writes its own bit only.
Access_ownBit ==
  CASE pc = "id" -> [op |-> "read", reg |-> ID_OFFSET, data |-> {}]
    [] pc = "mask_all" -> [op |-> "write", reg |-> IMR, data |-> {}]
    [] pc \in {"demux", "last"} -> [op |-> "read", reg |-> ISR, data |-> {}]
    [] pc = "ack" -> [op |-> "write", reg |-> ISR, data |-> Bit]
    [] pc \in {"mask", "unmask"} -> [op |-> "read", reg |-> IMR, data |-> {}]
    [] pc = "masked" -> [op |-> "write", reg |-> IMR, data |-> shadow \ Bit]
    [] pc = "unmasked" -> [op |-> "write", reg |-> IMR, data |-> Bit]
    [] pc = "handler" -> Other
    [] OTHER -> Idle

\* What the driver puts on the bus at each place of its program.
Access ==
  CASE pc = "id" -> [op |-> "read", reg |-> ID_OFFSET, data |-> {}]
    [] pc = "mask_all" -> [op |-> "write", reg |-> IMR, data |-> {}]
    [] pc \in {"demux", "last"} -> [op |-> "read", reg |-> ISR, data |-> {}]
    [] pc = "ack" -> [op |-> "write", reg |-> ISR, data |-> Bit]
    [] pc \in {"mask", "unmask"} -> [op |-> "read", reg |-> IMR, data |-> {}]
    [] pc = "masked" -> [op |-> "write", reg |-> IMR, data |-> shadow \ Bit]
    [] pc = "unmasked" -> [op |-> "write", reg |-> IMR, data |-> shadow \cup Bit]
    [] pc = "handler" -> Other
    [] OTHER -> Idle

BeginAccess ==
  /\ bus.op = "none" /\ gap >= MinGap /\ Access.op # "none"
  /\ bus' = Access /\ gap' = 0
  /\ UNCHANGED <<hwvars, beats, gpio, latches, drvvars, hvars>>

Done(l) ==
  /\ pc = l /\ bus.op # "none" /\ beats >= 1
  /\ bus' = Idle /\ beats' = 0
  /\ UNCHANGED <<hwvars, gap, gpio, latches, requested>>

\* ocore_irq_mng_probe: the ID (a wrong one is only logged), the mask, then an
\* ack for each source.
ProbeStart ==
  /\ pc = "idle" /\ life = "down"
  /\ pc' = "id" /\ caller' = "probe" /\ irq' = 0
  /\ UNCHANGED <<hwvars, busvars, gpio, latches, life, requested, todo, shadow, hvars>>

ProbeId ==
  /\ Done("id") /\ pc' = "mask_all"
  /\ UNCHANGED <<life, caller, todo, irq, shadow, hvars>>

\* Whoever has requested a source before is not asked: it stays masked.
ProbeMask ==
  /\ Done("mask_all") /\ pc' = "ack"
  /\ remasked' = requested
  /\ UNCHANGED <<life, caller, todo, irq, shadow, owed, lost>>

\* imx_fpga_ack_irq
Ack ==
  /\ Done("ack") /\ pc' = "last"
  /\ UNCHANGED <<life, caller, todo, irq, shadow, hvars>>

AckLast ==
  /\ Done("last")
  /\ pc' = IF readdata = {} THEN "gpio" ELSE "acked"
  /\ UNCHANGED <<life, caller, todo, irq, shadow, hvars>>

\* Writing the GPIO status bit clears an edge; a level shows through.
AckGpio ==
  /\ pc = "gpio"
  /\ gpio' = IF latches THEN 0 ELSE gpio
  /\ lost' = (lost \/ (latches /\ irq_line))
  /\ pc' = "acked"
  /\ UNCHANGED <<hwvars, busvars, latches, life, requested, caller, todo, irq,
                 shadow, owed, remasked>>

\* The loop of the probe goes on to the next source, and after the last one
\* the demultiplexer is installed.
ProbeNext ==
  /\ pc = "acked" /\ caller = "probe"
  /\ \/ irq < NB_IT - 1 /\ irq' = irq + 1 /\ pc' = "ack" /\ UNCHANGED <<caller, life>>
     \/ irq = NB_IT - 1 /\ irq' = 0 /\ pc' = "idle" /\ caller' = "none"
        /\ life' = "up"
  /\ owed' = owed \ Bit
  /\ UNCHANGED <<hwvars, busvars, gpio, latches, requested, todo, shadow,
                 remasked, lost>>

\* An asserted interrupt is taken before a process goes on.
Process == pc = "idle" /\ gpio = 0

\* A driver requests its interrupt, or frees it: the kernel calls unmask or
\* mask.  An edge latched before is for nobody then.
Request ==
  /\ Process /\ life = "up"
  /\ irq' \in Irqs \ requested
  /\ requested' = requested \cup {irq'}
  /\ pc' = "unmask" /\ caller' = "request"
  /\ UNCHANGED <<hwvars, busvars, gpio, latches, life, todo, shadow, hvars>>

Free ==
  /\ Process /\ life = "up"
  /\ irq' \in requested
  /\ requested' = requested \ {irq'}
  /\ owed' = owed \ {irq'} /\ remasked' = remasked \ {irq'}
  /\ pc' = "mask" /\ caller' = "free"
  /\ UNCHANGED <<hwvars, busvars, gpio, latches, life, todo, shadow, lost>>

\* imx_fpga_unmask_irq and imx_fpga_mask_irq read the mask and write it back.
UnmaskRead ==
  /\ Done("unmask") /\ shadow' = readdata /\ pc' = "unmasked"
  /\ UNCHANGED <<life, caller, todo, irq, hvars>>

UnmaskWrite ==
  /\ Done("unmasked") /\ pc' = "idle" /\ caller' = "none" /\ irq' = 0
  /\ shadow' = {}
  /\ UNCHANGED <<life, todo, hvars>>

MaskRead ==
  /\ Done("mask") /\ shadow' = readdata /\ pc' = "masked"
  /\ UNCHANGED <<life, caller, todo, irq, hvars>>

MaskWrite ==
  /\ Done("masked") /\ shadow' = {}
  /\ IF caller = "free" THEN pc' = "idle" /\ caller' = "none" /\ irq' = 0
     ELSE pc' = "ack" /\ UNCHANGED <<caller, irq>>
  /\ owed' = owed \ Bit
  /\ UNCHANGED <<life, todo, remasked, lost>>

\* Mutant of Demux: the demultiplexer runs without its interrupt.
Demux_anyTime ==
  /\ pc = "idle" /\ life # "down"
  /\ pc' = "demux" /\ caller' = "demux"
  /\ UNCHANGED <<hwvars, busvars, gpio, latches, life, requested, todo, irq, shadow, hvars>>

\* The processor takes the interrupt of the GPIO.
Demux ==
  /\ pc = "idle" /\ life # "down" /\ gpio = 1
  /\ pc' = "demux" /\ caller' = "demux"
  /\ UNCHANGED <<hwvars, busvars, gpio, latches, life, requested, todo, irq, shadow, hvars>>

DemuxMask ==
  /\ Done("demux") /\ todo' = readdata /\ pc' = "loop"
  /\ UNCHANGED <<life, caller, irq, shadow, hvars>>

\* imx_fpga_handler: the bits of mask from the lowest one up.  A source that
\* nobody has requested is masked first; one without a chip is not touched.
Loop ==
  /\ pc = "loop"
  /\ \/ todo = {} /\ pc' = "idle" /\ caller' = "none" /\ irq' = 0 /\ UNCHANGED todo
     \/ /\ irq' \in todo /\ \A i \in todo : irq' <= i
        /\ pc' = IF life = "removing" THEN "loop"
                 ELSE IF irq' \in requested THEN "ack" ELSE "mask"
        /\ UNCHANGED caller
        /\ todo' = IF life = "removing" THEN todo \ {irq'} ELSE todo
  /\ UNCHANGED <<hwvars, busvars, gpio, latches, life, requested, shadow, hvars>>

\* The action of the source starts, after its acknowledge.
Handle ==
  /\ pc = "acked" /\ caller = "demux"
  /\ owed' = owed \ Bit
  /\ pc' = "handler"
  /\ UNCHANGED <<hwvars, busvars, gpio, latches, life, requested, caller, todo, irq,
                 shadow, remasked, lost>>

\* It reads and writes its own device, as often as it likes.
HandlerDone == Done("handler") /\ UNCHANGED <<life, locals, hvars>>

HandlerEnd ==
  /\ pc = "handler" /\ bus.op = "none"
  /\ todo' = todo \ Bit
  /\ pc' = "loop"
  /\ UNCHANGED <<hwvars, busvars, gpio, latches, life, requested, caller, irq, shadow,
                 hvars>>

\* ocore_irq_mng_remove takes the chips away and then the demultiplexer.
RemoveChips ==
  /\ Process /\ life = "up"
  /\ life' = "removing"
  /\ UNCHANGED <<hwvars, busvars, gpio, latches, requested, locals, hvars>>

RemoveChained ==
  /\ Process /\ life = "removing"
  /\ life' = "down"
  /\ UNCHANGED <<hwvars, busvars, gpio, latches, requested, locals, hvars>>

Admin == ProbeStart \/ Request \/ Free \/ RemoveChips

Quiet == \/ pc # "handler" /\ BeginAccess
         \/ ProbeId \/ ProbeMask \/ ProbeNext \/ UnmaskRead
         \/ UnmaskWrite \/ MaskRead \/ MaskWrite \/ Demux \/ DemuxMask \/ Loop
         \/ Ack \/ AckLast \/ AckGpio \/ RemoveChained

Handler == \/ Handle \/ HandlerDone \/ HandlerEnd
           \/ pc = "handler" /\ BeginAccess

Driver == Quiet \/ Handler

Next == Edge \/ Driver \/ Admin

\* The clock runs, and so does the processor, and a handler comes to its end.
\* Nobody need load or unload.
Spec ==
  /\ Init /\ [][Next]_vars
  /\ WF_vars(Edge) /\ WF_vars(Driver) /\ SF_vars(HandlerEnd)
-----------------------------------------------------------------------------
TypeOK ==
  /\ irqport \subseteq Irqs /\ irq_r \subseteq Irqs /\ irq_old \subseteq Irqs
  /\ irq_pend \subseteq Irqs /\ irq_ack \subseteq Irqs
  /\ irq_mask \subseteq Irqs /\ owed \subseteq Irqs /\ todo \subseteq Irqs
  /\ beats \in 0..MaxBeats /\ gap \in 0..MinGap /\ gpio \in 0..1
  /\ irq \in Irqs /\ caller \in {"none", "probe", "request", "free", "demux"}
  /\ pc = "idle" <=> caller = "none"
  /\ life \in {"down", "up", "removing"} /\ requested \subseteq Irqs
  /\ remasked \subseteq Irqs /\ latches \in BOOLEAN /\ lost \in BOOLEAN

(* Between the acknowledge of a source and the start of its handler.        *)
Handling == {"ack", "last", "gpio", "acked"}

(***************************************************************************)
(* No edge that a handler still owes a run is forgotten: it is pending and *)
(* the line of the GPIO is up for it, or its own acknowledge is under way  *)
(* and the handler comes next.  This is what a new edge in the very clock  *)
(* of an acknowledge could break (irq_mngr.vhdl:70); only the GPIO itself  *)
(* can forget, between status and acknowledge (irq_mngr.c:86-88).          *)
(***************************************************************************)
NoneForgotten ==
  \A i \in owed : \/ i \in irq_pend /\ (gpio = 1 \/ lost)
                  \/ i = irq /\ pc \in Handling

(***************************************************************************)
(* When no function runs, the mask register holds the requested sources,   *)
(* whatever other sources were masked, unmasked or served meanwhile,       *)
(* except those that were requested when a second probe masked them and    *)
(* that their drivers have not freed since (irq_mngr.c:92, 103, 203).      *)
(***************************************************************************)
MaskFollowsRequests ==
  life = "up" /\ pc = "idle" => irq_mask = requested \ remasked

(***************************************************************************)
(* A request is forgotten by the latch only between the acknowledge of its *)
(* own source and the handler of it, so the handler that follows sees      *)
(* whatever caused the request (irq_mngr.vhdl:70, irq_mngr.c:83).          *)
(***************************************************************************)
ClearedBeforeHandler ==
  [][\A i \in irq_pend \ irq_pend' : i = irq /\ pc \in {"ack", "last"}]_vars

(***************************************************************************)
(* Each time the demultiplexer runs it finds a request, whose acknowledge  *)
(* is what ends the interrupt: with no bit set it would return with the    *)
(* interrupt still asserted and be called again for ever.                  *)
(***************************************************************************)
DemuxFindsWork == [][DemuxMask => todo' # {}]_vars

(***************************************************************************)
(* Every unmasked edge of irqport is followed by a run of its handler, or  *)
(* its driver frees it, including an edge that meets the acknowledge of an *)
(* earlier one; unless the interrupt driver itself is removed, or the GPIO *)
(* latches edges and a request raised its line between the last status     *)
(* read and the acknowledge of the GPIO (irq_mngr.c:86-88).                *)
(***************************************************************************)
EventsHandled == \A i \in Irqs : i \in owed ~> i \notin owed \/ life # "up" \/ lost

(***************************************************************************)
(* When every source has been freed, a remove comes to its end.  With one  *)
(* still requested it need not: an edge between the two steps of remove    *)
(* meets a demultiplexer without chips, nobody acknowledges it, and the    *)
(* interrupt comes back for ever (irq_mngr.c:233-238).                     *)
(***************************************************************************)
RemoveEnds == life = "removing" /\ requested = {} ~> life = "down"
=============================================================================
