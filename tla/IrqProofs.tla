----------------------------- MODULE IrqProofs -----------------------------
(***************************************************************************)
(* Theorems about IrqPath and FifoIrq, for every number of sources and     *)
(* every timing of the bus that the constants allow.  The invariant says   *)
(* which function of the driver is where (Callers), what the bus carries   *)
(* for it and what has come back (OnBus), what the mask register holds     *)
(* meanwhile (Masks), and how long an acknowledge lives (Acks).            *)
(***************************************************************************)
EXTENDS FifoIrq, TLAPS

Masking == {"mask", "masked", "unmask", "unmasked"}

\* Where each caller can be, and the life of the driver meanwhile.
Callers ==
  \/ caller = "none" /\ pc = "idle"
  \/ /\ caller = "probe" /\ life = "down"
     /\ pc \in {"id", "mask_all", "ack", "last", "gpio", "acked"}
  \/ caller = "request" /\ life = "up" /\ pc \in {"unmask", "unmasked"}
  \/ caller = "free" /\ life = "up" /\ pc \in {"mask", "masked"}
  \/ /\ caller = "demux" /\ life = "up"
     /\ pc \in {"demux", "loop", "mask", "masked", "ack", "last", "gpio", "acked",
                "handler"}
  \/ caller = "demux" /\ life = "removing" /\ pc \in {"demux", "loop"}

\* What an access has done once an edge has seen it.
Seen ==
  /\ pc \in {"demux", "last"} => readdata \subseteq Irqs
  /\ pc \in {"mask", "unmask"} => readdata = irq_mask
  /\ pc = "mask_all" => irq_mask = {}
  /\ pc = "masked" => irq_mask = shadow \ {irq}
  /\ pc = "unmasked" => irq_mask = shadow \cup {irq}

OnBus ==
  \/ bus = Idle /\ beats = 0
  \/ /\ bus = Access /\ Access.op # "none" /\ gap = 0
     /\ beats >= 1 => Seen

\* The mask register, up to the bit that is being changed.
Masks ==
  /\ remasked \subseteq requested
  /\ \/ life = "up" /\ pc \notin Masking
     \/ caller = "probe" /\ pc \notin {"id", "mask_all"}
     => irq_mask = requested \ remasked
  /\ pc \in Masking => irq_mask \ {irq} = (requested \ remasked) \ {irq}
  /\ pc \in {"masked", "unmasked"} => /\ shadow \subseteq Irqs
                                      /\ shadow \ {irq} = (requested \ remasked) \ {irq}
  /\ pc \in {"unmask", "unmasked"} => irq \in requested \ remasked
  /\ pc \in {"mask", "masked"} => irq \notin requested

\* The acknowledge that the latch sees is that of the source at hand.
Acks ==
  irq_ack = {} \/ /\ irq_ack = {irq}
                  /\ \/ pc = "ack" /\ bus = Access
                     \/ pc = "last" /\ (bus = Idle \/ beats = 0)

IInv == TypeOK /\ Callers /\ OnBus /\ Masks /\ Acks

Safety == Init /\ [][Next]_vars
-----------------------------------------------------------------------------
LEMMA RegisterIs == Register[IMR] = irq_mask /\ Register[ISR] = irq_pend
BY DEF Register, IMR, ISR

LEMMA AccessIs ==
  /\ pc = "id" => Access = [op |-> "read", reg |-> ID_OFFSET, data |-> {}]
  /\ pc = "mask_all" => Access = [op |-> "write", reg |-> IMR, data |-> {}]
  /\ pc \in {"demux", "last"} => Access = [op |-> "read", reg |-> ISR, data |-> {}]
  /\ pc = "ack" => Access = [op |-> "write", reg |-> ISR, data |-> {irq}]
  /\ pc \in {"mask", "unmask"} => Access = [op |-> "read", reg |-> IMR, data |-> {}]
  /\ pc = "masked" => Access = [op |-> "write", reg |-> IMR, data |-> shadow \ {irq}]
  /\ pc = "unmasked" => Access = [op |-> "write", reg |-> IMR, data |-> shadow \cup {irq}]
  /\ pc = "handler" => Access = Other
  /\ pc \in {"idle", "loop", "gpio", "acked"} => Access = Idle
<1>1. CASE pc \in {"id", "mask_all", "demux", "last"}
  BY <1>1 DEF Access
<1>2. CASE pc \in {"ack", "mask", "unmask"}
  BY <1>2 DEF Access, Bit
<1>3. CASE pc = "masked"
  BY <1>3 DEF Access, Bit
<1>4. CASE pc = "unmasked"
  BY <1>4 DEF Access, Bit
<1>5. CASE pc \in {"idle", "loop", "gpio", "acked"}
  BY <1>5 DEF Access
<1>6. CASE pc = "handler"
  BY <1>6 DEF Access
<1> QED BY <1>1, <1>2, <1>3, <1>4, <1>5, <1>6

LEMMA InitIInv == Init => IInv
<1> SUFFICES ASSUME Init PROVE IInv
  OBVIOUS
<1>1. TypeOK
  <2>1. 0 \in Irqs
    BY IrqAssumption DEF Irqs
  <2>2. 0 \in 0..MaxBeats /\ 0 \in 0..MinGap
    BY IrqAssumption
  <2>3. /\ irqport \subseteq Irqs /\ irq_r \subseteq Irqs /\ irq_old \subseteq Irqs
        /\ irq_pend \subseteq Irqs /\ irq_ack \subseteq Irqs
        /\ irq_mask \subseteq Irqs /\ owed \subseteq Irqs /\ todo \subseteq Irqs
        /\ requested \subseteq Irqs /\ remasked \subseteq Irqs
    BY DEF Init
  <2>4. /\ beats \in 0..MaxBeats /\ gap \in 0..MinGap /\ gpio \in 0..1 /\ irq \in Irqs
    BY <2>1, <2>2 DEF Init
  <2>5. /\ caller \in {"none", "probe", "request", "free", "demux"}
        /\ pc = "idle" <=> caller = "none"
        /\ life \in {"down", "up", "removing"}
    BY DEF Init
  <2>6. latches \in BOOLEAN /\ lost \in BOOLEAN
    BY DEF Init
  <2> QED BY <2>3, <2>4, <2>5, <2>6 DEF TypeOK
<1>2. Callers /\ OnBus /\ Masks /\ Acks
  BY DEF Init, Callers, OnBus, Masks, Acks, Masking
<1> QED BY <1>1, <1>2 DEF IInv

(* Outside an access the bus is idle.                                       *)
LEMMA BusIdle ==
  ASSUME OnBus, pc \in {"idle", "loop", "gpio", "acked"}
  PROVE  bus = Idle /\ beats = 0
BY AccessIs DEF OnBus, Idle

(* An access that ends is the one of its place, and an edge has seen it.    *)
LEMMA DoneFacts ==
  ASSUME OnBus, NEW l, Done(l)
  PROVE  /\ pc = l /\ bus = Access /\ gap = 0 /\ beats >= 1 /\ Seen
         /\ bus' = Idle /\ beats' = 0
BY DEF Done, OnBus, Idle

LEMMA OnBusNext == IInv /\ [Next]_vars => OnBus'
<1> SUFFICES ASSUME IInv, [Next]_vars PROVE OnBus'
  OBVIOUS
<1> USE DEF IInv
<1>1. CASE Edge
  <2>1. bus' = bus /\ Access' = Access /\ pc' = pc /\ irq' = irq /\ shadow' = shadow
    BY <1>1 DEF Edge, drvvars, locals, Access, Bit
  <2>2. CASE bus = Idle /\ beats = 0
    BY <1>1, <2>1, <2>2 DEF Edge, Idle, OnBus
  <2>3. CASE bus = Access /\ Access.op # "none" /\ gap = 0
    <3>1. gap' = 0
      BY <1>1, <2>3 DEF Edge
    <3>2. pc \in {"demux", "last"} => readdata' = irq_pend
      BY <1>1, <2>3, AccessIs, RegisterIs DEF Edge
    <3>3. pc \in {"mask", "unmask"} => readdata' = irq_mask /\ irq_mask' = irq_mask
      BY <1>1, <2>3, AccessIs, RegisterIs DEF Edge
    <3>4. pc = "mask_all" => irq_mask' = {}
      BY <1>1, <2>3, AccessIs DEF Edge
    <3>5. pc = "masked" => irq_mask' = shadow \ {irq}
      BY <1>1, <2>3, AccessIs DEF Edge
    <3>6. pc = "unmasked" => irq_mask' = shadow \cup {irq}
      BY <1>1, <2>3, AccessIs DEF Edge
    <3>7. Seen'
      BY <2>1, <3>2, <3>3, <3>4, <3>5, <3>6 DEF Seen, TypeOK, Irqs
    <3> QED BY <2>1, <2>3, <3>1, <3>7 DEF OnBus
  <2> QED BY <2>2, <2>3 DEF OnBus
<1>2. CASE BeginAccess
  <2>1. Access' = Access
    BY <1>2 DEF BeginAccess, drvvars, locals, Access, Bit
  <2> QED BY <1>2, <2>1 DEF BeginAccess, OnBus, Idle, TypeOK
<1>3. CASE \/ ProbeId \/ ProbeMask \/ Ack \/ AckLast \/ UnmaskRead \/ UnmaskWrite
           \/ MaskRead \/ MaskWrite \/ DemuxMask \/ HandlerDone
  BY <1>3, DoneFacts DEF ProbeId, ProbeMask, Ack, AckLast, UnmaskRead, UnmaskWrite,
     MaskRead, MaskWrite, DemuxMask, HandlerDone, OnBus
<1>4. CASE AckGpio \/ ProbeNext \/ Loop \/ Handle
  BY <1>4, BusIdle DEF AckGpio, ProbeNext, Loop, Handle, OnBus, busvars
<1>5. CASE \/ ProbeStart \/ Request \/ Free \/ Demux \/ RemoveChips \/ RemoveChained
  BY <1>5, BusIdle DEF ProbeStart, Request, Free, Demux, RemoveChips, RemoveChained,
     Process, OnBus, busvars
<1>6. CASE UNCHANGED vars
  BY <1>6 DEF vars, hwvars, busvars, drvvars, locals, OnBus, Seen, Access, Bit
<1>7. CASE HandlerEnd
  BY <1>7 DEF HandlerEnd, OnBus, busvars, Idle, TypeOK, Access
<1> QED BY <1>1, <1>2, <1>3, <1>4, <1>5, <1>6, <1>7
        DEF Next, Driver, Quiet, Handler, Admin

LEMMA CallersNext == IInv /\ [Next]_vars => Callers'
<1> SUFFICES ASSUME IInv, [Next]_vars PROVE Callers'
  OBVIOUS
<1> USE DEF IInv, Callers
<1>1. CASE Edge \/ BeginAccess
  BY <1>1 DEF Edge, BeginAccess, drvvars, locals
<1>2. CASE ProbeId \/ ProbeMask \/ Ack \/ AckLast
  BY <1>2 DEF ProbeId, ProbeMask, Ack, AckLast, Done
<1>3. CASE UnmaskRead \/ UnmaskWrite \/ MaskRead \/ MaskWrite \/ DemuxMask
  BY <1>3 DEF UnmaskRead, UnmaskWrite, MaskRead, MaskWrite, DemuxMask, Done
<1>4. CASE AckGpio \/ ProbeNext \/ Handle \/ HandlerDone \/ HandlerEnd
  BY <1>4 DEF AckGpio, ProbeNext, Handle, HandlerDone, HandlerEnd, Done, locals
<1>5. CASE Loop
  BY <1>5 DEF Loop
<1>6. CASE ProbeStart \/ Request \/ Free \/ Demux
  <2>1. CASE ProbeStart
    BY <2>1 DEF ProbeStart
  <2>2. CASE Request
    BY <2>2 DEF Request
  <2>3. CASE Free
    BY <2>3 DEF Free
  <2>4. CASE Demux
    BY <2>4 DEF Demux, TypeOK
  <2> QED BY <1>6, <2>1, <2>2, <2>3, <2>4
<1>7. CASE RemoveChips \/ RemoveChained
  BY <1>7 DEF RemoveChips, RemoveChained, Process, locals
<1>8. CASE UNCHANGED vars
  BY <1>8 DEF vars, drvvars, locals
<1> QED BY <1>1, <1>2, <1>3, <1>4, <1>5, <1>6, <1>7, <1>8 DEF Next, Driver, Quiet, Handler, Admin

LEMMA AcksNext == IInv /\ [Next]_vars => Acks'
<1> SUFFICES ASSUME IInv, [Next]_vars PROVE Acks'
  OBVIOUS
<1> USE DEF IInv
<1>1. CASE Edge
  <2>1. bus' = bus /\ Access' = Access /\ pc' = pc /\ irq' = irq
    BY <1>1 DEF Edge, drvvars, locals, Access, Bit
  <2>2. CASE bus = Idle
    BY <1>1, <2>2 DEF Edge, Idle, Acks
  <2>3. CASE bus = Access /\ pc = "ack"
    BY <1>1, <2>1, <2>3, AccessIs DEF Edge, Acks
  <2>4. CASE bus = Access /\ pc # "ack"
    <3>1. ~(Access.op = "write" /\ Access.reg = ISR)
      BY <2>4, AccessIs DEF Callers, IMR, ISR, Idle, Other, ID_OFFSET
    <3> QED BY <1>1, <2>4, <3>1 DEF Edge, Acks
  <2> QED BY <2>2, <2>3, <2>4 DEF OnBus
<1>2. CASE BeginAccess
  <2>1. Access' = Access /\ pc' = pc /\ irq' = irq /\ irq_ack' = irq_ack /\ beats' = beats
    BY <1>2 DEF BeginAccess, drvvars, locals, hwvars, Access, Bit
  <2> QED BY <1>2, <2>1 DEF BeginAccess, Acks, OnBus
<1>3. CASE Ack
  BY <1>3, DoneFacts DEF Ack, Acks, Done, hwvars
<1>4. CASE \/ ProbeId \/ ProbeMask \/ AckLast \/ UnmaskRead \/ UnmaskWrite
           \/ MaskRead \/ MaskWrite \/ DemuxMask \/ HandlerDone
  <2>1. PICK l : Done(l) /\ l # "ack"
    BY <1>4 DEF ProbeId, ProbeMask, AckLast, UnmaskRead, UnmaskWrite,
       MaskRead, MaskWrite, DemuxMask, HandlerDone
  <2>2. pc = l /\ bus.op # "none" /\ beats >= 1 /\ irq_ack' = irq_ack
    BY <2>1 DEF Done, hwvars
  <2>3. irq_ack = {}
    BY <2>1, <2>2 DEF Acks, Idle, TypeOK
  <2> QED BY <2>2, <2>3 DEF Acks
<1>5. CASE AckGpio \/ ProbeNext \/ Loop \/ Handle \/ HandlerEnd
  BY <1>5 DEF AckGpio, ProbeNext, Loop, Handle, HandlerEnd, hwvars, Acks
<1>6. CASE \/ ProbeStart \/ Request \/ Free \/ Demux \/ RemoveChips \/ RemoveChained
  BY <1>6 DEF ProbeStart, Request, Free, Demux, RemoveChips, RemoveChained,
     Process, hwvars, Acks
<1>7. CASE UNCHANGED vars
  BY <1>7 DEF vars, hwvars, busvars, drvvars, locals, Acks, Access, Bit
<1> QED BY <1>1, <1>2, <1>3, <1>4, <1>5, <1>6, <1>7 DEF Next, Driver, Quiet, Handler, Admin

LEMMA MasksNext == IInv /\ [Next]_vars => Masks'
<1> SUFFICES ASSUME IInv, [Next]_vars PROVE Masks'
  OBVIOUS
<1> USE DEF IInv
<1>1. CASE Edge
  <2>1. /\ pc' = pc /\ irq' = irq /\ shadow' = shadow /\ life' = life
        /\ caller' = caller /\ requested' = requested /\ remasked' = remasked
    BY <1>1 DEF Edge, drvvars, locals
  <2>2. CASE ~(bus.op = "write" /\ bus.reg = IMR)
    BY <1>1, <2>1, <2>2 DEF Edge, Masks, Masking
  <2>3. CASE bus.op = "write" /\ bus.reg = IMR
    <3>1. bus = Access /\ pc \in {"mask_all", "masked", "unmasked"}
      BY <2>3, AccessIs DEF OnBus, Callers, Idle, Other, IMR, ISR, ID_OFFSET
    <3>2. CASE pc = "mask_all"
      BY <1>1, <2>1, <2>3, <3>1, <3>2 DEF Edge, Masks, Masking, Callers
    <3>3. CASE pc = "masked"
      <4>1. irq_mask' = shadow \ {irq}
        BY <1>1, <2>3, <3>1, <3>3, AccessIs DEF Edge
      <4> QED BY <2>1, <3>3, <4>1 DEF Masks, Masking, Callers
    <3>4. CASE pc = "unmasked"
      <4>1. irq_mask' = shadow \cup {irq}
        BY <1>1, <2>3, <3>1, <3>4, AccessIs DEF Edge
      <4> QED BY <2>1, <3>4, <4>1 DEF Masks, Masking, Callers
    <3> QED BY <3>1, <3>2, <3>3, <3>4
  <2> QED BY <2>2, <2>3
<1>2. CASE BeginAccess
  BY <1>2 DEF BeginAccess, drvvars, locals, hwvars, hvars, Masks, Masking
<1>3. CASE ProbeId \/ Ack \/ AckLast
  BY <1>3 DEF ProbeId, Ack, AckLast, Done, Masks, Masking, hwvars, hvars, Callers
<1>4. CASE ProbeMask
  BY <1>4, DoneFacts DEF ProbeMask, Done, Seen, Masks, Masking, hwvars, Callers
<1>5. CASE UnmaskRead \/ MaskRead
  <2>1. readdata = irq_mask /\ shadow' = irq_mask
    BY <1>5, DoneFacts DEF UnmaskRead, MaskRead, Seen
  <2> QED BY <1>5, <2>1 DEF UnmaskRead, MaskRead, Done, Masks, Masking, hwvars, hvars,
             Callers, TypeOK
<1>6. CASE UnmaskWrite
  <2>1. irq_mask = shadow \cup {irq} /\ pc = "unmasked"
    BY <1>6, DoneFacts DEF UnmaskWrite, Seen
  <2>2. irq_mask = requested \ remasked
    BY <2>1 DEF Masks
  <2> QED BY <1>6, <2>2 DEF UnmaskWrite, Done, Masks, Masking, hwvars, hvars
<1>7. CASE MaskWrite
  <2>1. irq_mask = shadow \ {irq} /\ pc = "masked"
    BY <1>7, DoneFacts DEF MaskWrite, Seen
  <2>2. irq_mask = requested \ remasked
    BY <2>1 DEF Masks
  <2> QED BY <1>7, <2>2 DEF MaskWrite, Done, Masks, Masking, hwvars
<1>8. CASE DemuxMask
  BY <1>8 DEF DemuxMask, Done, Masks, Masking, hwvars, hvars
<1>9. CASE AckGpio \/ ProbeNext \/ Handle \/ HandlerDone \/ HandlerEnd
  BY <1>9 DEF AckGpio, ProbeNext, Handle, HandlerDone, HandlerEnd, Done, Masks, Masking,
     hwvars, locals, hvars, Callers
<1>10. CASE Loop
  BY <1>10 DEF Loop, Masks, Masking, hwvars, hvars, Callers
<1>11. CASE ProbeStart \/ Demux
  BY <1>11 DEF ProbeStart, Demux, Masks, Masking, hwvars, hvars, TypeOK
<1>12. CASE Request
  BY <1>12 DEF Request, Process, Masks, Masking, hwvars, hvars, TypeOK
<1>13. CASE Free
  BY <1>13 DEF Free, Process, Masks, Masking, hwvars, TypeOK
<1>14. CASE RemoveChips \/ RemoveChained
  BY <1>14 DEF RemoveChips, RemoveChained, Process, Masks, Masking, hwvars, locals, hvars,
     TypeOK
<1>15. CASE UNCHANGED vars
  BY <1>15 DEF vars, hwvars, drvvars, locals, hvars, Masks, Masking
<1> QED
  BY <1>1, <1>2, <1>3, <1>4, <1>5, <1>6, <1>7, <1>8, <1>9, <1>10, <1>11, <1>12, <1>13,
     <1>14, <1>15 DEF Next, Driver, Quiet, Handler, Admin

(* What is written to a register is a set of sources.                       *)
LEMMA WrittenIsSources == IInv /\ bus.op = "write" => bus.data \subseteq Irqs
<1> SUFFICES ASSUME IInv, bus.op = "write" PROVE bus.data \subseteq Irqs
  OBVIOUS
<1>1. bus = Access /\ irq \in Irqs
  BY DEF IInv, OnBus, Idle, TypeOK
<1>2. pc \in {"mask_all", "ack", "masked", "unmasked"}
  BY <1>1, AccessIs DEF IInv, Callers, Idle, Other
<1> QED BY <1>1, <1>2, AccessIs DEF IInv, Masks

LEMMA TypeNext == IInv /\ [Next]_vars => TypeOK'
<1> SUFFICES ASSUME IInv, [Next]_vars PROVE TypeOK'
  OBVIOUS
<1> USE DEF IInv, TypeOK
<1>1. CASE Edge
  <2>1. /\ irqport' \subseteq Irqs /\ irq_r' \subseteq Irqs /\ irq_old' \subseteq Irqs
        /\ irq_pend' \subseteq Irqs /\ owed' \subseteq Irqs
    BY <1>1 DEF Edge, Latch
  <2>2. irq_ack' \subseteq Irqs /\ irq_mask' \subseteq Irqs
    BY <1>1, WrittenIsSources DEF Edge
  <2>3. beats' \in 0..MaxBeats /\ gap' \in 0..MinGap
    BY <1>1, IrqAssumption DEF Edge
  <2>4. gpio' \in 0..1
    BY <1>1 DEF Edge
  <2>5. latches' \in BOOLEAN /\ lost' \in BOOLEAN
    BY <1>1 DEF Edge
  <2>6. UNCHANGED <<drvvars, remasked>>
    BY <1>1 DEF Edge
  <2> QED BY <2>1, <2>2, <2>3, <2>4, <2>5, <2>6 DEF drvvars, locals
<1>2. CASE BeginAccess
  BY <1>2, IrqAssumption DEF BeginAccess, drvvars, locals, hwvars, hvars
<1>3. CASE \/ ProbeId \/ ProbeMask \/ Ack \/ AckLast \/ UnmaskRead \/ UnmaskWrite
           \/ MaskRead \/ MaskWrite \/ DemuxMask
  <2>1. PICK l : Done(l)
    BY <1>3 DEF ProbeId, ProbeMask, Ack, AckLast, UnmaskRead, UnmaskWrite, MaskRead,
       MaskWrite, DemuxMask
  <2>2. /\ UNCHANGED <<hwvars, gap, gpio, latches, requested>>
        /\ beats' \in 0..MaxBeats
    BY <2>1, IrqAssumption DEF Done
  <2>3. life' = life /\ owed' \subseteq Irqs /\ remasked' \subseteq Irqs
    BY <1>3 DEF ProbeId, ProbeMask, Ack, AckLast, UnmaskRead, UnmaskWrite, MaskRead,
       MaskWrite, DemuxMask, hvars
  <2>4. todo' \subseteq Irqs
    BY <1>3, DoneFacts DEF ProbeId, ProbeMask, Ack, AckLast, UnmaskRead, UnmaskWrite,
       MaskRead, MaskWrite, DemuxMask, Seen
  <2>5. irq' \in Irqs
    <3>1. 0 \in Irqs
      BY IrqAssumption DEF Irqs
    <3> QED BY <1>3, <3>1 DEF ProbeId, ProbeMask, Ack, AckLast, UnmaskRead, UnmaskWrite,
               MaskRead, MaskWrite, DemuxMask
  <2>6. lost' \in BOOLEAN
    <3>1. lost' = lost
      BY <1>3 DEF ProbeId, ProbeMask, Ack, AckLast, UnmaskRead, UnmaskWrite, MaskRead,
         MaskWrite, DemuxMask, hvars
    <3> QED BY <3>1
  <2>7. /\ caller' \in {"none", "probe", "request", "free", "demux"}
        /\ pc' = "idle" <=> caller' = "none"
    BY <1>3, <2>1 DEF ProbeId, ProbeMask, Ack, AckLast, UnmaskRead, UnmaskWrite,
       MaskRead, MaskWrite, DemuxMask, Done
  <2> QED BY <2>2, <2>3, <2>4, <2>5, <2>6, <2>7 DEF hwvars
<1>4. CASE AckGpio
  <2>1. gpio' \in 0..1 /\ UNCHANGED <<hwvars, busvars, latches, life, requested, caller,
                                      todo, irq, owed, remasked>>
    BY <1>4 DEF AckGpio
  <2>2. lost' \in BOOLEAN
    BY <1>4 DEF AckGpio
  <2>3. pc # "idle" /\ pc' # "idle"
    BY <1>4 DEF AckGpio
  <2> QED BY <2>1, <2>2, <2>3 DEF hwvars, busvars
<1>5. CASE ProbeNext
  <2>1. irq' \in Irqs
    BY <1>5, IrqAssumption DEF ProbeNext, Irqs
  <2> QED BY <1>5, <2>1 DEF ProbeNext, hwvars, busvars
<1>6. CASE Loop
  <2>1. 0 \in Irqs
    BY IrqAssumption DEF Irqs
  <2> QED BY <1>6, <2>1 DEF Loop, hwvars, busvars, hvars
<1>7. CASE Handle \/ HandlerEnd
  BY <1>7 DEF Handle, HandlerEnd, hwvars, busvars, hvars
<1>8. CASE ProbeStart \/ Demux
  <2>1. 0 \in Irqs
    BY IrqAssumption DEF Irqs
  <2> QED BY <1>8, <2>1 DEF ProbeStart, Demux, hwvars, busvars, hvars
<1>9. CASE Request
  BY <1>9 DEF Request, hwvars, busvars, hvars
<1>10. CASE Free
  BY <1>10 DEF Free, hwvars, busvars
<1>11. CASE RemoveChips \/ RemoveChained
  BY <1>11 DEF RemoveChips, RemoveChained, hwvars, busvars, hvars, locals
<1>12. CASE UNCHANGED vars
  BY <1>12 DEF vars, hwvars, busvars, drvvars, hvars, locals
<1>13. CASE HandlerDone
  <2>1. beats' \in 0..MaxBeats
    BY <1>13, IrqAssumption DEF HandlerDone, Done
  <2> QED BY <1>13, <2>1 DEF HandlerDone, Done, hwvars, locals, hvars
<1> QED
  BY <1>1, <1>2, <1>3, <1>4, <1>5, <1>6, <1>7, <1>8, <1>9, <1>10, <1>11, <1>12, <1>13
  DEF Next, Driver, Quiet, Handler, Admin

LEMMA IInvNext == IInv /\ [Next]_vars => IInv'
BY TypeNext, CallersNext, OnBusNext, MasksNext, AcksNext DEF IInv

LEMMA Invariant == Safety => []IInv
<1>1. Init => IInv
  BY InitIInv
<1>2. IInv /\ [Next]_vars => IInv'
  BY IInvNext
<1> QED BY <1>1, <1>2, PTL DEF Safety

LEMMA SpecsAreSafe == Spec \/ FISpec => Safety
<1>1. FIInit => Init
  BY DEF FIInit
<1>2. [FINext]_allvars => [Next]_vars
  BY DEF FINext, FIEdge, FIDriver, sxi_interrupt, ReadBegin, StatusDone, WordDone,
     HandlerReturns, Next, Driver, Quiet, Handler, allvars
<1> QED BY <1>1, <1>2, PTL DEF Spec, FISpec, Safety
-----------------------------------------------------------------------------
(***************************************************************************)
(* TypeOK, whatever the sources do: every register and local holds sources *)
(* only, and an access never outlasts the bound of the bus.                *)
(***************************************************************************)
THEOREM IrqTypeCorrect == Spec \/ FISpec => []TypeOK
<1>1. IInv => TypeOK
  BY DEF IInv
<1> QED BY <1>1, Invariant, SpecsAreSafe, PTL

(***************************************************************************)
(* The mask register follows the requests (irq_mngr.c:92, 103): no source  *)
(* loses or gains its bit by what is done for another one, for any number  *)
(* of sources.                                                             *)
(***************************************************************************)
THEOREM IrqMaskFollowsRequests == Spec \/ FISpec => []MaskFollowsRequests
<1>1. IInv => MaskFollowsRequests
  BY DEF IInv, Masks, Masking, MaskFollowsRequests
<1> QED BY <1>1, Invariant, SpecsAreSafe, PTL

(***************************************************************************)
(* A request is cleared only by the acknowledge of its own source, in      *)
(* front of its handler (irq_mngr.vhdl:70).                                *)
(***************************************************************************)
THEOREM IrqClearedBeforeHandler == Spec \/ FISpec => ClearedBeforeHandler
<1>1. ASSUME IInv, [Next]_vars
      PROVE  [\A i \in irq_pend \ irq_pend' : i = irq /\ pc \in {"ack", "last"}]_vars
  <2> SUFFICES ASSUME NEW i \in irq_pend \ irq_pend'
               PROVE  i = irq /\ pc \in {"ack", "last"}
    OBVIOUS
  <2>1. Edge
    BY <1>1 DEF Next, Driver, Quiet, Handler, Admin, BeginAccess, ProbeId, ProbeMask, ProbeNext,
       UnmaskRead, UnmaskWrite, MaskRead, MaskWrite, Demux, DemuxMask, Loop, Ack, AckLast,
       AckGpio, RemoveChained, Handle, HandlerDone, HandlerEnd, ProbeStart, Request, Free,
       RemoveChips, Done,
       hwvars, vars
  <2>2. i \in irq_ack
    BY <2>1 DEF Edge, Latch
  <2> QED BY <1>1, <2>2 DEF IInv, Acks
<1> QED BY <1>1, Invariant, SpecsAreSafe, PTL DEF Safety, ClearedBeforeHandler
-----------------------------------------------------------------------------
(***************************************************************************)
(* Why the demultiplexer finds a request when it runs.  The line of the    *)
(* GPIO is up only over a pending request, except from an acknowledge to   *)
(* the end of imx_fpga_ack_irq; and there a status read that shows a       *)
(* request shows one that stays, because a clock between two accesses lets *)
(* the acknowledge reach irq_pend first.                                   *)
(***************************************************************************)
Acking == {"ack", "last", "gpio"}

Raised ==
  /\ ~latches /\ gpio = 1 => irq_pend # {}
  /\ gpio = 1 /\ pc \notin Acking => irq_pend # {}
  /\ pc = "demux" => /\ irq_pend # {}
                     /\ bus = Access /\ beats >= 1 => readdata # {}
  /\ pc = "last" /\ bus = Access /\ beats >= 1 /\ readdata # {} => irq_pend # {}
  /\ pc = "last" /\ irq_ack # {} => bus = Idle /\ gap = 0

LEMMA RaisedNext ==
  ASSUME MinGap >= 1, IInv, Raised, [Next]_vars
  PROVE  Raised'
<1> USE DEF Acking
<1>1. CASE Edge
  <2>1. /\ pc' = pc /\ bus' = bus /\ Access' = Access /\ latches' = latches
    BY <1>1 DEF Edge, drvvars, locals, Access, Bit
  <2>2. latches' /\ gpio' = 1 => gpio = 1 \/ irq_pend' # {}
    BY <1>1 DEF Edge
  <2>3. ~latches' /\ gpio' = 1 => irq_pend' # {}
    BY <1>1 DEF Edge
  <2>4. irq_ack = {} => irq_pend \subseteq irq_pend'
    BY <1>1 DEF Edge, Latch
  <2>5. pc \notin {"ack", "last"} => irq_ack = {}
    BY DEF IInv, Acks
  <2>6. pc = "demux" => irq_pend' # {} /\ (bus = Access => readdata' # {})
    BY <1>1, <2>4, <2>5, AccessIs, RegisterIs DEF Edge, Raised
  <2>7. pc = "last" /\ bus = Access /\ readdata' # {} => irq_pend' # {}
    BY <1>1, <2>4, AccessIs, RegisterIs DEF Edge, Raised, Idle
  <2>8. pc = "last" => irq_ack' = {}
    BY <1>1, AccessIs DEF Edge, IInv, OnBus, Idle
  <2> QED BY <2>1, <2>2, <2>3, <2>4, <2>5, <2>6, <2>7, <2>8 DEF Raised
<1>2. CASE BeginAccess
  <2>1. ~(pc = "last" /\ irq_ack # {})
    BY <1>2, IrqAssumption DEF BeginAccess, Raised, IInv, TypeOK
  <2>2. beats = 0
    BY <1>2 DEF BeginAccess, IInv, OnBus, Idle
  <2> QED BY <1>2, <2>1, <2>2 DEF BeginAccess, Raised, drvvars, locals, hwvars
<1>3. CASE Ack
  BY <1>3, DoneFacts DEF Ack, Done, IInv, Raised, hwvars, Idle
<1>4. CASE AckLast
  BY <1>4, DoneFacts DEF AckLast, Done, IInv, Raised, hwvars, Idle
<1>5. CASE \/ ProbeId \/ ProbeMask \/ UnmaskRead \/ UnmaskWrite \/ MaskRead \/ MaskWrite
           \/ DemuxMask \/ HandlerDone
  BY <1>5 DEF ProbeId, ProbeMask, UnmaskRead, UnmaskWrite, MaskRead, MaskWrite, DemuxMask,
     HandlerDone, Done, Raised, hwvars, locals
<1>6. CASE AckGpio
  BY <1>6 DEF AckGpio, Raised, hwvars
<1>7. CASE ProbeNext \/ Loop \/ Handle \/ HandlerEnd
  BY <1>7 DEF ProbeNext, Loop, Handle, HandlerEnd, Raised, hwvars
<1>8. CASE Demux
  BY <1>8, BusIdle DEF Demux, Raised, hwvars, busvars, IInv
<1>9. CASE ProbeStart \/ Request \/ Free \/ RemoveChips \/ RemoveChained
  BY <1>9 DEF ProbeStart, Request, Free, RemoveChips, RemoveChained, Process, Raised,
     hwvars, locals
<1>10. CASE UNCHANGED vars
  BY <1>10 DEF vars, hwvars, busvars, drvvars, locals, Raised, Access, Bit
<1> QED BY <1>1, <1>2, <1>3, <1>4, <1>5, <1>6, <1>7, <1>8, <1>9, <1>10
        DEF Next, Driver, Quiet, Handler, Admin

(***************************************************************************)
(* Each run of the demultiplexer finds a request, if the bus leaves at     *)
(* least one clock between two accesses.  With no clock between them it    *)
(* need not (irq_mngr.c:136, irq_mngr.vhdl:102).                           *)
(***************************************************************************)
THEOREM IrqDemuxFindsWork ==
  ASSUME MinGap >= 1
  PROVE  Spec \/ FISpec => DemuxFindsWork
<1>1. Init => Raised
  BY DEF Init, Raised, Acking, Idle
<1>2. IInv /\ Raised /\ [Next]_vars => Raised'
  BY RaisedNext
<1>3. IInv /\ Raised /\ [Next]_vars => [DemuxMask => todo' # {}]_vars
  <2> SUFFICES ASSUME IInv, Raised, DemuxMask
               PROVE  todo' # {}
    OBVIOUS
  <2>1. pc = "demux" /\ bus = Access /\ beats >= 1 /\ todo' = readdata
    BY DoneFacts DEF DemuxMask, IInv
  <2> QED BY <2>1 DEF Raised
<1> QED BY <1>1, <1>2, <1>3, Invariant, SpecsAreSafe, PTL DEF Safety, DemuxFindsWork
-----------------------------------------------------------------------------
(***************************************************************************)
(* The level of the FIFO stays inside it, and the pulse of wb_fifo.vhdl    *)
(* lasts one clock: while it is up the process has already kept half       *)
(* (wb_fifo.vhdl:74).                                                      *)
(***************************************************************************)
THEOREM FifoIrqTypeCorrect == FISpec => []FITypeOK
<1> USE SizeAssumption, ComingAssumption DEF FITypeOK
<1>1. FIInit => FITypeOK
  <2> SUFFICES ASSUME FIInit PROVE FITypeOK
    OBVIOUS
  <2>1. level \in 0..Size /\ previous_half \in 0..1 /\ 0 \notin irqport /\ came \in 0..Coming
    BY DEF FIInit, Init
  <2>2. /\ missed \in BOOLEAN /\ rd_en \in BOOLEAN /\ available \in BOOLEAN
        /\ reads \in {"none", "status", "word"}
    BY DEF FIInit
  <2> QED BY <2>1, <2>2
<1>2. FITypeOK /\ [FINext]_allvars => FITypeOK'
  <2> SUFFICES ASSUME FITypeOK, [FINext]_allvars PROVE FITypeOK'
    OBVIOUS
  <2>1. CASE FIEdge
    <3>1. half \in 0..1 /\ (0 \in irqport' => half = 1) /\ previous_half' = half
      BY <2>1 DEF FIEdge, Rises, half
    <3>2. missed' \in BOOLEAN
      BY <2>1 DEF FIEdge, Misses
    <3>3. rd_en' \in BOOLEAN
      BY <2>1 DEF FIEdge, Answers
    <3>4. available' \in BOOLEAN /\ reads' = reads
      <4>1. (level > 0) \in BOOLEAN
        OBVIOUS
      <4>2. available' = (level > 0) \/ available' = available
        BY <2>1, Zenon DEF FIEdge, Answers
      <4>3. available \in BOOLEAN
        BY Zenon
      <4>4. available' \in BOOLEAN
        BY <4>1, <4>2, <4>3, Zenon
      <4> QED BY <2>1, <4>4 DEF FIEdge
    <3>5. level' \in 0..Size
      <4>1. PICK word \in 0..1 : Clk(word)
        BY <2>1 DEF FIEdge
      <4> QED BY <4>1 DEF Clk
    <3>6. came' \in 0..Coming
      <4>1. PICK word \in 0..1 : Comes(word)
        BY <2>1 DEF FIEdge
      <4> QED BY <4>1 DEF Comes
    <3> QED BY <3>1, <3>2, <3>3, <3>4, <3>5, <3>6
  <2>2. CASE sxi_interrupt
    <3>1. UNCHANGED <<irqport, level, rd_en, previous_half, available, came, missed>>
      BY <2>2 DEF sxi_interrupt, Handle, hwvars
    <3>2. reads' \in {"none", "status", "word"}
      BY <2>2 DEF sxi_interrupt
    <3> QED BY <3>1, <3>2
  <2>3. CASE StatusDone
    <3>1. UNCHANGED <<irqport, level, rd_en, previous_half, missed>> /\ available' = FALSE
      BY <2>3 DEF StatusDone, HandlerDone, Done, hwvars
    <3>2. came' \in 0..Coming /\ reads' \in {"none", "status", "word"}
      BY <2>3 DEF StatusDone
    <3> QED BY <3>1, <3>2
  <2>4. CASE WordDone
    BY <2>4 DEF WordDone, HandlerDone, Done, hwvars
  <2>5. CASE (ReadBegin \/ HandlerReturns \/ Quiet \/ Admin) /\ UNCHANGED fivars
    <3>1. irqport' = irqport
      BY <2>5 DEF ReadBegin, HandlerReturns, HandlerEnd, Quiet, Admin, BeginAccess, ProbeId,
         ProbeMask, ProbeNext, UnmaskRead, UnmaskWrite, MaskRead, MaskWrite, Demux,
         DemuxMask, Loop, Ack, AckLast, AckGpio, RemoveChained, ProbeStart, Request, Free,
         RemoveChips, Done, hwvars
    <3> QED BY <2>5, <3>1 DEF fivars
  <2>6. CASE UNCHANGED allvars
    BY <2>6 DEF allvars, vars, hwvars, fivars
  <2> QED BY <2>1, <2>2, <2>3, <2>4, <2>5, <2>6
          DEF FINext, FIDriver, ReadBegin, HandlerReturns
<1> QED BY <1>1, <1>2, PTL DEF FISpec
-----------------------------------------------------------------------------
\* The line of the GPIO is up over every request, but for the edge that is lost.
LineUp == irq_pend # {} => gpio = 1 \/ lost

\* An edge leaves irq_pend only for its handler.
OwedPends == \A i \in owed : i \in irq_pend \/ (i = irq /\ pc \in Handling)

LEMMA LineUpNext == IInv /\ LineUp /\ [Next]_vars => LineUp'
<1> SUFFICES ASSUME IInv, LineUp, [Next]_vars PROVE LineUp'
  OBVIOUS
<1> USE DEF LineUp
<1>1. CASE Edge
  BY <1>1 DEF Edge, irq_line
<1>2. CASE AckGpio
  BY <1>2 DEF AckGpio, irq_line, hwvars
<1>3. CASE \/ BeginAccess \/ ProbeId \/ ProbeMask \/ ProbeNext \/ UnmaskRead
           \/ UnmaskWrite \/ MaskRead \/ MaskWrite \/ Demux \/ DemuxMask \/ Loop
           \/ Ack \/ AckLast \/ RemoveChained \/ Handler \/ Admin
  BY <1>3 DEF BeginAccess, ProbeId, ProbeMask, ProbeNext, UnmaskRead, UnmaskWrite,
     MaskRead, MaskWrite, Demux, DemuxMask, Loop, Ack, AckLast, RemoveChained, Handler,
     Handle, HandlerDone, HandlerEnd, Admin, ProbeStart, Request, Free, RemoveChips, Done, hwvars, hvars
<1>4. CASE UNCHANGED vars
  BY <1>4 DEF vars, hwvars, hvars
<1> QED BY <1>1, <1>2, <1>3, <1>4 DEF Next, Driver, Quiet, Handler

LEMMA OwedPendsNext == IInv /\ OwedPends /\ [Next]_vars => OwedPends'
<1> SUFFICES ASSUME IInv, OwedPends, [Next]_vars, NEW i \in owed'
             PROVE  i \in irq_pend' \/ (i = irq' /\ pc' \in Handling)
  BY DEF OwedPends
<1> USE DEF Handling
<1>1. CASE Edge
  <2>1. pc' = pc /\ irq' = irq
    BY <1>1 DEF Edge, drvvars, locals
  <2>2. i \in owed \/ i \in (irq_r \ irq_old) \cap irq_mask
    BY <1>1 DEF Edge
  <2>3. i \in irq_ack => i = irq /\ pc \in {"ack", "last"}
    BY DEF IInv, Acks
  <2> QED BY <1>1, <2>1, <2>2, <2>3 DEF Edge, Latch, OwedPends
<1>2. CASE ProbeNext \/ Handle
  BY <1>2 DEF ProbeNext, Handle, Bit, hwvars, OwedPends
<1>3. CASE Ack \/ AckLast \/ AckGpio \/ BeginAccess \/ HandlerDone \/ HandlerEnd
  BY <1>3 DEF Ack, AckLast, AckGpio, BeginAccess, HandlerDone, HandlerEnd, Done, hwvars,
     hvars, drvvars, locals,
     OwedPends
<1>4. CASE ProbeId \/ ProbeMask \/ UnmaskRead \/ UnmaskWrite \/ MaskRead \/ DemuxMask
  BY <1>4 DEF ProbeId, ProbeMask, UnmaskRead, UnmaskWrite, MaskRead, DemuxMask, Done,
     hwvars, hvars, OwedPends
<1>5. CASE MaskWrite
  BY <1>5 DEF MaskWrite, Done, Bit, hwvars, OwedPends
<1>6. CASE ProbeStart \/ Request \/ Free \/ RemoveChips \/ RemoveChained \/ Demux \/ Loop
  BY <1>6 DEF ProbeStart, Request, Free, RemoveChips, RemoveChained, Demux, Loop, Process,
     hwvars, hvars, locals, OwedPends
<1>7. CASE UNCHANGED vars
  BY <1>7 DEF vars, hwvars, hvars, drvvars, locals, OwedPends
<1> QED BY <1>1, <1>2, <1>3, <1>4, <1>5, <1>6, <1>7 DEF Next, Driver, Quiet, Handler, Admin

(***************************************************************************)
(* An edge that a handler owes a run is pending with the line up, or its   *)
(* acknowledge is under way and its handler next, for any number of        *)
(* sources and any timing of the bus (irq_mngr.vhdl:70, irq_mngr.c:83-88). *)
(* It is the safety half of EventsHandled.                                 *)
(***************************************************************************)
THEOREM IrqNoneForgotten == Spec \/ FISpec => []NoneForgotten
<1>1. Init => LineUp /\ OwedPends
  BY DEF Init, LineUp, OwedPends
<1>2. LineUp /\ OwedPends => NoneForgotten
  BY DEF LineUp, OwedPends, NoneForgotten
<1> QED BY <1>1, <1>2, LineUpNext, OwedPendsNext, Invariant, SpecsAreSafe, PTL DEF Safety
-----------------------------------------------------------------------------
\* A source that is up for one clock at a time shows each edge to the latch.
Separate == irqport \cap irq_r = {}

LEMMA SeparateNext == Separate /\ [Next]_vars => Separate'
<1> SUFFICES ASSUME Separate, [Next]_vars PROVE Separate'
  OBVIOUS
<1>1. CASE Edge
  BY <1>1 DEF Edge, Separate
<1>2. CASE Driver \/ Admin
  BY <1>2 DEF Driver, Quiet, Handler, Admin, BeginAccess, ProbeId, ProbeMask, ProbeNext, UnmaskRead,
     UnmaskWrite, MaskRead, MaskWrite, Demux, DemuxMask, Loop, Ack, AckLast, AckGpio,
     RemoveChained, Handle, HandlerDone, HandlerEnd, ProbeStart, Request, Free, RemoveChips,
     Done, hwvars, Separate
<1>3. CASE UNCHANGED vars
  BY <1>3 DEF vars, hwvars, Separate
<1> QED BY <1>1, <1>2, <1>3 DEF Next

\* The acknowledge of source 0 either has its handler before it, or is counted.
LEMMA AckedForHandler ==
  ASSUME IInv, 0 \in irq_ack, ~AckForNobody
  PROVE  irq = 0 /\ caller = "demux" /\ 0 \in requested /\ pc \in Handling
<1>1. irq = 0 /\ pc \in {"ack", "last"}
  BY DEF IInv, Acks
<1>2. caller # "probe" /\ 0 \in requested
  BY DEF AckForNobody
<1> QED BY <1>1, <1>2 DEF IInv, Callers, Handling

\* sxi_interrupt is at work only in the handler of the demultiplexer.
Running == reads # "none" => pc = "handler"

LEMMA RunningNext == Running /\ [FINext]_allvars => Running'
<1> SUFFICES ASSUME Running, [FINext]_allvars PROVE Running'
  OBVIOUS
<1> USE DEF Running
<1>1. CASE FIEdge
  BY <1>1 DEF FIEdge, Edge, drvvars, locals
<1>2. CASE sxi_interrupt
  BY <1>2 DEF sxi_interrupt, Handle
<1>3. CASE StatusDone \/ WordDone
  BY <1>3 DEF StatusDone, WordDone, HandlerDone, locals
<1>4. CASE ReadBegin
  BY <1>4 DEF ReadBegin, BeginAccess, drvvars, locals, fivars
<1>5. CASE HandlerReturns
  BY <1>5 DEF HandlerReturns, fivars
<1>6. CASE (Quiet \/ Admin) /\ UNCHANGED fivars
  <2>1. pc # "handler" \/ pc' = pc
    BY <1>6 DEF Quiet, Admin, ProbeId, ProbeMask, ProbeNext, UnmaskRead,
       UnmaskWrite, MaskRead, MaskWrite, Demux, DemuxMask, Loop, Ack, AckLast, AckGpio,
       RemoveChained, ProbeStart, Request, Free, RemoveChips, Done, Process
  <2> QED BY <1>6, <2>1 DEF fivars
<1>7. CASE UNCHANGED allvars
  BY <1>7 DEF allvars, vars, drvvars, locals, fivars
<1> QED BY <1>1, <1>2, <1>3, <1>4, <1>5, <1>6, <1>7 DEF FINext, FIDriver

LEMMA HalfFullKnownNext ==
  ASSUME IInv, Separate, Running, FITypeOK, HalfFullKnown, [FINext]_allvars
  PROVE  HalfFullKnown'
<1> SUFFICES ASSUME (level >= Size \div 2)', ~missed' PROVE OnItsWay'
  BY DEF HalfFullKnown
<1> USE SizeAssumption DEF FITypeOK
<1>1. CASE FIEdge
  <2>1. /\ Edge /\ previous_half' = half /\ (Rises <=> 0 \in irqport')
        /\ Answers /\ Misses /\ reads' = reads
    BY <1>1 DEF FIEdge
  <2>2. UNCHANGED <<pc, irq, caller, requested>> /\ irq_r' = irqport /\ irq_old' = irq_r
    BY <2>1 DEF Edge, drvvars, locals
  <2>3. level' \in 0..Size /\ level' <= level + 1
    <3>1. PICK word \in 0..1 : Clk(word)
      BY <1>1 DEF FIEdge
    <3> QED BY <3>1 DEF Clk
  <2>4. CASE level < Size \div 2
    <3>1. level' = Size \div 2 /\ half = 0
      BY <2>3, <2>4 DEF half
    <3>2. half' = 1
      BY <3>1 DEF half
    <3> QED BY <2>1, <3>1, <3>2 DEF Rises, OnItsWay
  <2>5. CASE Pulse /\ level >= Size \div 2
    <3>1. 0 \in irq_mask /\ ~AckForNobody
      BY <2>1, <2>5 DEF Misses
    <3>2. CASE 0 \in irq_ack
      BY <2>2, <3>1, <3>2, AckedForHandler DEF OnItsWay
    <3>3. CASE 0 \notin irq_ack
      BY <2>1, <2>5, <3>1, <3>3 DEF Edge, Latch, Pulse, OnItsWay
    <3> QED BY <3>2, <3>3
  <2>6. CASE ~Pulse /\ level >= Size \div 2
    <3>1. ~missed /\ (0 \in irq_pend => ~AckForNobody) /\ OnItsWay
      BY <2>1, <2>6 DEF Misses, HalfFullKnown
    <3>2. CASE Rises
      BY <2>1, <3>2 DEF OnItsWay
    <3>3. CASE 0 \in irqport
      BY <2>2, <3>3 DEF Separate, Pulse, OnItsWay
    <3>4. CASE 0 \in irq_pend
      <4>1. CASE 0 \in irq_ack
        BY <2>2, <3>1, <3>4, <4>1, AckedForHandler DEF OnItsWay
      <4>2. CASE 0 \notin irq_ack
        BY <2>1, <3>4, <4>2 DEF Edge, Latch, OnItsWay
      <4> QED BY <4>1, <4>2
    <3>5. CASE irq = 0 /\ caller = "demux" /\ 0 \in requested /\ pc \in Handling
      BY <2>2, <3>5 DEF OnItsWay
    <3>6. CASE Draining
      <4>1. CASE reads = "word"
        BY <2>1, <4>1 DEF OnItsWay, Draining
      <4>2. CASE reads = "status" /\ bus.op = "none"
        BY <2>1, <4>2 DEF Edge, OnItsWay, Draining
      <4>3. CASE reads = "status" /\ bus.op # "none"
        <5>1. pc = "handler"
          BY <4>3 DEF Running
        <5>2. bus.op = "other"
          BY <4>3, <5>1, AccessIs DEF IInv, OnBus, Idle, Other
        <5>3. level > 0
          BY <2>6
        <5>4. available' = (level > 0)
          BY <2>1, <4>3, <5>2, Zenon DEF Answers
        <5>5. available'
          BY <5>3, <5>4, Zenon
        <5> QED BY <2>1, <4>3, <5>5 DEF OnItsWay, Draining
      <4> QED BY <3>6, <4>1, <4>2, <4>3 DEF Draining
    <3> QED BY <2>6, <3>1, <3>2, <3>3, <3>4, <3>5, <3>6 DEF OnItsWay
  <2> QED BY <2>3, <2>4, <2>5, <2>6
<1>2. CASE sxi_interrupt
  <2>1. /\ Handle /\ UNCHANGED <<level, previous_half, missed>>
        /\ reads' = (IF irq = 0 /\ irq \in requested THEN "status" ELSE "none")
    BY <1>2 DEF sxi_interrupt
  <2>2. OnItsWay
    BY <2>1 DEF HalfFullKnown
  <2>3. UNCHANGED <<irqport, irq_r, irq_old, irq_pend, bus, beats>> /\ pc = "acked"
    BY <2>1 DEF Handle, hwvars, busvars
  <2>4. CASE irq = 0 /\ 0 \in requested
    <3>1. reads' = "status" /\ bus'.op = "none"
      BY <2>1, <2>3, <2>4, BusIdle DEF IInv, Idle
    <3> QED BY <3>1 DEF OnItsWay, Draining
  <2>5. CASE ~(irq = 0 /\ 0 \in requested)
    <3>1. ~Draining
      BY <2>3 DEF Running, Draining
    <3> QED BY <2>1, <2>2, <2>3, <2>5, <3>1 DEF OnItsWay, Rises, half, Pulse
  <2> QED BY <2>4, <2>5
<1>3. CASE StatusDone \/ WordDone
  <2>1. UNCHANGED <<level, previous_half, missed, irqport, irq_r, irq_old, irq_pend>>
    BY <1>3 DEF StatusDone, WordDone, HandlerDone, Done, hwvars
  <2>2. OnItsWay /\ pc = "handler"
    BY <1>3, <2>1 DEF HalfFullKnown, StatusDone, WordDone, HandlerDone, Done
  <2>3. Draining => Draining'
    <3>1. CASE StatusDone
      <4>1. bus.op # "none" /\ beats # 0 /\ reads = "status"
        BY <3>1 DEF StatusDone, HandlerDone, Done, IInv, TypeOK
      <4> QED BY <3>1, <4>1 DEF StatusDone, Draining
    <3>2. CASE WordDone
      <4>1. reads' = "status" /\ bus'.op = "none"
        BY <3>2 DEF WordDone, HandlerDone, Done, Idle
      <4> QED BY <4>1 DEF Draining
    <3> QED BY <1>3, <3>1, <3>2
  <2> QED BY <2>1, <2>2, <2>3 DEF OnItsWay, Rises, half, Pulse, Handling
<1>4. CASE ReadBegin
  <2>1. UNCHANGED <<level, previous_half, missed, reads, available, irqport, irq_r, irq_old,
                    irq_pend, irq, caller, requested, pc, beats>>
    BY <1>4 DEF ReadBegin, BeginAccess, hwvars, drvvars, locals, fivars
  <2>2. OnItsWay
    BY <2>1 DEF HalfFullKnown
  <2>3. beats = 0
    BY <1>4 DEF ReadBegin, BeginAccess, IInv, OnBus, Idle
  <2>4. Draining => Draining'
    BY <2>1, <2>3 DEF Draining
  <2> QED BY <2>1, <2>2, <2>4 DEF OnItsWay, Rises, half, Pulse
<1>5. CASE (HandlerReturns \/ Quiet \/ Admin) /\ UNCHANGED fivars
  <2>1. UNCHANGED <<level, previous_half, missed, reads>> /\ OnItsWay
    BY <1>5 DEF fivars, HalfFullKnown
  <2>2. UNCHANGED <<irqport, irq_r, irq_old, irq_pend>>
    BY <1>5 DEF HandlerReturns, HandlerEnd, Quiet, Admin, BeginAccess, ProbeId, ProbeMask,
       ProbeNext, UnmaskRead, UnmaskWrite, MaskRead, MaskWrite, Demux, DemuxMask, Loop, Ack,
       AckLast, AckGpio, RemoveChained, ProbeStart, Request, Free, RemoveChips, Done, hwvars
  <2>3. ASSUME irq = 0, caller = "demux", 0 \in requested, pc \in Handling
        PROVE  irq' = 0 /\ caller' = "demux" /\ 0 \in requested' /\ pc' \in Handling
    BY <1>5, <2>3 DEF Handling, HandlerReturns, HandlerEnd, Quiet, Admin, BeginAccess,
       ProbeId, ProbeMask, ProbeNext, UnmaskRead, UnmaskWrite, MaskRead, MaskWrite, Demux,
       DemuxMask, Loop, Ack, AckLast, AckGpio, RemoveChained, ProbeStart, Request, Free,
       RemoveChips, Done, Process, drvvars, locals
  <2>4. ~Draining
    <3>1. reads = "none" \/ pc # "handler"
      BY <1>5 DEF HandlerReturns, Quiet, Admin, ProbeId, ProbeMask, ProbeNext, UnmaskRead,
         UnmaskWrite, MaskRead, MaskWrite, Demux, DemuxMask, Loop, Ack, AckLast, AckGpio,
         RemoveChained, ProbeStart, Request, Free, RemoveChips, Done, Process
    <3> QED BY <3>1 DEF Running, Draining
  <2> QED BY <2>1, <2>2, <2>3, <2>4 DEF OnItsWay, Rises, half, Pulse
<1>6. CASE UNCHANGED allvars
  BY <1>6 DEF allvars, vars, hwvars, busvars, drvvars, locals, fivars, HalfFullKnown,
     OnItsWay, Draining, Rises, half, Pulse
<1> QED BY <1>1, <1>2, <1>3, <1>4, <1>5, <1>6 DEF FINext, FIDriver, ReadBegin, HandlerReturns

(***************************************************************************)
(* For a FIFO of any size and any number of words that come while the      *)
(* handler reads: while the FIFO is half full its pulse is on its way to   *)
(* the handler, or the handler still reads and has seen no empty FIFO,     *)
(* unless the pulse was missed (wb_fifo.vhdl:74,                           *)
(* sxi_sim_driver.c:225-226).  It is the safety half of HalfFullServed.    *)
(***************************************************************************)
THEOREM FifoIrqHalfFullKnown == FISpec => []HalfFullKnown
<1>1. FIInit => Separate /\ Running /\ HalfFullKnown
  <2> SUFFICES ASSUME FIInit PROVE Separate /\ Running /\ HalfFullKnown
    OBVIOUS
  <2>1. irqport = {} /\ level = 0 /\ reads = "none"
    BY DEF FIInit, Init
  <2>2. ~(0 >= Size \div 2)
    BY SizeAssumption
  <2> QED BY <2>1, <2>2 DEF Separate, Running, HalfFullKnown
<1>2. [FINext]_allvars => [Next]_vars
  BY DEF FINext, FIEdge, FIDriver, sxi_interrupt, ReadBegin, StatusDone, WordDone,
     HandlerReturns, Next, Driver, Quiet, Handler, allvars
<1>3. Separate /\ [FINext]_allvars => Separate'
  BY <1>2, SeparateNext
<1>4. FISpec => []IInv
  BY Invariant, SpecsAreSafe, PTL
<1> QED BY <1>1, <1>3, <1>4, RunningNext, HalfFullKnownNext, FifoIrqTypeCorrect, PTL DEF FISpec
=============================================================================
