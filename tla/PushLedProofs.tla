--------------------------- MODULE PushLedProofs ---------------------------
(***************************************************************************)
(* Theorems about PushLed, for every set of users and writers and every    *)
(* number of changes.  To the driver core, what the users do is an open, a *)
(* close or nothing, so every behaviour of PushLed is one of PlatDriver    *)
(* and its invariant holds here too.  On top of it: an open file keeps the *)
(* structure it reads through (Files), the semaphore counts changes        *)
(* (Latched), a place in a read belongs to one open file (Places), and the *)
(* LED that nobody is going to write shows the last change (Shown).        *)
(***************************************************************************)
EXTENDS PushLed, PlatDriverProofs

\* An open file has its structure, and a probe it meets has come to its cdev.
Files ==
  /\ \A u \in Users : file[u] = "open" => "sdev" \in held
  /\ pc = "probe" /\ (\E u \in Users : file[u] = "open")
       => "cdev" \in Before(Probe[driver], step)

\* Each up of the semaphore, and the latch, stand for a change of their own.
Latched ==
  /\ changes \in 0..MaxChanges /\ sem \in Nat
  /\ sem <= changes /\ (pend => sem + 1 <= changes)
  /\ pend => "irq" \in held

\* Who is in a read has the file open, and is alone unless two overlapped.
Places ==
  /\ at \in [Users -> {"user", "down", "copy", "out", "failed", "exit", "write"}]
  /\ \A u \in Users : at[u] # "user" => IsButton /\ file[u] # "closed"
  /\ \A u \in Users : at[u] = "write" => u \in Writers
  /\ ~overlap => \A u, v \in Users : at[u] # "user" /\ at[v] # "user" => u = v

Bits ==
  /\ read_in_wait \in 0..1 /\ reg \in 0..1 /\ value \in [Users -> 0..1]

Flags == pend \in BOOLEAN /\ overlap \in BOOLEAN /\ missed \in BOOLEAN

\* Somebody is going to write the LED, or to end.
Busy(u) == at[u] \in {"copy", "failed", "exit", "out", "write"}

Settled ==
  /\ \A u \in Users : at[u] \in {"out", "write"} => value[u] = button
  /\ reg = button \/ \E u \in Users : Busy(u)

\* The last change is on its way, or the LED shows it.
Shown ==
  IsButton /\ ~overlap /\ ~missed =>
    /\ \A u \in Users : at[u] = "out" => u \in Writers
    /\ pend \/ sem > 0 \/ Settled

PLInv ==
  IInv /\ Files /\ Latched /\ Places /\ Bits /\ Flags /\ SleeperHasFlag /\ Shown

\* What the users, the button and its interrupt do when no file is opened or
\* closed.
ReadStep ==
  \/ Press \/ Interrupt
  \/ \E u \in Users : \/ ReadCall(u) \/ Down(u) \/ Copy(u) \/ Out(u) \/ WriteLed(u)
                      \/ Signal(u) \/ led_read(u) \/ led_write(u)
-----------------------------------------------------------------------------
(* Every step of PushLed is a step of PlatDriver or none.                   *)
LEMMA StepMaps == [PLNext]_vars => [Next]_drvars
<1> SUFFICES ASSUME [PLNext]_vars PROVE [Next]_drvars
  OBVIOUS
<1>1. CASE Life
  BY <1>1 DEF Life, Next
<1>2. CASE PowerUp
  BY <1>2 DEF PowerUp, Next
<1>3. CASE ReadStep
  BY <1>3 DEF ReadStep, Press, Interrupt, button_interrupt, fpga_interrupt, ReadCall,
     Down, Copy, Out, WriteLed, Signal, led_read, led_write
<1>4. ASSUME NEW u \in Users, UserOpens(u) \/ UserCloses(u) \/ Exit(u) \/ Killed(u)
      PROVE  Next
  BY <1>4 DEF UserOpens, UserCloses, Exit, Killed, End, Next
<1>5. CASE UNCHANGED vars
  BY <1>5 DEF vars
<1> QED BY <1>1, <1>2, <1>3, <1>4, <1>5 DEF PLNext, ReadStep, Reads

(***************************************************************************)
(* The users run inside the life of the driver: whatever they do, the      *)
(* driver core takes the steps of PlatDriver and no other.                 *)
(***************************************************************************)
THEOREM PushLedImplementsPlatDriver == PLSpec => Spec
<1>1. PLInit => Init
  BY DEF PLInit
<1> QED BY <1>1, StepMaps, PTL DEF PLSpec, Spec

(* Nobody has opened anything at first.                                     *)
LEMMA InitPLInv == PLInit => PLInv
<1> SUFFICES ASSUME PLInit PROVE PLInv
  OBVIOUS
<1>1. IInv
  BY InitIInv DEF PLInit
<1>2. Files /\ SleeperHasFlag /\ Shown
  BY DEF PLInit, Init, Files, SleeperHasFlag, Shown
<1>3. Latched
  BY PushLedAssumption DEF PLInit, Latched
<1>4. Places
  BY DEF PLInit, Places
<1>5. Bits
  BY DEF PLInit, Bits
<1>6. Flags
  BY DEF PLInit, Flags
<1> QED BY <1>1, <1>2, <1>3, <1>4, <1>5, <1>6 DEF PLInv

(* The structure is freed under no file that stays open.                    *)
LEMMA FilesNext == PLInv /\ [PLNext]_vars => Files'
<1> SUFFICES ASSUME IInv, Files, [Next]_drvars PROVE Files'
  BY StepMaps DEF PLInv
<1> USE DEF Files
<1>1. CASE Insmod \/ InsmodBoard
  <2>1. ~bound /\ pc = "idle"
    BY <1>1 DEF Insmod, InsmodBoard, Idle, IInv, Bindings
  <2>2. "sdev" \notin held
    BY <2>1 DEF IInv, Covered, Left
  <2> QED BY <1>1, <2>2 DEF Insmod, InsmodBoard
<1>2. CASE Suspend \/ Resume \/ Rmmod \/ RmmodBoard
  BY <1>2 DEF Suspend, Resume, Rmmod, RmmodBoard, Idle
<1>3. CASE ProbeTakes \/ ProbeGoesOn
  <2>1. Before(Probe[driver], step) \subseteq Before(Probe[driver], step + 1)
    BY <1>3, StepFacts DEF ProbeTakes, ProbeGoesOn, IInv
  <2> QED BY <1>3, <2>1 DEF ProbeTakes, ProbeGoesOn, Advance
<1>4. CASE ProbeFails \/ ProbeOops \/ ErrorReturns \/ RemoveReturns
  BY <1>4 DEF ProbeFails, ProbeOops, ErrorReturns, RemoveReturns
<1>5. CASE Reboot
  BY <1>5 DEF Reboot
<1>6. CASE Release
  BY <1>6 DEF Release, IInv, TypeOK
<1>7. ASSUME NEW u \in Users, Open(u) PROVE Files'
  <2>1. "cdev" \in held /\ "sdev" \in held
    BY <1>7 DEF Open, IInv, Ready, UserNeeds
  <2>2. pc = "probe" => "cdev" \in Before(Probe[driver], step)
    BY <2>1 DEF IInv, Covered, Left
  <2> QED BY <1>7, <2>1, <2>2 DEF Open
<1>8. ASSUME NEW u \in Users, Close(u) PROVE Files'
  BY <1>8 DEF Close, IInv, TypeOK
<1>9. CASE UNCHANGED drvars
  BY <1>9 DEF drvars
<1> QED BY <1>1, <1>2, <1>3, <1>4, <1>5, <1>6, <1>7, <1>8, <1>9 DEF Next, Core, Admin

(* Unloading the driver drops what is latched; a reboot clears it.          *)
LEMMA LatchedNext == PLInv /\ [PLNext]_vars => Latched'
<1> SUFFICES ASSUME PLInv, [PLNext]_vars PROVE Latched'
  OBVIOUS
<1> USE DEF PLInv, Latched
<1>1. CASE Life
  <2>1. changes' = changes /\ (sem' = 0 \/ sem' = sem)
    BY <1>1 DEF Life
  <2>2. pend' => pend /\ "irq" \in held'
    BY <1>1 DEF Life
  <2> QED BY <2>1, <2>2
<1>2. CASE PowerUp
  BY <1>2 DEF PowerUp
<1>3. CASE Press
  <2>1. changes' = changes + 1 /\ changes + 1 \in 0..MaxChanges /\ sem' = sem
    BY <1>3, PushLedAssumption DEF Press
  <2>2. pend' => "irq" \in held'
    BY <1>3 DEF Press, drvars
  <2> QED BY <2>1, <2>2
<1>4. CASE Interrupt
  BY <1>4 DEF Interrupt, button_interrupt, fpga_interrupt, drvars
<1>5. ASSUME NEW u \in Users, Down(u) PROVE Latched'
  BY <1>5 DEF Down, drvars
<1>6. ASSUME NEW u \in Users,
             \/ ReadCall(u) \/ Copy(u) \/ Out(u) \/ WriteLed(u)
             \/ Signal(u) \/ led_read(u) \/ led_write(u)
      PROVE  Latched'
  BY <1>6 DEF ReadCall, Copy, Out, WriteLed, Signal, led_read, led_write, drvars, btnvars
<1>7. ASSUME NEW u \in Users, UserOpens(u) \/ UserCloses(u) \/ Exit(u) \/ Killed(u)
      PROVE  Latched'
  BY <1>7 DEF UserOpens, UserCloses, Exit, Killed, End, Open, Close, opvars, btnvars
<1>8. CASE UNCHANGED vars
  BY <1>8 DEF vars, drvars, opvars, btnvars
<1> QED BY <1>1, <1>2, <1>3, <1>4, <1>5, <1>6, <1>7, <1>8 DEF PLNext, Reads

(* The flag, the LED and what is read are bits.                             *)
LEMMA BitsNext == PLInv /\ [PLNext]_vars => Bits'
<1> SUFFICES ASSUME PLInv, [PLNext]_vars PROVE Bits'
  OBVIOUS
<1> USE DEF PLInv, Bits
<1>1. CASE Life
  BY <1>1 DEF Life
<1>2. CASE PowerUp
  BY <1>2 DEF PowerUp
<1>3. CASE Press
  BY <1>3 DEF Press, uservars
<1>4. CASE Interrupt
  BY <1>4 DEF Interrupt, button_interrupt, fpga_interrupt, uservars
<1>5. ASSUME NEW u \in Users, ReadCall(u) \/ Down(u) \/ Out(u) \/ Signal(u) PROVE Bits'
  BY <1>5 DEF ReadCall, Down, Out, Signal, btnvars, hvars
<1>6. ASSUME NEW u \in Users, Copy(u) PROVE Bits'
  BY <1>6 DEF Copy, button, btnvars, Latched
<1>7. ASSUME NEW u \in Users, WriteLed(u) \/ led_read(u) \/ led_write(u) PROVE Bits'
  BY <1>7 DEF WriteLed, led_read, led_write, btnvars, hvars
<1>8. ASSUME NEW u \in Users, UserOpens(u) \/ UserCloses(u) \/ Exit(u) \/ Killed(u)
      PROVE  Bits'
  BY <1>8 DEF UserOpens, UserCloses, Exit, Killed, End, opvars, btnvars, uservars, hvars
<1>9. CASE UNCHANGED vars
  BY <1>9 DEF vars, opvars, btnvars, uservars, hvars
<1> QED BY <1>1, <1>2, <1>3, <1>4, <1>5, <1>6, <1>7, <1>8, <1>9 DEF PLNext, Reads

(* The latch and the histories are truth values.                            *)
LEMMA FlagsNext == PLInv /\ [PLNext]_vars => Flags'
<1> SUFFICES ASSUME PLInv, [PLNext]_vars PROVE Flags'
  OBVIOUS
<1> USE DEF PLInv, Flags
<1>1. CASE Life
  BY <1>1 DEF Life
<1>2. CASE PowerUp
  BY <1>2 DEF PowerUp
<1>3. CASE Press
  BY <1>3 DEF Press
<1>4. CASE Interrupt
  BY <1>4 DEF Interrupt, button_interrupt, fpga_interrupt
<1>5. ASSUME NEW u \in Users, ReadCall(u) \/ Down(u) \/ Out(u) \/ Signal(u) PROVE Flags'
  BY <1>5 DEF ReadCall, Down, Out, Signal, btnvars, hvars
<1>6. ASSUME NEW u \in Users, Copy(u) PROVE Flags'
  BY <1>6 DEF Copy, btnvars
<1>7. ASSUME NEW u \in Users, WriteLed(u) \/ led_read(u) \/ led_write(u) PROVE Flags'
  BY <1>7 DEF WriteLed, led_read, led_write, btnvars, hvars
<1>8. ASSUME NEW u \in Users, UserOpens(u) \/ UserCloses(u) \/ Exit(u) \/ Killed(u)
      PROVE  Flags'
  BY <1>8 DEF UserOpens, UserCloses, Exit, Killed, End, opvars, btnvars, hvars
<1>9. CASE UNCHANGED vars
  BY <1>9 DEF vars, opvars, btnvars, hvars
<1> QED BY <1>1, <1>2, <1>3, <1>4, <1>5, <1>6, <1>7, <1>8, <1>9 DEF PLNext, Reads

(* No step of the driver core closes a file or moves a user.                *)
LEMMA LifeKeepsFiles ==
  ASSUME PLInv, Life
  PROVE  /\ driver' = driver
         /\ \A u \in Users : file'[u] = "open" => file[u] = "open"
         /\ \A u \in Users : file[u] # "closed" => file'[u] # "closed"
<1>1. CASE Release
  BY <1>1 DEF Release, PLInv, IInv, TypeOK
<1>2. CASE ~Release
  BY <1>2 DEF Life, Core, Admin, ProbeTakes, ProbeGoesOn, ProbeFails, ProbeOops,
     ErrorReturns, RemoveReturns, Insmod, InsmodBoard, Rmmod, RmmodBoard, Suspend, Resume
<1> QED BY <1>1, <1>2

(* A place in a read needs an open file, and two of them an overlap.        *)
LEMMA PlacesNext == PLInv /\ [PLNext]_vars => Places'
<1> SUFFICES ASSUME PLInv, [PLNext]_vars PROVE Places'
  OBVIOUS
<1> USE DEF PLInv, Places, IsButton
<1>1. CASE Life
  BY <1>1, LifeKeepsFiles DEF Life
<1>2. CASE PowerUp
  BY <1>2 DEF PowerUp
<1>3. CASE Press \/ Interrupt
  BY <1>3 DEF Press, Interrupt, button_interrupt, fpga_interrupt, drvars, uservars
<1>4. ASSUME NEW u \in Users, ReadCall(u) PROVE Places'
  BY <1>4 DEF ReadCall, Goto, drvars
<1>5. ASSUME NEW u \in Users, Down(u) \/ Signal(u) PROVE Places'
  BY <1>5 DEF Down, Signal, Goto, drvars, hvars
<1>6. ASSUME NEW u \in Users, Copy(u) \/ WriteLed(u) PROVE Places'
  BY <1>6 DEF Copy, WriteLed, Goto, drvars, hvars
<1>7. ASSUME NEW u \in Users, Out(u) PROVE Places'
  BY <1>7 DEF Out, Goto, drvars, hvars
<1>8. ASSUME NEW u \in Users, led_read(u) \/ led_write(u) PROVE Places'
  BY <1>8 DEF led_read, led_write, drvars, hvars
<1>9. ASSUME NEW u \in Users, UserOpens(u) \/ UserCloses(u) PROVE Places'
  BY <1>9 DEF UserOpens, UserCloses, Open, Close, opvars, uservars, hvars, IInv, TypeOK
<1>10. ASSUME NEW u \in Users, Exit(u) \/ Killed(u) PROVE Places'
  BY <1>10 DEF Exit, Killed, End, Close, Goto, IInv, TypeOK
<1>11. CASE UNCHANGED vars
  BY <1>11 DEF vars, drvars, opvars, uservars, hvars
<1> QED BY <1>1, <1>2, <1>3, <1>4, <1>5, <1>6, <1>7, <1>8, <1>9, <1>10, <1>11
        DEF PLNext, Reads

(* The flag goes down in the read that raised it, or before anybody opens.  *)
LEMMA SleeperNext == PLInv /\ [PLNext]_vars => SleeperHasFlag'
<1> SUFFICES ASSUME PLInv, [PLNext]_vars PROVE SleeperHasFlag'
  OBVIOUS
<1>0. Life => \A u \in Users : file'[u] = "open" => file[u] = "open"
  BY LifeKeepsFiles
<1> USE DEF PLInv, SleeperHasFlag, Places
<1>1. CASE Life
  <2>0. at' = at /\ overlap' = overlap
    BY <1>1 DEF Life
  <2>1. CASE pc = "probe" /\ Now.takes = "sem"
    <3>1. "cdev" \notin Before(Probe[driver], step)
      BY <2>1, StepFacts DEF StepOK, Now, IInv
    <3>2. \A u \in Users : file[u] # "open"
      BY <2>1, <3>1 DEF Files
    <3> QED BY <1>0, <1>1, <3>2
  <2>2. CASE ~(pc = "probe" /\ Now.takes = "sem")
    <3>1. read_in_wait' = read_in_wait
      BY <1>1, <2>2 DEF Life
    <3> QED BY <1>0, <1>1, <2>0, <3>1
  <2> QED BY <2>1, <2>2
<1>2. CASE PowerUp
  BY <1>2 DEF PowerUp
<1>3. CASE Press \/ Interrupt
  BY <1>3 DEF Press, Interrupt, button_interrupt, fpga_interrupt, drvars, uservars
<1>4. ASSUME NEW u \in Users, ReadCall(u) PROVE SleeperHasFlag'
  BY <1>4 DEF ReadCall
<1>5. ASSUME NEW u \in Users, Down(u) \/ Signal(u) \/ Copy(u) \/ WriteLed(u)
      PROVE  SleeperHasFlag'
  BY <1>5 DEF Down, Signal, Copy, WriteLed, Goto, drvars, btnvars, hvars
<1>6. ASSUME NEW u \in Users, Out(u) PROVE SleeperHasFlag'
  BY <1>6 DEF Out, Goto, drvars, hvars
<1>7. ASSUME NEW u \in Users, led_read(u) \/ led_write(u) PROVE SleeperHasFlag'
  BY <1>7 DEF led_read, led_write, drvars, btnvars, hvars
<1>8. ASSUME NEW u \in Users, UserOpens(u) \/ UserCloses(u) PROVE SleeperHasFlag'
  BY <1>8 DEF UserOpens, UserCloses, Open, Close, opvars, btnvars, uservars, hvars, IInv, TypeOK
<1>9. ASSUME NEW u \in Users, Exit(u) \/ Killed(u) PROVE SleeperHasFlag'
  BY <1>9 DEF Exit, Killed, End, Close, Goto, btnvars, IInv, TypeOK
<1>10. CASE UNCHANGED vars
  BY <1>10 DEF vars, drvars, opvars, btnvars, uservars, hvars
<1> QED BY <1>1, <1>2, <1>3, <1>4, <1>5, <1>6, <1>7, <1>8, <1>9, <1>10
        DEF PLNext, Reads

(* A change is latched, counted or read, or it is missed.                   *)
LEMMA ShownNext == PLInv /\ [PLNext]_vars => Shown'
<1> SUFFICES ASSUME PLInv, [PLNext]_vars, IsButton', ~overlap', ~missed'
             PROVE  /\ \A u \in Users : at'[u] = "out" => u \in Writers
                    /\ pend' \/ sem' > 0 \/ Settled'
  BY DEF Shown
<1>0. driver' = driver /\ IsButton
  <2>1. [Next]_drvars
    BY StepMaps
  <2> QED BY <2>1 DEF IsButton, Next, Core, Admin, ProbeTakes, ProbeGoesOn, ProbeFails,
          ProbeOops, Release, ErrorReturns, RemoveReturns, Insmod, InsmodBoard, Rmmod,
          RmmodBoard, Suspend, Resume, Reboot, Open, Close, drvars
<1> USE DEF PLInv, Places, Busy
<1>1. CASE Life
  <2>1. pend' = pend /\ sem' = sem /\ ~missed /\ ~overlap
    BY <1>1 DEF Life
  <2>2. reg' = reg
    <3>1. ~(pc = "probe" /\ Now.takes = "value")
      BY <1>0, StepFacts DEF StepOK, Now, IInv, IsButton
    <3> QED BY <1>1, <3>1 DEF Life
  <2>3. at' = at /\ value' = value /\ button' = button
    BY <1>1 DEF Life, button
  <2> QED BY <1>0, <2>1, <2>2, <2>3 DEF Shown, Settled
<1>2. CASE PowerUp
  BY <1>2 DEF PowerUp
<1>3. CASE Press
  <2>1. pend' /\ ~missed /\ ~overlap /\ at' = at
    BY <1>3 DEF Press, uservars
  <2> QED BY <1>0, <2>1 DEF Shown
<1>4. CASE Interrupt
  <2>0. ~missed /\ read_in_wait # 0
    BY <1>4 DEF Interrupt, button_interrupt, fpga_interrupt
  <2>1. ~overlap /\ at' = at
    BY <1>4 DEF Interrupt, button_interrupt, fpga_interrupt, uservars
  <2>2. read_in_wait = 1 /\ sem \in Nat
    BY <2>0 DEF Bits, Latched
  <2>3. sem' = sem + 1
    BY <1>4, <2>2 DEF Interrupt, button_interrupt, fpga_interrupt
  <2> QED BY <1>0, <2>0, <2>1, <2>2, <2>3 DEF Shown
<1>5. ASSUME NEW u \in Users, ReadCall(u)
      PROVE  /\ \A v \in Users : at'[v] = "out" => v \in Writers
             /\ pend' \/ sem' > 0 \/ Settled'
  <2>1. ~missed /\ ~overlap /\ pend' = pend /\ sem' = sem /\ button' = button
        /\ value' = value /\ reg' = reg /\ at[u] = "user" /\ at' = [at EXCEPT ![u] = "down"]
    BY <1>5 DEF ReadCall, Goto, button
  <2> QED BY <1>0, <2>1 DEF Shown, Settled
<1>6. ASSUME NEW u \in Users, Signal(u)
      PROVE  /\ \A v \in Users : at'[v] = "out" => v \in Writers
             /\ pend' \/ sem' > 0 \/ Settled'
  <2>1. ~missed /\ ~overlap /\ pend' = pend /\ sem' = sem /\ button' = button
        /\ value' = value /\ reg' = reg /\ at[u] = "down" /\ at' = [at EXCEPT ![u] = "failed"]
    BY <1>6 DEF Signal, Goto, button, btnvars, hvars
  <2> QED BY <1>0, <2>1 DEF Shown, Settled
<1>7. ASSUME NEW u \in Users, Down(u)
      PROVE  /\ \A v \in Users : at'[v] = "out" => v \in Writers
             /\ pend' \/ sem' > 0 \/ Settled'
  <2>1. ~missed /\ ~overlap /\ at[u] = "down" /\ at' = [at EXCEPT ![u] = "copy"]
    BY <1>7 DEF Down, Goto, hvars
  <2> QED BY <1>0, <2>1 DEF Shown, Settled
<1>8. ASSUME NEW u \in Users, Copy(u)
      PROVE  /\ \A v \in Users : at'[v] = "out" => v \in Writers
             /\ pend' \/ sem' > 0 \/ Settled'
  <2>1. /\ ~overlap /\ button' = button /\ at[u] = "copy"
        /\ \A v \in Users : v # u => at[v] = "user"
    BY <1>8 DEF Copy, button, btnvars
  <2>2. CASE /\ at' = [at EXCEPT ![u] = "out"] /\ u \in Writers
             /\ value' = [value EXCEPT ![u] = button]
    BY <2>1, <2>2 DEF Settled, Bits
  <2>3. CASE at' = [at EXCEPT ![u] = "failed"]
    BY <2>1, <2>3 DEF Settled
  <2> QED BY <1>8, <2>2, <2>3 DEF Copy, Goto
<1>9. ASSUME NEW u \in Users, Out(u)
      PROVE  /\ \A v \in Users : at'[v] = "out" => v \in Writers
             /\ pend' \/ sem' > 0 \/ Settled'
  <2>1. /\ ~missed /\ ~overlap /\ pend' = pend /\ sem' = sem /\ button' = button
        /\ value' = value /\ reg' = reg
        /\ \A v \in Users : v # u => at[v] = "user"
    BY <1>9 DEF Out, button, hvars
  <2>2. CASE at[u] = "failed" /\ at' = [at EXCEPT ![u] = "exit"]
    BY <2>1, <2>2 DEF Settled
  <2>3. CASE at[u] = "out" /\ at' = [at EXCEPT ![u] = "write"]
    BY <1>0, <2>1, <2>3 DEF Shown, Settled
  <2>4. at[u] = "out" => u \in Writers
    BY <1>0, <2>1 DEF Shown
  <2> QED BY <1>9, <2>2, <2>3, <2>4 DEF Out, Goto
<1>10. ASSUME NEW u \in Users, WriteLed(u)
       PROVE  /\ \A v \in Users : at'[v] = "out" => v \in Writers
              /\ pend' \/ sem' > 0 \/ Settled'
  <2>1. /\ ~missed /\ ~overlap /\ pend' = pend /\ sem' = sem /\ button' = button
        /\ value' = value /\ at[u] = "write"
        /\ \A v \in Users : v # u => at[v] = "user"
    BY <1>10 DEF WriteLed, button, btnvars, hvars
  <2>2. CASE reg' = value[u] /\ at' = [at EXCEPT ![u] = "user"]
    BY <1>0, <2>1, <2>2 DEF Shown, Settled
  <2>3. CASE at' = [at EXCEPT ![u] = "exit"]
    BY <2>1, <2>3 DEF Settled
  <2> QED BY <1>10, <2>2, <2>3 DEF WriteLed, Goto
<1>11. ASSUME NEW u \in Users, led_read(u) \/ led_write(u) PROVE FALSE
  BY <1>0, <1>11 DEF led_read, led_write, IsButton
<1>12. ASSUME NEW u \in Users, UserOpens(u) \/ UserCloses(u)
       PROVE  /\ \A v \in Users : at'[v] = "out" => v \in Writers
              /\ pend' \/ sem' > 0 \/ Settled'
  <2>1. ~missed /\ ~overlap /\ pend' = pend /\ sem' = sem /\ button' = button
        /\ value' = value /\ reg' = reg /\ at' = at
    BY <1>12 DEF UserOpens, UserCloses, button, opvars, btnvars, uservars, hvars
  <2> QED BY <1>0, <2>1 DEF Shown, Settled
<1>13. ASSUME NEW u \in Users, Exit(u) \/ Killed(u) PROVE FALSE
  BY <1>13 DEF Exit, Killed, End
<1>14. CASE UNCHANGED vars
  <2>1. ~missed /\ ~overlap /\ pend' = pend /\ sem' = sem /\ button' = button
        /\ value' = value /\ reg' = reg /\ at' = at
    BY <1>14 DEF button, vars, opvars, btnvars, uservars, hvars
  <2> QED BY <1>0, <2>1 DEF Shown, Settled
<1> QED BY <1>1, <1>2, <1>3, <1>4, <1>5, <1>6, <1>7, <1>8, <1>9, <1>10, <1>11,
           <1>12, <1>13, <1>14 DEF PLNext, Reads

(***************************************************************************)
(* Every behaviour of the users keeps the whole conjunction.               *)
(***************************************************************************)
THEOREM PushLedInvariant == PLSpec => []PLInv
<1>1. IInv /\ [Next]_drvars => IInv'
  BY TypeNext, BindingsNext, CoveredNext, OwnedNext, ReadyNext, LeavingNext DEF IInv
<1>2. PLInv /\ [PLNext]_vars => PLInv'
  <2> SUFFICES ASSUME PLInv, [PLNext]_vars PROVE PLInv'
    OBVIOUS
  <2>1. IInv'
    BY <1>1, StepMaps DEF PLInv
  <2> QED BY <2>1, FilesNext, LatchedNext, PlacesNext, BitsNext, FlagsNext,
             SleeperNext, ShownNext DEF PLInv
<1> QED BY InitPLInv, <1>2, PTL DEF PLSpec

(***************************************************************************)
(* The semaphore never counts more changes than there were, and a latched  *)
(* interrupt has a driver that requested it.                               *)
(***************************************************************************)
THEOREM PushLedTypeCorrect == PLSpec => []PLTypeOK
<1>1. PLInv => PLTypeOK
  BY PushLedAssumption DEF PLInv, Latched, Places, Bits, Flags, PLTypeOK
<1> QED BY <1>1, PushLedInvariant, PTL

(***************************************************************************)
(* However many users and changes there are, a single reader that sleeps   *)
(* has its flag up.                                                        *)
(***************************************************************************)
THEOREM PushLedSleeperHasFlag == PLSpec => []SleeperHasFlag
<1>1. PLInv => SleeperHasFlag
  BY DEF PLInv
<1> QED BY <1>1, PushLedInvariant, PTL

(***************************************************************************)
(* However many changes there are, the LED of a sleeping push-led.c is     *)
(* wrong only after a change that nobody was there to read.                *)
(***************************************************************************)
THEOREM PushLedStaleOnlyIfMissed == PLSpec => []LedStaleOnlyIfMissed
<1>1. PLInv => LedStaleOnlyIfMissed
  <2> SUFFICES ASSUME PLInv, ~overlap, NEW u \in Users, at[u] = "down", sem = 0, ~pend,
                      reg # button
               PROVE  missed
    BY PushLedAssumption DEF LedStaleOnlyIfMissed
  <2>1. \A v \in Users : ~Busy(v)
    BY DEF PLInv, Places, Busy
  <2>2. IsButton
    BY DEF PLInv, Places
  <2> QED BY <2>1, <2>2 DEF PLInv, Shown, Settled
<1> QED BY <1>1, PushLedInvariant, PTL
=============================================================================
