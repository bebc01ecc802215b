------------------------------ MODULE PushLed ------------------------------
(***************************************************************************)
(* The users of the button and LED drivers of wishbone_example over the    *)
(* life of their driver (PlatDriver): button_read and the interrupt        *)
(* handler share a flag and a semaphore; push-led.c copies the button to   *)
(* the LED, testbutton.c only reads it, testled.c writes the LED and reads *)
(* it back.  There is one processor: a handler runs to its end while every *)
(* process is stopped.  Unlike the board and driver modules, the other     *)
(* device of push-led.c stays.                                             *)
(***************************************************************************)
EXTENDS PlatDriver

CONSTANTS
  Writers,      \* the users that run push-led.c, the others run testbutton.c
  MaxChanges    \* how often the button is pressed or released

ASSUME PushLedAssumption == Writers \subseteq Users /\ MaxChanges \in Nat

VARIABLES
  changes, pend,       \* changes of the button; its interrupt is latched
  sem, read_in_wait,   \* struct button_dev
  at, value,           \* each user: its place, and the variable it reads into
  reg,                 \* the register of the LED
  overlap,             \* history: two users were in their loops at once
  missed               \* history: the last change may not have got to the LED

btnvars == <<changes, pend, sem, read_in_wait>>
uservars == <<at, value, reg>>
hvars == <<overlap, missed>>
opvars == <<btnvars, uservars, hvars>>
vars == <<drvars, opvars>>

IsButton == driver \in {"button", "button_old"}
button == changes % 2        \* the register of button.vhd

PLInit ==
  /\ Init
  /\ changes = 0 /\ pend = FALSE /\ sem = 0 /\ read_in_wait = 0
  /\ at = [u \in Users |-> "user"] /\ value = [u \in Users |-> 0]
  /\ reg = 0 /\ overlap = FALSE /\ missed = TRUE
-----------------------------------------------------------------------------
(* The steps of the driver core reach into the structure and the device.   *)

Life ==
  /\ Core \/ Admin
  /\ IF pc = "probe" /\ Now.takes = "sem"
     THEN sem' = 0 /\ read_in_wait' = 0 ELSE UNCHANGED <<sem, read_in_wait>>
  /\ reg' = IF pc = "probe" /\ Now.takes = "value" THEN 1 ELSE reg
  /\ pend' = (pend /\ "irq" \in held')
  /\ missed' = (missed \/ pend # pend' \/ sem # sem')
  /\ UNCHANGED <<changes, at, value, overlap>>

PowerUp ==
  /\ Reboot
  /\ at' = [u \in Users |-> "user"] /\ value' = [u \in Users |-> 0]
  /\ pend' = FALSE /\ missed' = TRUE
  /\ UNCHANGED <<changes, sem, read_in_wait, reg, overlap>>

UserOpens(u) == Open(u) /\ UNCHANGED opvars

UserCloses(u) == at[u] = "user" /\ Close(u) /\ UNCHANGED opvars

\* button.vhd: a change is an edge of its interrupt, which irq_mngr latches
\* while the driver has requested it.
Press ==
  /\ IsButton /\ changes < MaxChanges
  /\ changes' = changes + 1
  /\ pend' = ("irq" \in held)
  /\ missed' = (missed \/ "irq" \notin held)
  /\ UNCHANGED <<drvars, sem, read_in_wait, uservars, overlap>>

\* Mutant of button_interrupt: the flag is read the wrong way round.
button_interrupt_noFlag ==
  /\ driver = "button" /\ pend /\ "irq" \in held
  /\ sem' = IF read_in_wait = 0 THEN sem + 1 ELSE sem
  /\ missed' = (missed \/ read_in_wait = 0)
  /\ pend' = FALSE
  /\ UNCHANGED <<drvars, changes, read_in_wait, uservars, overlap>>

\* irq_mngr.c acknowledges the request first.
button_interrupt ==
  /\ driver = "button" /\ pend /\ "irq" \in held
  /\ sem' = IF read_in_wait = 1 THEN sem + 1 ELSE sem
  /\ missed' = (missed \/ read_in_wait = 0)
  /\ pend' = FALSE
  /\ UNCHANGED <<drvars, changes, read_in_wait, uservars, overlap>>

\* button.c finds its bit pending and acknowledges it itself.
fpga_interrupt ==
  /\ driver = "button_old" /\ pend /\ "irq" \in held
  /\ sem' = IF read_in_wait = 1 THEN sem + 1 ELSE sem
  /\ missed' = (missed \/ read_in_wait = 0)
  /\ pend' = FALSE
  /\ UNCHANGED <<drvars, changes, read_in_wait, uservars, overlap>>

Interrupt == button_interrupt \/ fpga_interrupt
-----------------------------------------------------------------------------
(* button_read *)

Goto(u, l) == at' = [at EXCEPT ![u] = l]

\* Mutant of ReadCall: the flag is left to the handler to guess.
ReadCall_noFlag(u) ==
  /\ IsButton /\ file[u] = "open" /\ at[u] = "user"
  /\ Goto(u, "down")
  /\ overlap' = (overlap \/ \E v \in Users : at[v] # "user")
  /\ UNCHANGED <<drvars, btnvars, value, reg, missed>>

ReadCall(u) ==
  /\ IsButton /\ file[u] = "open" /\ at[u] = "user"
  /\ read_in_wait' = 1
  /\ Goto(u, "down")
  /\ overlap' = (overlap \/ \E v \in Users : at[v] # "user")
  /\ UNCHANGED <<drvars, changes, pend, sem, value, reg, missed>>

\* down_interruptible: the semaphore, or a signal that ends the sleep.
Down(u) ==
  /\ file[u] = "open" /\ at[u] = "down" /\ sem > 0
  /\ sem' = sem - 1
  /\ Goto(u, "copy")
  /\ UNCHANGED <<drvars, changes, pend, read_in_wait, value, reg, hvars>>

Signal(u) ==
  /\ file[u] = "open" /\ at[u] = "down" /\ sem = 0
  /\ Goto(u, "failed")
  /\ UNCHANGED <<drvars, btnvars, value, reg, hvars>>

\* ioread16 and copy_to_user, which may fault.
Copy(u) ==
  /\ file[u] = "open" /\ at[u] = "copy"
  /\ \/ /\ value' = [value EXCEPT ![u] = button]
        /\ missed' = (u \notin Writers)
        /\ Goto(u, "out")
     \/ Goto(u, "failed") /\ UNCHANGED <<value, missed>>
  /\ UNCHANGED <<drvars, btnvars, reg, overlap>>

\* Mutant of Out: the semaphore is cleared with the flag.
Out_clearsSem(u) ==
  /\ file[u] = "open" /\ at[u] \in {"out", "failed"}
  /\ read_in_wait' = 0 /\ sem' = 0
  /\ Goto(u, IF at[u] = "failed" THEN "exit"
             ELSE IF u \in Writers THEN "write" ELSE "user")
  /\ UNCHANGED <<drvars, changes, pend, value, reg, hvars>>

\* out: the flag; a failed read ends the program.
Out(u) ==
  /\ file[u] = "open" /\ at[u] \in {"out", "failed"}
  /\ read_in_wait' = 0
  /\ Goto(u, IF at[u] = "failed" THEN "exit"
             ELSE IF u \in Writers THEN "write" ELSE "user")
  /\ UNCHANGED <<drvars, changes, pend, sem, value, reg, hvars>>

\* The rest of the loop of push-led.c: the LED may not be there to open.
WriteLed(u) ==
  /\ IsButton /\ at[u] = "write"
  /\ \/ reg' = value[u] /\ Goto(u, "user")
     \/ Goto(u, "exit") /\ UNCHANGED reg
  /\ UNCHANGED <<drvars, btnvars, value, hvars>>

\* The program ends and its file is closed.
End(u) ==
  /\ Close(u)
  /\ Goto(u, "user")
  /\ missed' = TRUE
  /\ UNCHANGED <<btnvars, value, reg, overlap>>

Exit(u) == at[u] = "exit" /\ End(u)

\* A signal ends a program that is left on a structure that was freed.
Killed(u) == file[u] = "stale" /\ at[u] # "user" /\ End(u)
-----------------------------------------------------------------------------
(* testled.c: one access to the LED between each open and close *)

led_read(u) ==
  /\ driver = "led" /\ file[u] = "open" /\ at[u] = "user"
  /\ value' = [value EXCEPT ![u] = reg]
  /\ UNCHANGED <<drvars, btnvars, at, reg, hvars>>

led_write(u) ==
  /\ driver = "led" /\ file[u] = "open" /\ at[u] = "user"
  /\ reg' \in 0..1
  /\ UNCHANGED <<drvars, btnvars, at, value, hvars>>

Reads(u) == Down(u) \/ Copy(u) \/ Out(u) \/ WriteLed(u) \/ Exit(u)

PLNext ==
  \/ Life \/ PowerUp \/ Press \/ Interrupt
  \/ \E u \in Users : \/ UserOpens(u) \/ UserCloses(u) \/ ReadCall(u)
                      \/ Reads(u) \/ Signal(u) \/ Killed(u)
                      \/ led_read(u) \/ led_write(u)

\* The interrupt is delivered, and a process that can run is scheduled: the
\* program calls read again and again.  Nobody need press, open or unload.
PLSpec ==
  /\ PLInit /\ [][PLNext]_vars
  /\ WF_vars(Interrupt)
  /\ \A u \in Users : WF_vars(ReadCall(u)) /\ SF_vars(Reads(u))
-----------------------------------------------------------------------------
PLTypeOK ==
  /\ changes \in 0..MaxChanges /\ pend \in BOOLEAN
  /\ sem \in 0..MaxChanges /\ read_in_wait \in 0..1
  /\ at \in [Users -> {"user", "down", "copy", "out", "failed", "exit", "write"}]
  /\ value \in [Users -> 0..1] /\ reg \in 0..1
  /\ pend => "irq" \in held

(***************************************************************************)
(* While one user reads at a time, a sleeper has its flag up whatever      *)
(* handler and unloading come between, so no interrupt passes it by        *)
(* (gbutton.c:76 "user is waiting for value to read").  Two readers break  *)
(* it: the first to leave takes the flag of the other one down.            *)
(***************************************************************************)
SleeperHasFlag ==
  ~overlap => \A u \in Users :
                file[u] = "open" /\ at[u] = "down" => read_in_wait = 1

(***************************************************************************)
(* push-led.c shows the button as it was at the last read.  When it sleeps *)
(* with no interrupt to come, the LED differs from the button only if a    *)
(* change came while nobody was reading: extra ups of the semaphore are    *)
(* read again and none is dropped (gbutton.c:91-96, 152).                  *)
(***************************************************************************)
LedStaleOnlyIfMissed ==
  ~overlap => \A u \in Writers :
    file[u] = "open" /\ at[u] = "down" /\ sem = 0 /\ ~pend /\ reg # button
      => missed

(***************************************************************************)
(* A change of the button wakes the reader that sleeps, unless the driver  *)
(* goes away or another reader is there.                                   *)
(***************************************************************************)
ChangeWakesReader ==
  \A u \in Users :
    at[u] = "down" /\ pend ~> at[u] # "down" \/ file[u] = "stale"
                              \/ "irq" \notin held \/ overlap

(***************************************************************************)
(* push-led.c:1 "Enable or disable led when button is pressed": a change   *)
(* of the button while the program is in its loop gets to the LED.  The    *)
(* code disagrees: a change between two calls of read is dropped, and the  *)
(* LED stays as it was while the program sleeps.                           *)
(***************************************************************************)
LedFollows ==
  \A u \in Writers :
    pend /\ at[u] # "user"
      ~> \/ reg = button /\ at[u] \in {"user", "down"}
         \/ file[u] # "open" \/ "irq" \notin held
=============================================================================
