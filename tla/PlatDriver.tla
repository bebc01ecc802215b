----------------------------- MODULE PlatDriver -----------------------------
(***************************************************************************)
(* The life of a driver: modules come and go, a probe takes the resources  *)
(* of a device one by one and any of its steps can fail, an error label or *)
(* the remove function gives them back, and users hold the device file     *)
(* open meanwhile.  Each probe is a table of its steps and each remove the *)
(* order in which it releases; the driver core, which runs one of them at  *)
(* a time, interprets the tables.                                          *)
(***************************************************************************)
EXTENDS Integers, Sequences

CONSTANTS
  Drivers,      \* the drivers of DriverNames to look at
  Users         \* processes that open the device file

DriverNames == {"sxi_sim", "button", "led", "button_old", "irq_mngr", "main"}

ASSUME DriversAssumption == Drivers \subseteq DriverNames

VARIABLES
  driver,           \* which driver this is
  board, module,    \* the platform device is registered, the driver is loaded
  pc, step, result, \* the function of the driver that runs, and its locals
  todo, leaving,    \* what is still to release; the module that is unloaded
  bound, asleep,    \* the driver core binds the device; it is suspended
  held,             \* what the driver holds
  file,             \* of each user
  hollow            \* history: a step failed and the driver went on as if not

drvars == <<driver, board, module, pc, step, result, todo, leaving, bound,
            asleep, held, file, hollow>>

Resources == {"sdev", "name", "devno", "sem", "cdev", "irq",
              "plat", "chips", "chained"}
-----------------------------------------------------------------------------
(* The probe functions.  A step takes something, or checks something; when  *)
(* it fails, result is assigned by the driver ("error"), is what the call   *)
(* returned ("call") or is left as it was ("silent"), and control goes to   *)
(* the label that releases "label" first.                                   *)

Step(takes, fails, label) == [takes |-> takes, fails |-> fails, label |-> label]
GoOn == "go on"         \* the failure is only logged
Return == "return"      \* the label after the last release

sxi_probe ==
  << Step("id", "error", GoOn),      Step("sdev", "error", Return),
     Step("name", "silent", "sdev"), Step("devno", "call", "name"),
     Step("sem", "never", GoOn),     Step("cdev", "call", "devno"),
     Step("irq", "call", "cdev") >>

\* Mutant of button_probe: a label too low, the cdev stays.
button_probe_lowLabel ==
  << Step("id", "error", Return),    Step("sdev", "error", Return),
     Step("name", "silent", "sdev"), Step("devno", "call", "name"),
     Step("sem", "never", GoOn),     Step("cdev", "call", "devno"),
     Step("irq", "call", "devno") >>

\* Mutant of button_probe: a label too high, a number not taken is given back.
button_probe_highLabel ==
  << Step("id", "error", Return),    Step("sdev", "error", Return),
     Step("name", "silent", "sdev"), Step("devno", "call", "devno"),
     Step("sem", "never", GoOn),     Step("cdev", "call", "devno"),
     Step("irq", "call", "cdev") >>

\* Mutant of button_probe: the semaphore is initialised last.
button_probe_lateInit ==
  << Step("id", "error", Return),    Step("sdev", "error", Return),
     Step("name", "silent", "sdev"), Step("devno", "call", "name"),
     Step("cdev", "call", "devno"),  Step("irq", "call", "cdev"),
     Step("sem", "never", GoOn) >>

button_probe ==
  << Step("id", "error", Return),    Step("sdev", "error", Return),
     Step("name", "silent", "sdev"), Step("devno", "call", "name"),
     Step("sem", "never", GoOn),     Step("cdev", "call", "devno"),
     Step("irq", "call", "cdev") >>

led_probe ==
  << Step("id", "error", Return),    Step("sdev", "error", Return),
     Step("name", "silent", "sdev"), Step("devno", "call", "name"),
     Step("cdev", "call", "devno"),  Step("value", "never", GoOn) >>

\* button.c has no platform device: this is its module_init.  Its error label
\* calls free_all, which follows a pointer set on success only.
button_init ==
  << Step("sdev", "error", Return),  Step("sem", "never", GoOn),
     Step("devno", "call", GoOn),    Step("cdev", "call", GoOn),
     Step("unmask", "never", GoOn),  Step("irq", "silent", "oops") >>

ocore_irq_mng_probe ==
  << Step("id", "silent", GoOn),     Step("pdata", "error", Return),
     Step("mask", "never", GoOn),    Step("plat", "call", Return),
     Step("chips", "never", GoOn),   Step("chained", "never", GoOn) >>

main_probe ==
  << Step("id", "error", Return),    Step("pdata", "error", Return),
     Step("mask", "never", GoOn),    Step("plat", "call", Return),
     Step("chips", "never", GoOn),   Step("chained", "never", GoOn) >>

Probe == [sxi_sim |-> sxi_probe, button |-> button_probe, led |-> led_probe,
          button_old |-> button_init, irq_mngr |-> ocore_irq_mng_probe,
          main |-> main_probe]
-----------------------------------------------------------------------------
(* The remove functions: what they release, and in which order.  The error  *)
(* part of a probe is the same list, entered at a label.                    *)

sxi_remove == [irq |-> 1, cdev |-> 2, devno |-> 3, name |-> 4, sdev |-> 5]

button_remove == [irq |-> 1, cdev |-> 2, devno |-> 3, name |-> 4, sdev |-> 5]

led_remove == [cdev |-> 1, devno |-> 2, name |-> 3, sdev |-> 4]

\* It also releases a region of memory that nobody requested.
free_all == [irq |-> 1, cdev |-> 2, sdev |-> 3, devno |-> 4]

ocore_irq_mng_remove == [chips |-> 1, chained |-> 2, plat |-> 3]

main_remove == [chips |-> 1, chained |-> 2]     \* pdata->exit is not called

Remove == [sxi_sim |-> sxi_remove, button |-> button_remove, led |-> led_remove,
           button_old |-> free_all, irq_mngr |-> ocore_irq_mng_remove,
           main |-> main_remove]

Rank == Remove[driver]
All == DOMAIN Rank
From(label) == IF label = Return THEN {} ELSE {r \in All : Rank[r] >= Rank[label]}
-----------------------------------------------------------------------------
Init ==
  /\ driver \in Drivers
  /\ board = FALSE /\ module = FALSE
  /\ pc = "idle" /\ step = 0 /\ result = 0
  /\ todo = {} /\ leaving = "no"
  /\ bound = FALSE /\ asleep = FALSE
  /\ held = {}
  /\ file = [u \in Users |-> "closed"]
  /\ hollow = FALSE

Idle == pc = "idle" /\ ~asleep

\* The driver core finds a device and its driver: the probe starts.
Match(found) ==
  IF found THEN pc' = "probe" /\ step' = 1 /\ result' = 0 /\ hollow' = FALSE
  ELSE UNCHANGED <<pc, step, result, hollow>>

\* module_init of the driver; button.c needs no device.
Insmod ==
  /\ Idle /\ ~module
  /\ module' = TRUE
  /\ Match(board \/ driver = "button_old")
  /\ UNCHANGED <<driver, board, todo, leaving, bound, asleep, held, file>>

\* module_init of the board module: platform_device_register.
InsmodBoard ==
  /\ Idle /\ ~board /\ driver # "button_old"
  /\ board' = TRUE
  /\ Match(module)
  /\ UNCHANGED <<driver, module, todo, leaving, bound, asleep, held, file>>

Now == Probe[driver][step]

\* The last step is followed by return 0, whatever result is.
Advance ==
  IF step = Len(Probe[driver]) THEN pc' = "idle" /\ step' = 0 /\ bound' = TRUE
  ELSE step' = step + 1 /\ UNCHANGED <<pc, bound>>

ProbeTakes ==
  /\ pc = "probe"
  /\ held' = held \cup ({Now.takes} \cap Resources)
  /\ result' = IF Now.fails = "call" THEN 0 ELSE result
  /\ Advance
  /\ UNCHANGED <<driver, board, module, todo, leaving, asleep, file, hollow>>

ProbeGoesOn ==
  /\ pc = "probe" /\ Now.fails # "never" /\ Now.label = GoOn
  /\ result' = IF Now.fails = "silent" THEN result ELSE -1
  /\ hollow' = (hollow \/ Now.takes \in Resources)
  /\ Advance
  /\ UNCHANGED <<driver, board, module, todo, leaving, asleep, held, file>>

ProbeFails ==
  /\ pc = "probe" /\ Now.fails # "never" /\ Now.label \notin {GoOn, "oops"}
  /\ result' = IF Now.fails = "silent" THEN result ELSE -1
  /\ pc' = "error" /\ step' = 0
  /\ todo' = From(Now.label)
  /\ UNCHANGED <<driver, board, module, leaving, bound, asleep, held, file,
                 hollow>>

\* free_all follows a null pointer, and the machine is started again.
ProbeOops ==
  /\ pc = "probe" /\ Now.fails # "never" /\ Now.label = "oops"
  /\ pc' = "oops"
  /\ UNCHANGED <<driver, board, module, step, result, todo, leaving, bound,
                 asleep, held, file, hollow>>

Reboot ==
  /\ pc = "oops"
  /\ board' = FALSE /\ module' = FALSE
  /\ pc' = "idle" /\ step' = 0 /\ result' = 0
  /\ held' = {} /\ hollow' = FALSE
  /\ file' = [u \in Users |-> "closed"]
  /\ UNCHANGED <<driver, todo, leaving, bound, asleep>>

\* The structure holds the semaphore, and open files point to it.
Release ==
  /\ pc \in {"error", "remove"}
  /\ \E r \in todo :
       /\ \A q \in todo : Rank[r] <= Rank[q]
       /\ todo' = todo \ {r}
       /\ held' = held \ (IF r = "sdev" THEN {"sdev", "sem"} ELSE {r})
       /\ file' = IF r = "sdev"
                  THEN [u \in Users |-> IF file[u] = "open" THEN "stale" ELSE file[u]]
                  ELSE file
  /\ UNCHANGED <<driver, board, module, pc, step, result, leaving, bound, asleep,
                 hollow>>

\* return result: the driver core binds the device if it is 0.
ErrorReturns ==
  /\ pc = "error" /\ todo = {}
  /\ pc' = "idle"
  /\ bound' = (result = 0)
  /\ hollow' = (result = 0)
  /\ module' = (driver # "button_old")
  /\ UNCHANGED <<driver, board, step, result, todo, leaving, asleep, held, file>>

\* module_exit of the board module: platform_device_unregister.
RmmodBoard ==
  /\ Idle /\ board
  /\ IF bound
     THEN /\ pc' = "remove" /\ todo' = All /\ leaving' = "board" /\ UNCHANGED board
     ELSE board' = FALSE /\ UNCHANGED <<pc, todo, leaving>>
  /\ UNCHANGED <<driver, module, step, result, bound, asleep, held, file, hollow>>

\* Mutant of Rmmod: the file operations have no owner.
Rmmod_noOwner ==
  /\ Idle /\ module
  /\ IF bound
     THEN /\ pc' = "remove" /\ todo' = All /\ leaving' = "driver" /\ UNCHANGED module
     ELSE module' = FALSE /\ UNCHANGED <<pc, todo, leaving>>
  /\ UNCHANGED <<driver, board, step, result, bound, asleep, held, file, hollow>>

\* module_exit of the driver; its file operations name it as their owner, so
\* an open file keeps it loaded.
Rmmod ==
  /\ Idle /\ module
  /\ \A u \in Users : file[u] = "closed"
  /\ IF bound
     THEN /\ pc' = "remove" /\ todo' = All /\ leaving' = "driver" /\ UNCHANGED module
     ELSE module' = FALSE /\ UNCHANGED <<pc, todo, leaving>>
  /\ UNCHANGED <<driver, board, step, result, bound, asleep, held, file, hollow>>

RemoveReturns ==
  /\ pc = "remove" /\ todo = {}
  /\ pc' = "idle" /\ leaving' = "no"
  /\ bound' = FALSE /\ hollow' = FALSE
  /\ board' = (board /\ leaving # "board")
  /\ module' = (module /\ leaving # "driver")
  /\ UNCHANGED <<driver, step, result, todo, asleep, held, file>>

\* The processes are frozen while the machine sleeps.
Suspend ==
  /\ Idle /\ bound /\ driver \in {"irq_mngr", "main"}
  /\ asleep' = TRUE
  /\ held' = held \ {"plat"}
  /\ UNCHANGED <<driver, board, module, pc, step, result, todo, leaving, bound,
                 file, hollow>>

\* What pdata->init returns is not looked at.
Resume ==
  /\ asleep
  /\ asleep' = FALSE
  /\ \/ held' = held \cup {"plat"} /\ UNCHANGED hollow
     \/ hollow' = TRUE /\ UNCHANGED held
  /\ UNCHANGED <<driver, board, module, pc, step, result, todo, leaving, bound,
                 file>>

\* A module that is going gives no new reference.
Open(u) ==
  /\ file[u] = "closed" /\ "cdev" \in held /\ leaving # "driver"
  /\ file' = [file EXCEPT ![u] = "open"]
  /\ UNCHANGED <<driver, board, module, pc, step, result, todo, leaving, bound,
                 asleep, held, hollow>>

Close(u) ==
  /\ file[u] # "closed"
  /\ file' = [file EXCEPT ![u] = "closed"]
  /\ UNCHANGED <<driver, board, module, pc, step, result, todo, leaving, bound,
                 asleep, held, hollow>>

Core == \/ ProbeTakes \/ ProbeGoesOn \/ ProbeFails \/ ProbeOops \/ Release
        \/ ErrorReturns \/ RemoveReturns

Admin == Insmod \/ InsmodBoard \/ Rmmod \/ RmmodBoard \/ Suspend \/ Resume

Next == Core \/ Admin \/ Reboot \/ \E u \in Users : Open(u) \/ Close(u)

Spec == Init /\ [][Next]_drvars
-----------------------------------------------------------------------------
TypeOK ==
  /\ driver \in DriverNames
  /\ board \in BOOLEAN /\ module \in BOOLEAN /\ bound \in BOOLEAN
  /\ asleep \in BOOLEAN /\ hollow \in BOOLEAN
  /\ pc \in {"idle", "probe", "error", "remove", "oops"}
  /\ step \in 0..Len(Probe[driver]) /\ result \in {-1, 0}
  /\ pc \in {"probe", "oops"} <=> step # 0
  /\ todo \subseteq All /\ leaving \in {"no", "board", "driver"}
  /\ held \subseteq Resources
  /\ file \in [Users -> {"closed", "open", "stale"}]

(***************************************************************************)
(* Whichever step of a probe fails, and after every remove, a driver that  *)
(* is not bound to a device holds nothing.  The exception is main.c, whose *)
(* remove does not call pdata->exit (gbutton.c:267-285, g_led.c:281-299,   *)
(* sxi_sim_driver.c:341-363).                                              *)
(***************************************************************************)
NothingLeft ==
  pc = "idle" /\ ~bound => held \subseteq IF driver = "main" THEN {"plat"} ELSE {}

(***************************************************************************)
(* What an error label or a remove releases was taken and is released      *)
(* once, unless a step failed before and the driver was bound all the same *)
(* (a name that cannot be allocated leaves result at 0, gbutton.c:193-196).*)
(***************************************************************************)
FreesWhatItHolds == pc \in {"error", "remove"} => todo \subseteq held \/ hollow

(***************************************************************************)
(* A user or an interrupt can only reach a structure that is there and is  *)
(* initialised, at whatever step of a probe or remove it comes             *)
(* (gbutton.c:224-246, sxi_sim_driver.c:307-331).                          *)
(***************************************************************************)
LiveMeansReady ==
  /\ "cdev" \in held => "sdev" \in held /\ (driver # "led" => "sem" \in held)
  /\ "irq" \in held => /\ {"sdev", "sem"} \subseteq held
                       /\ driver # "button_old" => "name" \in held

(***************************************************************************)
(* The structure is freed under an open file only when the board module    *)
(* goes, or when the request of the interrupt fails after the device went  *)
(* live; unloading the driver never does it (gbutton.c:136, 236-249).      *)
(***************************************************************************)
OnlyBoardPullsFiles ==
  [][\A u \in Users : file[u] = "open" /\ file'[u] = "stale"
       => leaving = "board" \/ pc = "error"]_drvars
=============================================================================
