-------------------------- MODULE PlatDriverProofs --------------------------
(***************************************************************************)
(* Theorems about PlatDriver, for every set of drivers and of users.  The  *)
(* invariant says where a probe or a remove is by what the driver holds:   *)
(* no more than the steps so far took (Covered), no less unless a failure  *)
(* was ignored (Owned), and at every place enough for whoever can reach it *)
(* (Ready).                                                                *)
(***************************************************************************)
EXTENDS PlatDriver, TLAPS

(***************************************************************************)
(* What the proofs use of a probe and of its remove: TableOK, which is     *)
(* proved here of each of the six drivers by computing, step by step, what *)
(* the probe holds.  The rest of the proofs never looks at a table.        *)
(***************************************************************************)

\* A failure of this step leads to a label.
Real(s) == s.fails # "never" /\ s.label \notin {GoOn, "oops"}

\* The resources that the steps before step i of a probe take.
Before(P, i) == {P[j].takes : j \in 1..(i - 1)} \cap Resources

\* The resources that the labels from label on give back.
FromIn(R, label) ==
  IF label = Return THEN {} ELSE {r \in DOMAIN R : R[r] >= R[label]}

\* What stays when the labels of set have run: nothing else than Left.
Left(d) == IF d = "main" THEN {"plat"} ELSE {}
Gives(d, set) == set \cup Left(d) \cup (IF "sdev" \in set THEN {"sem"} ELSE {})

\* What a user needs, and what the handler needs.
UserNeeds(d) == {"sdev"} \cup (IF d = "led" THEN {} ELSE {"sem"})
IrqNeeds(d) == {"sdev", "sem"} \cup (IF d = "button_old" THEN {} ELSE {"name"})
Needed == {"sdev", "sem", "name"}

\* The label of a step covers what the steps before it took, and no more.
LabelOK(d, P, R, i) ==
  /\ FromIn(R, P[i].label) \subseteq Before(P, i)
  /\ Before(P, i) \subseteq Gives(d, FromIn(R, P[i].label))

LabelsOK(d, P, R) == \A i \in 1..Len(P) : Real(P[i]) => LabelOK(d, P, R, i)

\* A whole probe takes what the remove releases.
EndOK(d, P, R) ==
  /\ Len(P) \in Nat \ {0}
  /\ DOMAIN R \subseteq Before(P, Len(P) + 1)
  /\ Before(P, Len(P) + 1) \subseteq Gives(d, DOMAIN R)

\* A step that lets somebody in comes after what they need, and no failure of
\* what they need is ignored.
StepOK(d, P, i) ==
  /\ P[i].takes = "cdev" => UserNeeds(d) \subseteq Before(P, i)
  /\ P[i].takes = "irq" => IrqNeeds(d) \subseteq Before(P, i)
  /\ P[i].takes \in Needed => P[i].fails = "never" \/ P[i].label # GoOn
  /\ P[i].takes = "sem" => "cdev" \notin Before(P, i)
  /\ P[i].takes = "value" => d = "led"
  /\ d = "button_old" /\ Real(P[i]) => P[i].fails = "error"

OrderOK(d, P, R) == \A i \in 1..Len(P) : StepOK(d, P, i)

\* Who was let in is out before what they need goes.
RanksOK(d, R) ==
  /\ \A r \in DOMAIN R : R[r] \in Int
  /\ "sem" \notin DOMAIN R
  /\ "cdev" \in DOMAIN R /\ "sdev" \in DOMAIN R => R["cdev"] < R["sdev"]
  /\ "irq" \in DOMAIN R /\ "sdev" \in DOMAIN R => R["irq"] < R["sdev"]
  /\ "irq" \in DOMAIN R /\ "name" \in DOMAIN R => R["irq"] < R["name"]
  /\ d \in {"irq_mngr", "main"} => "plat" \in Gives(d, DOMAIN R)

TableOK(d) ==
  /\ LabelsOK(d, Probe[d], Remove[d]) /\ EndOK(d, Probe[d], Remove[d])
  /\ OrderOK(d, Probe[d], Remove[d]) /\ RanksOK(d, Remove[d])
-----------------------------------------------------------------------------
(* One more step of a probe.                                                *)
LEMMA BeforeNext ==
  ASSUME NEW P, NEW i \in Nat \ {0}
  PROVE  /\ P[i].takes \in Resources => Before(P, i + 1) = Before(P, i) \cup {P[i].takes}
         /\ P[i].takes \notin Resources => Before(P, i + 1) = Before(P, i)
<1>1. 1..(i + 1 - 1) = 1..(i - 1) \cup {i}
  OBVIOUS
<1>2. Before(P, i + 1) = Before(P, i) \cup ({P[i].takes} \cap Resources)
  BY <1>1 DEF Before
<1> QED BY <1>2

(* A probe that begins has taken nothing.                                    *)
LEMMA BeforeFirst == ASSUME NEW P PROVE Before(P, 1) = {}
<1>1. 1..(1 - 1) = {}
  OBVIOUS
<1> QED BY <1>1 DEF Before

(* The probe and remove of sxi_sim_driver.c:237-391                         *)
LEMMA SxiTable == TableOK("sxi_sim")
<1> DEFINE P == sxi_probe
           R == sxi_remove
<1>1. /\ Len(P) = 7
      /\ P[1] = Step("id", "error", GoOn)
      /\ P[2] = Step("sdev", "error", Return)
      /\ P[3] = Step("name", "silent", "sdev")
      /\ P[4] = Step("devno", "call", "name")
      /\ P[5] = Step("sem", "never", GoOn)
      /\ P[6] = Step("cdev", "call", "devno")
      /\ P[7] = Step("irq", "call", "cdev")
  BY DEF sxi_probe
<1>2. /\ P[1].takes = "id" /\ P[2].takes = "sdev" /\ P[3].takes = "name"
      /\ P[4].takes = "devno" /\ P[5].takes = "sem" /\ P[6].takes = "cdev"
      /\ P[7].takes = "irq"
  BY <1>1 DEF Step
<1>3. /\ P[1].fails = "error" /\ P[2].fails = "error"
      /\ P[3].fails = "silent" /\ P[4].fails = "call"
      /\ P[5].fails = "never" /\ P[6].fails = "call"
      /\ P[7].fails = "call"
  BY <1>1 DEF Step
<1>4. /\ P[1].label = GoOn /\ P[2].label = Return
      /\ P[3].label = "sdev" /\ P[4].label = "name"
      /\ P[5].label = GoOn /\ P[6].label = "devno"
      /\ P[7].label = "cdev"
  BY <1>1 DEF Step
<1>5. /\ DOMAIN R = {"irq", "cdev", "devno", "name", "sdev"}
      /\ R["irq"] = 1 /\ R["cdev"] = 2 /\ R["devno"] = 3 /\ R["name"] = 4 /\ R["sdev"] = 5
  BY DEF sxi_remove
<1> HIDE DEF P, R
<1>6. Before(P, 1) = {}
  BY BeforeFirst
<1>7. Before(P, 2) = {}
  <2>1. Before(P, 1 + 1) = Before(P, 1)
    BY <1>2, BeforeNext DEF Resources
  <2> QED BY <2>1, <1>6
<1>8. Before(P, 3) = {"sdev"}
  <2>1. Before(P, 2 + 1) = Before(P, 2) \cup {P[2].takes}
    BY <1>2, BeforeNext DEF Resources
  <2> QED BY <2>1, <1>2, <1>7
<1>9. Before(P, 4) = {"sdev", "name"}
  <2>1. Before(P, 3 + 1) = Before(P, 3) \cup {P[3].takes}
    BY <1>2, BeforeNext DEF Resources
  <2> QED BY <2>1, <1>2, <1>8
<1>10. Before(P, 5) = {"sdev", "name", "devno"}
  <2>1. Before(P, 4 + 1) = Before(P, 4) \cup {P[4].takes}
    BY <1>2, BeforeNext DEF Resources
  <2> QED BY <2>1, <1>2, <1>9
<1>11. Before(P, 6) = {"sdev", "name", "devno", "sem"}
  <2>1. Before(P, 5 + 1) = Before(P, 5) \cup {P[5].takes}
    BY <1>2, BeforeNext DEF Resources
  <2> QED BY <2>1, <1>2, <1>10
<1>12. Before(P, 7) = {"sdev", "name", "devno", "sem", "cdev"}
  <2>1. Before(P, 6 + 1) = Before(P, 6) \cup {P[6].takes}
    BY <1>2, BeforeNext DEF Resources
  <2> QED BY <2>1, <1>2, <1>11
<1>13. Before(P, 8) = {"sdev", "name", "devno", "sem", "cdev", "irq"}
  <2>1. Before(P, 7 + 1) = Before(P, 7) \cup {P[7].takes}
    BY <1>2, BeforeNext DEF Resources
  <2> QED BY <2>1, <1>2, <1>12
<1>14. FromIn(R, Return) = {}
  BY DEF FromIn
<1>15. /\ FromIn(R, "sdev") = {"sdev"}
       /\ Gives("sxi_sim", {"sdev"}) = {"sdev", "sem"}
  <2>1. FromIn(R, "sdev") = {"sdev"}
    BY <1>5 DEF FromIn, Return
  <2> QED BY <2>1 DEF Gives, Left
<1>16. /\ FromIn(R, "name") = {"name", "sdev"}
       /\ Gives("sxi_sim", {"name", "sdev"}) = {"name", "sdev", "sem"}
  <2>1. FromIn(R, "name") = {"name", "sdev"}
    BY <1>5 DEF FromIn, Return
  <2> QED BY <2>1 DEF Gives, Left
<1>17. /\ FromIn(R, "devno") = {"devno", "name", "sdev"}
       /\ Gives("sxi_sim", {"devno", "name", "sdev"}) = {"devno", "name", "sdev", "sem"}
  <2>1. FromIn(R, "devno") = {"devno", "name", "sdev"}
    BY <1>5 DEF FromIn, Return
  <2> QED BY <2>1 DEF Gives, Left
<1>18. /\ FromIn(R, "cdev") = {"cdev", "devno", "name", "sdev"}
       /\ Gives("sxi_sim", {"cdev", "devno", "name", "sdev"}) =
            {"cdev", "devno", "name", "sdev", "sem"}
  <2>1. FromIn(R, "cdev") = {"cdev", "devno", "name", "sdev"}
    BY <1>5 DEF FromIn, Return
  <2> QED BY <2>1 DEF Gives, Left
<1>19. RanksOK("sxi_sim", R)
  BY <1>5 DEF RanksOK, Gives, Left
<1>20. EndOK("sxi_sim", P, R)
  <2>1. Before(P, Len(P) + 1) = {"sdev", "name", "devno", "sem", "cdev", "irq"}
    BY <1>1, <1>13, 7 + 1 = 8
  <2>2. Gives("sxi_sim", DOMAIN R) = {"irq", "cdev", "devno", "name", "sdev", "sem"}
    BY <1>5 DEF Gives, Left
  <2> QED BY <1>1, <1>5, <2>1, <2>2 DEF EndOK
<1>21. OrderOK("sxi_sim", P, R)
  <2> SUFFICES ASSUME NEW i \in 1..7 PROVE StepOK("sxi_sim", P, i)
    BY <1>1 DEF OrderOK
  <2>1. CASE i = 5
    BY <2>1, <1>2, <1>3, <1>4, <1>10
    DEF StepOK, Needed, GoOn, Real, Return
  <2>2. CASE i = 6
    BY <2>2, <1>2, <1>3, <1>4, <1>11
    DEF StepOK, Needed, GoOn, Real, UserNeeds
  <2>3. CASE i = 7
    BY <2>3, <1>2, <1>3, <1>4, <1>12
    DEF StepOK, Needed, GoOn, Real, IrqNeeds
  <2>4. CASE i \in {1, 2, 3, 4}
    BY <2>4, <1>2, <1>3, <1>4 DEF StepOK, Needed, GoOn, Return, Real
  <2> QED BY <2>1, <2>2, <2>3, <2>4
<1>22. LabelsOK("sxi_sim", P, R)
  <2> SUFFICES ASSUME NEW i \in 1..7, Real(P[i]) PROVE LabelOK("sxi_sim", P, R, i)
    BY <1>1 DEF LabelsOK
  <2>2. CASE i = 2
    <3>1. FromIn(R, P[i].label) = {} /\ Before(P, i) = {}
      BY <2>2, <1>1, <1>7, <1>14 DEF Step
    <3> QED BY <3>1 DEF LabelOK, Gives
  <2>3. CASE i = 3
    <3>1. /\ FromIn(R, P[i].label) = {"sdev"}
          /\ Before(P, i) = {"sdev"}
      BY <2>3, <1>1, <1>8, <1>15 DEF Step
    <3> QED BY <3>1, <1>15 DEF LabelOK
  <2>4. CASE i = 4
    <3>1. /\ FromIn(R, P[i].label) = {"name", "sdev"}
          /\ Before(P, i) = {"sdev", "name"}
      BY <2>4, <1>1, <1>9, <1>16 DEF Step
    <3> QED BY <3>1, <1>16 DEF LabelOK
  <2>6. CASE i = 6
    <3>1. /\ FromIn(R, P[i].label) = {"devno", "name", "sdev"}
          /\ Before(P, i) = {"sdev", "name", "devno", "sem"}
      BY <2>6, <1>1, <1>11, <1>17 DEF Step
    <3> QED BY <3>1, <1>17 DEF LabelOK
  <2>7. CASE i = 7
    <3>1. /\ FromIn(R, P[i].label) = {"cdev", "devno", "name", "sdev"}
          /\ Before(P, i) = {"sdev", "name", "devno", "sem", "cdev"}
      BY <2>7, <1>1, <1>12, <1>18 DEF Step
    <3> QED BY <3>1, <1>18 DEF LabelOK
  <2>8. CASE i \in {1, 5}
    BY <2>8, <1>3, <1>4 DEF Real, GoOn
  <2> QED BY <2>2, <2>3, <2>4, <2>6, <2>7, <2>8
<1> QED BY <1>19, <1>20, <1>21, <1>22 DEF TableOK, Probe, Remove, P, R

(* The probe and remove of gbutton.c:162-313                                *)
LEMMA ButtonTable == TableOK("button")
<1> DEFINE P == button_probe
           R == button_remove
<1>1. /\ Len(P) = 7
      /\ P[1] = Step("id", "error", Return)
      /\ P[2] = Step("sdev", "error", Return)
      /\ P[3] = Step("name", "silent", "sdev")
      /\ P[4] = Step("devno", "call", "name")
      /\ P[5] = Step("sem", "never", GoOn)
      /\ P[6] = Step("cdev", "call", "devno")
      /\ P[7] = Step("irq", "call", "cdev")
  BY DEF button_probe
<1>2. /\ P[1].takes = "id" /\ P[2].takes = "sdev" /\ P[3].takes = "name"
      /\ P[4].takes = "devno" /\ P[5].takes = "sem" /\ P[6].takes = "cdev"
      /\ P[7].takes = "irq"
  BY <1>1 DEF Step
<1>3. /\ P[1].fails = "error" /\ P[2].fails = "error"
      /\ P[3].fails = "silent" /\ P[4].fails = "call"
      /\ P[5].fails = "never" /\ P[6].fails = "call"
      /\ P[7].fails = "call"
  BY <1>1 DEF Step
<1>4. /\ P[1].label = Return /\ P[2].label = Return
      /\ P[3].label = "sdev" /\ P[4].label = "name"
      /\ P[5].label = GoOn /\ P[6].label = "devno"
      /\ P[7].label = "cdev"
  BY <1>1 DEF Step
<1>5. /\ DOMAIN R = {"irq", "cdev", "devno", "name", "sdev"}
      /\ R["irq"] = 1 /\ R["cdev"] = 2 /\ R["devno"] = 3 /\ R["name"] = 4 /\ R["sdev"] = 5
  BY DEF button_remove
<1> HIDE DEF P, R
<1>6. Before(P, 1) = {}
  BY BeforeFirst
<1>7. Before(P, 2) = {}
  <2>1. Before(P, 1 + 1) = Before(P, 1)
    BY <1>2, BeforeNext DEF Resources
  <2> QED BY <2>1, <1>6
<1>8. Before(P, 3) = {"sdev"}
  <2>1. Before(P, 2 + 1) = Before(P, 2) \cup {P[2].takes}
    BY <1>2, BeforeNext DEF Resources
  <2> QED BY <2>1, <1>2, <1>7
<1>9. Before(P, 4) = {"sdev", "name"}
  <2>1. Before(P, 3 + 1) = Before(P, 3) \cup {P[3].takes}
    BY <1>2, BeforeNext DEF Resources
  <2> QED BY <2>1, <1>2, <1>8
<1>10. Before(P, 5) = {"sdev", "name", "devno"}
  <2>1. Before(P, 4 + 1) = Before(P, 4) \cup {P[4].takes}
    BY <1>2, BeforeNext DEF Resources
  <2> QED BY <2>1, <1>2, <1>9
<1>11. Before(P, 6) = {"sdev", "name", "devno", "sem"}
  <2>1. Before(P, 5 + 1) = Before(P, 5) \cup {P[5].takes}
    BY <1>2, BeforeNext DEF Resources
  <2> QED BY <2>1, <1>2, <1>10
<1>12. Before(P, 7) = {"sdev", "name", "devno", "sem", "cdev"}
  <2>1. Before(P, 6 + 1) = Before(P, 6) \cup {P[6].takes}
    BY <1>2, BeforeNext DEF Resources
  <2> QED BY <2>1, <1>2, <1>11
<1>13. Before(P, 8) = {"sdev", "name", "devno", "sem", "cdev", "irq"}
  <2>1. Before(P, 7 + 1) = Before(P, 7) \cup {P[7].takes}
    BY <1>2, BeforeNext DEF Resources
  <2> QED BY <2>1, <1>2, <1>12
<1>14. FromIn(R, Return) = {}
  BY DEF FromIn
<1>15. /\ FromIn(R, "sdev") = {"sdev"}
       /\ Gives("button", {"sdev"}) = {"sdev", "sem"}
  <2>1. FromIn(R, "sdev") = {"sdev"}
    BY <1>5 DEF FromIn, Return
  <2> QED BY <2>1 DEF Gives, Left
<1>16. /\ FromIn(R, "name") = {"name", "sdev"}
       /\ Gives("button", {"name", "sdev"}) = {"name", "sdev", "sem"}
  <2>1. FromIn(R, "name") = {"name", "sdev"}
    BY <1>5 DEF FromIn, Return
  <2> QED BY <2>1 DEF Gives, Left
<1>17. /\ FromIn(R, "devno") = {"devno", "name", "sdev"}
       /\ Gives("button", {"devno", "name", "sdev"}) = {"devno", "name", "sdev", "sem"}
  <2>1. FromIn(R, "devno") = {"devno", "name", "sdev"}
    BY <1>5 DEF FromIn, Return
  <2> QED BY <2>1 DEF Gives, Left
<1>18. /\ FromIn(R, "cdev") = {"cdev", "devno", "name", "sdev"}
       /\ Gives("button", {"cdev", "devno", "name", "sdev"}) =
            {"cdev", "devno", "name", "sdev", "sem"}
  <2>1. FromIn(R, "cdev") = {"cdev", "devno", "name", "sdev"}
    BY <1>5 DEF FromIn, Return
  <2> QED BY <2>1 DEF Gives, Left
<1>19. RanksOK("button", R)
  BY <1>5 DEF RanksOK, Gives, Left
<1>20. EndOK("button", P, R)
  <2>1. Before(P, Len(P) + 1) = {"sdev", "name", "devno", "sem", "cdev", "irq"}
    BY <1>1, <1>13, 7 + 1 = 8
  <2>2. Gives("button", DOMAIN R) = {"irq", "cdev", "devno", "name", "sdev", "sem"}
    BY <1>5 DEF Gives, Left
  <2> QED BY <1>1, <1>5, <2>1, <2>2 DEF EndOK
<1>21. OrderOK("button", P, R)
  <2> SUFFICES ASSUME NEW i \in 1..7 PROVE StepOK("button", P, i)
    BY <1>1 DEF OrderOK
  <2>1. CASE i = 5
    BY <2>1, <1>2, <1>3, <1>4, <1>10
    DEF StepOK, Needed, GoOn, Real, Return
  <2>2. CASE i = 6
    BY <2>2, <1>2, <1>3, <1>4, <1>11
    DEF StepOK, Needed, GoOn, Real, UserNeeds
  <2>3. CASE i = 7
    BY <2>3, <1>2, <1>3, <1>4, <1>12
    DEF StepOK, Needed, GoOn, Real, IrqNeeds
  <2>4. CASE i \in {1, 2, 3, 4}
    BY <2>4, <1>2, <1>3, <1>4 DEF StepOK, Needed, GoOn, Return, Real
  <2> QED BY <2>1, <2>2, <2>3, <2>4
<1>22. LabelsOK("button", P, R)
  <2> SUFFICES ASSUME NEW i \in 1..7, Real(P[i]) PROVE LabelOK("button", P, R, i)
    BY <1>1 DEF LabelsOK
  <2>1. CASE i = 1
    <3>1. FromIn(R, P[i].label) = {} /\ Before(P, i) = {}
      BY <2>1, <1>1, <1>6, <1>14 DEF Step
    <3> QED BY <3>1 DEF LabelOK, Gives
  <2>2. CASE i = 2
    <3>1. FromIn(R, P[i].label) = {} /\ Before(P, i) = {}
      BY <2>2, <1>1, <1>7, <1>14 DEF Step
    <3> QED BY <3>1 DEF LabelOK, Gives
  <2>3. CASE i = 3
    <3>1. /\ FromIn(R, P[i].label) = {"sdev"}
          /\ Before(P, i) = {"sdev"}
      BY <2>3, <1>1, <1>8, <1>15 DEF Step
    <3> QED BY <3>1, <1>15 DEF LabelOK
  <2>4. CASE i = 4
    <3>1. /\ FromIn(R, P[i].label) = {"name", "sdev"}
          /\ Before(P, i) = {"sdev", "name"}
      BY <2>4, <1>1, <1>9, <1>16 DEF Step
    <3> QED BY <3>1, <1>16 DEF LabelOK
  <2>6. CASE i = 6
    <3>1. /\ FromIn(R, P[i].label) = {"devno", "name", "sdev"}
          /\ Before(P, i) = {"sdev", "name", "devno", "sem"}
      BY <2>6, <1>1, <1>11, <1>17 DEF Step
    <3> QED BY <3>1, <1>17 DEF LabelOK
  <2>7. CASE i = 7
    <3>1. /\ FromIn(R, P[i].label) = {"cdev", "devno", "name", "sdev"}
          /\ Before(P, i) = {"sdev", "name", "devno", "sem", "cdev"}
      BY <2>7, <1>1, <1>12, <1>18 DEF Step
    <3> QED BY <3>1, <1>18 DEF LabelOK
  <2>8. CASE i \in {5}
    BY <2>8, <1>3, <1>4 DEF Real, GoOn
  <2> QED BY <2>1, <2>2, <2>3, <2>4, <2>6, <2>7, <2>8
<1> QED BY <1>19, <1>20, <1>21, <1>22 DEF TableOK, Probe, Remove, P, R

(* The probe and remove of g_led.c:193-323                                  *)
LEMMA LedTable == TableOK("led")
<1> DEFINE P == led_probe
           R == led_remove
<1>1. /\ Len(P) = 6
      /\ P[1] = Step("id", "error", Return)
      /\ P[2] = Step("sdev", "error", Return)
      /\ P[3] = Step("name", "silent", "sdev")
      /\ P[4] = Step("devno", "call", "name")
      /\ P[5] = Step("cdev", "call", "devno")
      /\ P[6] = Step("value", "never", GoOn)
  BY DEF led_probe
<1>2. /\ P[1].takes = "id" /\ P[2].takes = "sdev" /\ P[3].takes = "name"
      /\ P[4].takes = "devno" /\ P[5].takes = "cdev" /\ P[6].takes = "value"
  BY <1>1 DEF Step
<1>3. /\ P[1].fails = "error" /\ P[2].fails = "error"
      /\ P[3].fails = "silent" /\ P[4].fails = "call"
      /\ P[5].fails = "call" /\ P[6].fails = "never"
  BY <1>1 DEF Step
<1>4. /\ P[1].label = Return /\ P[2].label = Return
      /\ P[3].label = "sdev" /\ P[4].label = "name"
      /\ P[5].label = "devno" /\ P[6].label = GoOn
  BY <1>1 DEF Step
<1>5. /\ DOMAIN R = {"cdev", "devno", "name", "sdev"}
      /\ R["cdev"] = 1 /\ R["devno"] = 2 /\ R["name"] = 3 /\ R["sdev"] = 4
  BY DEF led_remove
<1> HIDE DEF P, R
<1>6. Before(P, 1) = {}
  BY BeforeFirst
<1>7. Before(P, 2) = {}
  <2>1. Before(P, 1 + 1) = Before(P, 1)
    BY <1>2, BeforeNext DEF Resources
  <2> QED BY <2>1, <1>6
<1>8. Before(P, 3) = {"sdev"}
  <2>1. Before(P, 2 + 1) = Before(P, 2) \cup {P[2].takes}
    BY <1>2, BeforeNext DEF Resources
  <2> QED BY <2>1, <1>2, <1>7
<1>9. Before(P, 4) = {"sdev", "name"}
  <2>1. Before(P, 3 + 1) = Before(P, 3) \cup {P[3].takes}
    BY <1>2, BeforeNext DEF Resources
  <2> QED BY <2>1, <1>2, <1>8
<1>10. Before(P, 5) = {"sdev", "name", "devno"}
  <2>1. Before(P, 4 + 1) = Before(P, 4) \cup {P[4].takes}
    BY <1>2, BeforeNext DEF Resources
  <2> QED BY <2>1, <1>2, <1>9
<1>11. Before(P, 6) = {"sdev", "name", "devno", "cdev"}
  <2>1. Before(P, 5 + 1) = Before(P, 5) \cup {P[5].takes}
    BY <1>2, BeforeNext DEF Resources
  <2> QED BY <2>1, <1>2, <1>10
<1>12. Before(P, 7) = {"sdev", "name", "devno", "cdev"}
  <2>1. Before(P, 6 + 1) = Before(P, 6)
    BY <1>2, BeforeNext DEF Resources
  <2> QED BY <2>1, <1>11
<1>13. FromIn(R, Return) = {}
  BY DEF FromIn
<1>14. /\ FromIn(R, "sdev") = {"sdev"}
       /\ Gives("led", {"sdev"}) = {"sdev", "sem"}
  <2>1. FromIn(R, "sdev") = {"sdev"}
    BY <1>5 DEF FromIn, Return
  <2> QED BY <2>1 DEF Gives, Left
<1>15. /\ FromIn(R, "name") = {"name", "sdev"}
       /\ Gives("led", {"name", "sdev"}) = {"name", "sdev", "sem"}
  <2>1. FromIn(R, "name") = {"name", "sdev"}
    BY <1>5 DEF FromIn, Return
  <2> QED BY <2>1 DEF Gives, Left
<1>16. /\ FromIn(R, "devno") = {"devno", "name", "sdev"}
       /\ Gives("led", {"devno", "name", "sdev"}) = {"devno", "name", "sdev", "sem"}
  <2>1. FromIn(R, "devno") = {"devno", "name", "sdev"}
    BY <1>5 DEF FromIn, Return
  <2> QED BY <2>1 DEF Gives, Left
<1>17. RanksOK("led", R)
  BY <1>5 DEF RanksOK, Gives, Left
<1>18. EndOK("led", P, R)
  <2>1. Before(P, Len(P) + 1) = {"sdev", "name", "devno", "cdev"}
    BY <1>1, <1>12, 6 + 1 = 7
  <2>2. Gives("led", DOMAIN R) = {"cdev", "devno", "name", "sdev", "sem"}
    BY <1>5 DEF Gives, Left
  <2> QED BY <1>1, <1>5, <2>1, <2>2 DEF EndOK
<1>19. OrderOK("led", P, R)
  <2> SUFFICES ASSUME NEW i \in 1..6 PROVE StepOK("led", P, i)
    BY <1>1 DEF OrderOK
  <2>1. CASE i = 5
    BY <2>1, <1>2, <1>3, <1>4, <1>10
    DEF StepOK, Needed, GoOn, Real, UserNeeds
  <2>2. CASE i \in {1, 2, 3, 4, 6}
    BY <2>2, <1>2, <1>3, <1>4 DEF StepOK, Needed, GoOn, Return, Real
  <2> QED BY <2>1, <2>2
<1>20. LabelsOK("led", P, R)
  <2> SUFFICES ASSUME NEW i \in 1..6, Real(P[i]) PROVE LabelOK("led", P, R, i)
    BY <1>1 DEF LabelsOK
  <2>1. CASE i = 1
    <3>1. FromIn(R, P[i].label) = {} /\ Before(P, i) = {}
      BY <2>1, <1>1, <1>6, <1>13 DEF Step
    <3> QED BY <3>1 DEF LabelOK, Gives
  <2>2. CASE i = 2
    <3>1. FromIn(R, P[i].label) = {} /\ Before(P, i) = {}
      BY <2>2, <1>1, <1>7, <1>13 DEF Step
    <3> QED BY <3>1 DEF LabelOK, Gives
  <2>3. CASE i = 3
    <3>1. /\ FromIn(R, P[i].label) = {"sdev"}
          /\ Before(P, i) = {"sdev"}
      BY <2>3, <1>1, <1>8, <1>14 DEF Step
    <3> QED BY <3>1, <1>14 DEF LabelOK
  <2>4. CASE i = 4
    <3>1. /\ FromIn(R, P[i].label) = {"name", "sdev"}
          /\ Before(P, i) = {"sdev", "name"}
      BY <2>4, <1>1, <1>9, <1>15 DEF Step
    <3> QED BY <3>1, <1>15 DEF LabelOK
  <2>5. CASE i = 5
    <3>1. /\ FromIn(R, P[i].label) = {"devno", "name", "sdev"}
          /\ Before(P, i) = {"sdev", "name", "devno"}
      BY <2>5, <1>1, <1>10, <1>16 DEF Step
    <3> QED BY <3>1, <1>16 DEF LabelOK
  <2>7. CASE i \in {6}
    BY <2>7, <1>3, <1>4 DEF Real, GoOn
  <2> QED BY <2>1, <2>2, <2>3, <2>4, <2>5, <2>7
<1> QED BY <1>17, <1>18, <1>19, <1>20 DEF TableOK, Probe, Remove, P, R

(* The probe and remove of button.c:123-225                                 *)
LEMMA OldButtonTable == TableOK("button_old")
<1> DEFINE P == button_init
           R == free_all
<1>1. /\ Len(P) = 6
      /\ P[1] = Step("sdev", "error", Return)
      /\ P[2] = Step("sem", "never", GoOn)
      /\ P[3] = Step("devno", "call", GoOn)
      /\ P[4] = Step("cdev", "call", GoOn)
      /\ P[5] = Step("unmask", "never", GoOn)
      /\ P[6] = Step("irq", "silent", "oops")
  BY DEF button_init
<1>2. /\ P[1].takes = "sdev" /\ P[2].takes = "sem" /\ P[3].takes = "devno"
      /\ P[4].takes = "cdev" /\ P[5].takes = "unmask" /\ P[6].takes = "irq"
  BY <1>1 DEF Step
<1>3. /\ P[1].fails = "error" /\ P[2].fails = "never"
      /\ P[3].fails = "call" /\ P[4].fails = "call"
      /\ P[5].fails = "never" /\ P[6].fails = "silent"
  BY <1>1 DEF Step
<1>4. /\ P[1].label = Return /\ P[2].label = GoOn
      /\ P[3].label = GoOn /\ P[4].label = GoOn
      /\ P[5].label = GoOn /\ P[6].label = "oops"
  BY <1>1 DEF Step
<1>5. /\ DOMAIN R = {"irq", "cdev", "sdev", "devno"}
      /\ R["irq"] = 1 /\ R["cdev"] = 2 /\ R["sdev"] = 3 /\ R["devno"] = 4
  BY DEF free_all
<1> HIDE DEF P, R
<1>6. Before(P, 1) = {}
  BY BeforeFirst
<1>7. Before(P, 2) = {"sdev"}
  <2>1. Before(P, 1 + 1) = Before(P, 1) \cup {P[1].takes}
    BY <1>2, BeforeNext DEF Resources
  <2> QED BY <2>1, <1>2, <1>6
<1>8. Before(P, 3) = {"sdev", "sem"}
  <2>1. Before(P, 2 + 1) = Before(P, 2) \cup {P[2].takes}
    BY <1>2, BeforeNext DEF Resources
  <2> QED BY <2>1, <1>2, <1>7
<1>9. Before(P, 4) = {"sdev", "sem", "devno"}
  <2>1. Before(P, 3 + 1) = Before(P, 3) \cup {P[3].takes}
    BY <1>2, BeforeNext DEF Resources
  <2> QED BY <2>1, <1>2, <1>8
<1>10. Before(P, 5) = {"sdev", "sem", "devno", "cdev"}
  <2>1. Before(P, 4 + 1) = Before(P, 4) \cup {P[4].takes}
    BY <1>2, BeforeNext DEF Resources
  <2> QED BY <2>1, <1>2, <1>9
<1>11. Before(P, 6) = {"sdev", "sem", "devno", "cdev"}
  <2>1. Before(P, 5 + 1) = Before(P, 5)
    BY <1>2, BeforeNext DEF Resources
  <2> QED BY <2>1, <1>10
<1>12. Before(P, 7) = {"sdev", "sem", "devno", "cdev", "irq"}
  <2>1. Before(P, 6 + 1) = Before(P, 6) \cup {P[6].takes}
    BY <1>2, BeforeNext DEF Resources
  <2> QED BY <2>1, <1>2, <1>11
<1>13. FromIn(R, Return) = {}
  BY DEF FromIn
<1>14. RanksOK("button_old", R)
  BY <1>5 DEF RanksOK, Gives, Left
<1>15. EndOK("button_old", P, R)
  <2>1. Before(P, Len(P) + 1) = {"sdev", "sem", "devno", "cdev", "irq"}
    BY <1>1, <1>12, 6 + 1 = 7
  <2>2. Gives("button_old", DOMAIN R) = {"irq", "cdev", "sdev", "devno", "sem"}
    BY <1>5 DEF Gives, Left
  <2> QED BY <1>1, <1>5, <2>1, <2>2 DEF EndOK
<1>16. OrderOK("button_old", P, R)
  <2> SUFFICES ASSUME NEW i \in 1..6 PROVE StepOK("button_old", P, i)
    BY <1>1 DEF OrderOK
  <2>1. CASE i = 2
    BY <2>1, <1>2, <1>3, <1>4, <1>7
    DEF StepOK, Needed, GoOn, Real, Return
  <2>2. CASE i = 4
    BY <2>2, <1>2, <1>3, <1>4, <1>9
    DEF StepOK, Needed, GoOn, Real, UserNeeds
  <2>3. CASE i = 6
    BY <2>3, <1>2, <1>3, <1>4, <1>11
    DEF StepOK, Needed, GoOn, Real, IrqNeeds
  <2>4. CASE i \in {1, 3, 5}
    BY <2>4, <1>2, <1>3, <1>4 DEF StepOK, Needed, GoOn, Return, Real
  <2> QED BY <2>1, <2>2, <2>3, <2>4
<1>17. LabelsOK("button_old", P, R)
  <2> SUFFICES ASSUME NEW i \in 1..6, Real(P[i]) PROVE LabelOK("button_old", P, R, i)
    BY <1>1 DEF LabelsOK
  <2>1. CASE i = 1
    <3>1. FromIn(R, P[i].label) = {} /\ Before(P, i) = {}
      BY <2>1, <1>1, <1>6, <1>13 DEF Step
    <3> QED BY <3>1 DEF LabelOK, Gives
  <2>7. CASE i \in {2, 3, 4, 5, 6}
    BY <2>7, <1>3, <1>4 DEF Real, GoOn
  <2> QED BY <2>1, <2>7
<1> QED BY <1>14, <1>15, <1>16, <1>17 DEF TableOK, Probe, Remove, P, R

(* The probe and remove of irq_mngr.c:179-248                               *)
LEMMA IrqMngrTable == TableOK("irq_mngr")
<1> DEFINE P == ocore_irq_mng_probe
           R == ocore_irq_mng_remove
<1>1. /\ Len(P) = 6
      /\ P[1] = Step("id", "silent", GoOn)
      /\ P[2] = Step("pdata", "error", Return)
      /\ P[3] = Step("mask", "never", GoOn)
      /\ P[4] = Step("plat", "call", Return)
      /\ P[5] = Step("chips", "never", GoOn)
      /\ P[6] = Step("chained", "never", GoOn)
  BY DEF ocore_irq_mng_probe
<1>2. /\ P[1].takes = "id" /\ P[2].takes = "pdata" /\ P[3].takes = "mask"
      /\ P[4].takes = "plat" /\ P[5].takes = "chips" /\ P[6].takes = "chained"
  BY <1>1 DEF Step
<1>3. /\ P[1].fails = "silent" /\ P[2].fails = "error"
      /\ P[3].fails = "never" /\ P[4].fails = "call"
      /\ P[5].fails = "never" /\ P[6].fails = "never"
  BY <1>1 DEF Step
<1>4. /\ P[1].label = GoOn /\ P[2].label = Return
      /\ P[3].label = GoOn /\ P[4].label = Return
      /\ P[5].label = GoOn /\ P[6].label = GoOn
  BY <1>1 DEF Step
<1>5. /\ DOMAIN R = {"chips", "chained", "plat"}
      /\ R["chips"] = 1 /\ R["chained"] = 2 /\ R["plat"] = 3
  BY DEF ocore_irq_mng_remove
<1> HIDE DEF P, R
<1>6. Before(P, 1) = {}
  BY BeforeFirst
<1>7. Before(P, 2) = {}
  <2>1. Before(P, 1 + 1) = Before(P, 1)
    BY <1>2, BeforeNext DEF Resources
  <2> QED BY <2>1, <1>6
<1>8. Before(P, 3) = {}
  <2>1. Before(P, 2 + 1) = Before(P, 2)
    BY <1>2, BeforeNext DEF Resources
  <2> QED BY <2>1, <1>7
<1>9. Before(P, 4) = {}
  <2>1. Before(P, 3 + 1) = Before(P, 3)
    BY <1>2, BeforeNext DEF Resources
  <2> QED BY <2>1, <1>8
<1>10. Before(P, 5) = {"plat"}
  <2>1. Before(P, 4 + 1) = Before(P, 4) \cup {P[4].takes}
    BY <1>2, BeforeNext DEF Resources
  <2> QED BY <2>1, <1>2, <1>9
<1>11. Before(P, 6) = {"plat", "chips"}
  <2>1. Before(P, 5 + 1) = Before(P, 5) \cup {P[5].takes}
    BY <1>2, BeforeNext DEF Resources
  <2> QED BY <2>1, <1>2, <1>10
<1>12. Before(P, 7) = {"plat", "chips", "chained"}
  <2>1. Before(P, 6 + 1) = Before(P, 6) \cup {P[6].takes}
    BY <1>2, BeforeNext DEF Resources
  <2> QED BY <2>1, <1>2, <1>11
<1>13. FromIn(R, Return) = {}
  BY DEF FromIn
<1>14. RanksOK("irq_mngr", R)
  BY <1>5 DEF RanksOK, Gives, Left
<1>15. EndOK("irq_mngr", P, R)
  <2>1. Before(P, Len(P) + 1) = {"plat", "chips", "chained"}
    BY <1>1, <1>12, 6 + 1 = 7
  <2>2. Gives("irq_mngr", DOMAIN R) = {"chips", "chained", "plat"}
    BY <1>5 DEF Gives, Left
  <2> QED BY <1>1, <1>5, <2>1, <2>2 DEF EndOK
<1>16. OrderOK("irq_mngr", P, R)
  <2> SUFFICES ASSUME NEW i \in 1..6 PROVE StepOK("irq_mngr", P, i)
    BY <1>1 DEF OrderOK
  <2>1. CASE i \in {1, 2, 3, 4, 5, 6}
    BY <2>1, <1>2, <1>3, <1>4 DEF StepOK, Needed, GoOn, Return, Real
  <2> QED BY <2>1
<1>17. LabelsOK("irq_mngr", P, R)
  <2> SUFFICES ASSUME NEW i \in 1..6, Real(P[i]) PROVE LabelOK("irq_mngr", P, R, i)
    BY <1>1 DEF LabelsOK
  <2>2. CASE i = 2
    <3>1. FromIn(R, P[i].label) = {} /\ Before(P, i) = {}
      BY <2>2, <1>1, <1>7, <1>13 DEF Step
    <3> QED BY <3>1 DEF LabelOK, Gives
  <2>4. CASE i = 4
    <3>1. FromIn(R, P[i].label) = {} /\ Before(P, i) = {}
      BY <2>4, <1>1, <1>9, <1>13 DEF Step
    <3> QED BY <3>1 DEF LabelOK, Gives
  <2>7. CASE i \in {1, 3, 5, 6}
    BY <2>7, <1>3, <1>4 DEF Real, GoOn
  <2> QED BY <2>2, <2>4, <2>7
<1> QED BY <1>14, <1>15, <1>16, <1>17 DEF TableOK, Probe, Remove, P, R

(* The probe and remove of wb_irq_mngr/main.c:179-242                       *)
LEMMA MainTable == TableOK("main")
<1> DEFINE P == main_probe
           R == main_remove
<1>1. /\ Len(P) = 6
      /\ P[1] = Step("id", "error", Return)
      /\ P[2] = Step("pdata", "error", Return)
      /\ P[3] = Step("mask", "never", GoOn)
      /\ P[4] = Step("plat", "call", Return)
      /\ P[5] = Step("chips", "never", GoOn)
      /\ P[6] = Step("chained", "never", GoOn)
  BY DEF main_probe
<1>2. /\ P[1].takes = "id" /\ P[2].takes = "pdata" /\ P[3].takes = "mask"
      /\ P[4].takes = "plat" /\ P[5].takes = "chips" /\ P[6].takes = "chained"
  BY <1>1 DEF Step
<1>3. /\ P[1].fails = "error" /\ P[2].fails = "error"
      /\ P[3].fails = "never" /\ P[4].fails = "call"
      /\ P[5].fails = "never" /\ P[6].fails = "never"
  BY <1>1 DEF Step
<1>4. /\ P[1].label = Return /\ P[2].label = Return
      /\ P[3].label = GoOn /\ P[4].label = Return
      /\ P[5].label = GoOn /\ P[6].label = GoOn
  BY <1>1 DEF Step
<1>5. /\ DOMAIN R = {"chips", "chained"}
      /\ R["chips"] = 1 /\ R["chained"] = 2
  BY DEF main_remove
<1> HIDE DEF P, R
<1>6. Before(P, 1) = {}
  BY BeforeFirst
<1>7. Before(P, 2) = {}
  <2>1. Before(P, 1 + 1) = Before(P, 1)
    BY <1>2, BeforeNext DEF Resources
  <2> QED BY <2>1, <1>6
<1>8. Before(P, 3) = {}
  <2>1. Before(P, 2 + 1) = Before(P, 2)
    BY <1>2, BeforeNext DEF Resources
  <2> QED BY <2>1, <1>7
<1>9. Before(P, 4) = {}
  <2>1. Before(P, 3 + 1) = Before(P, 3)
    BY <1>2, BeforeNext DEF Resources
  <2> QED BY <2>1, <1>8
<1>10. Before(P, 5) = {"plat"}
  <2>1. Before(P, 4 + 1) = Before(P, 4) \cup {P[4].takes}
    BY <1>2, BeforeNext DEF Resources
  <2> QED BY <2>1, <1>2, <1>9
<1>11. Before(P, 6) = {"plat", "chips"}
  <2>1. Before(P, 5 + 1) = Before(P, 5) \cup {P[5].takes}
    BY <1>2, BeforeNext DEF Resources
  <2> QED BY <2>1, <1>2, <1>10
<1>12. Before(P, 7) = {"plat", "chips", "chained"}
  <2>1. Before(P, 6 + 1) = Before(P, 6) \cup {P[6].takes}
    BY <1>2, BeforeNext DEF Resources
  <2> QED BY <2>1, <1>2, <1>11
<1>13. FromIn(R, Return) = {}
  BY DEF FromIn
<1>14. RanksOK("main", R)
  BY <1>5 DEF RanksOK, Gives, Left
<1>15. EndOK("main", P, R)
  <2>1. Before(P, Len(P) + 1) = {"plat", "chips", "chained"}
    BY <1>1, <1>12, 6 + 1 = 7
  <2>2. Gives("main", DOMAIN R) = {"chips", "chained", "plat"}
    BY <1>5 DEF Gives, Left
  <2> QED BY <1>1, <1>5, <2>1, <2>2 DEF EndOK
<1>16. OrderOK("main", P, R)
  <2> SUFFICES ASSUME NEW i \in 1..6 PROVE StepOK("main", P, i)
    BY <1>1 DEF OrderOK
  <2>1. CASE i \in {1, 2, 3, 4, 5, 6}
    BY <2>1, <1>2, <1>3, <1>4 DEF StepOK, Needed, GoOn, Return, Real
  <2> QED BY <2>1
<1>17. LabelsOK("main", P, R)
  <2> SUFFICES ASSUME NEW i \in 1..6, Real(P[i]) PROVE LabelOK("main", P, R, i)
    BY <1>1 DEF LabelsOK
  <2>1. CASE i = 1
    <3>1. FromIn(R, P[i].label) = {} /\ Before(P, i) = {}
      BY <2>1, <1>1, <1>6, <1>13 DEF Step
    <3> QED BY <3>1 DEF LabelOK, Gives
  <2>2. CASE i = 2
    <3>1. FromIn(R, P[i].label) = {} /\ Before(P, i) = {}
      BY <2>2, <1>1, <1>7, <1>13 DEF Step
    <3> QED BY <3>1 DEF LabelOK, Gives
  <2>4. CASE i = 4
    <3>1. FromIn(R, P[i].label) = {} /\ Before(P, i) = {}
      BY <2>4, <1>1, <1>9, <1>13 DEF Step
    <3> QED BY <3>1 DEF LabelOK, Gives
  <2>7. CASE i \in {3, 5, 6}
    BY <2>7, <1>3, <1>4 DEF Real, GoOn
  <2> QED BY <2>1, <2>2, <2>4, <2>7
<1> QED BY <1>14, <1>15, <1>16, <1>17 DEF TableOK, Probe, Remove, P, R

(* Every probe and remove.                                                   *)
LEMMA AllTables == \A d \in DriverNames : TableOK(d)
BY SxiTable, ButtonTable, LedTable, OldButtonTable, IrqMngrTable, MainTable
   DEF DriverNames
-----------------------------------------------------------------------------
\* What the driver core has bound, and who can be in which function.
Bindings ==
  /\ pc \in {"probe", "error", "remove"} \/ bound
       => module /\ (board \/ driver = "button_old")
  /\ bound => pc \in {"idle", "remove"}
  /\ asleep => pc = "idle" /\ bound /\ driver \in {"irq_mngr", "main"}
  /\ pc = "error" /\ driver = "button_old" => result = -1

\* The driver holds nothing that the labels or the remove to come do not release.
Covered ==
  /\ pc = "idle" /\ ~bound => held \subseteq Left(driver)
  /\ pc = "idle" /\ bound => held \subseteq Gives(driver, All)
  /\ pc = "probe" => held \subseteq Left(driver) \cup Before(Probe[driver], step)
  /\ pc \in {"error", "remove"} => held \subseteq Gives(driver, todo)

\* It holds what they do release.
Owned ==
  /\ pc = "idle" /\ bound /\ ~hollow
       => All \ (IF asleep THEN {"plat"} ELSE {}) \subseteq held
  /\ pc = "probe" /\ ~hollow => Before(Probe[driver], step) \subseteq held
  /\ pc \in {"error", "remove"} /\ ~hollow => todo \subseteq held

\* Users come through cdev and the handler through irq.
Ready ==
  /\ "cdev" \in held => UserNeeds(driver) \subseteq held
  /\ "irq" \in held => IrqNeeds(driver) \subseteq held
  /\ pc = "probe" => Before(Probe[driver], step) \cap Needed \subseteq held

\* The module of the driver only leaves when no file is open.
Leaving ==
  /\ pc = "remove" <=> leaving # "no"
  /\ leaving = "driver" => \A u \in Users : file[u] # "open"

IInv == TypeOK /\ Bindings /\ Covered /\ Owned /\ Ready /\ Leaving
-----------------------------------------------------------------------------
(* What PlatDriverTables proves holds of the driver at hand.                *)
LEMMA Table ==
  ASSUME driver \in DriverNames
  PROVE  TableOK(driver)
BY AllTables

(* No driver is loaded at first.                                            *)
LEMMA InitIInv == Init => IInv
<1> SUFFICES ASSUME Init PROVE IInv
  OBVIOUS
<1>1. TableOK(driver) /\ driver \in DriverNames
  BY AllTables, DriversAssumption DEF Init
<1>2. Len(Probe[driver]) \in Nat \ {0}
  BY <1>1 DEF TableOK, EndOK
<1>3. TypeOK
  <2>1. /\ driver \in DriverNames /\ board \in BOOLEAN /\ module \in BOOLEAN
        /\ bound \in BOOLEAN /\ asleep \in BOOLEAN /\ hollow \in BOOLEAN
        /\ result \in {-1, 0} /\ todo \subseteq All
        /\ leaving \in {"no", "board", "driver"} /\ held \subseteq Resources
    BY <1>1, <1>2 DEF Init, All, Rank
  <2>2. /\ pc \in {"idle", "probe", "error", "remove", "oops"}
        /\ step \in 0..Len(Probe[driver])
        /\ pc \in {"probe", "oops"} <=> step # 0
    BY <1>1, <1>2 DEF Init, All, Rank
  <2>3. file \in [Users -> {"closed", "open", "stale"}]
    BY <1>1, <1>2 DEF Init, All, Rank
  <2> QED BY <2>1, <2>2, <2>3 DEF TypeOK
<1>4. Bindings /\ Covered /\ Owned /\ Ready /\ Leaving
  BY DEF Init, Bindings, Covered, Owned, Ready, Leaving
<1> QED BY <1>3, <1>4 DEF IInv

(* No action leaves the tables or the sets of values.                       *)
LEMMA TypeNext == TypeOK /\ [Next]_drvars => TypeOK'
<1> SUFFICES ASSUME TypeOK, [Next]_drvars PROVE TypeOK'
  OBVIOUS
<1>0. Len(Probe[driver]) \in Nat \ {0}
  BY Table DEF TypeOK, TableOK, EndOK
<1> USE <1>0 DEF TypeOK
<1>1. CASE Insmod
  <2>1. /\ driver' \in DriverNames /\ board' \in BOOLEAN /\ module' \in BOOLEAN
        /\ bound' \in BOOLEAN /\ asleep' \in BOOLEAN /\ hollow' \in BOOLEAN
        /\ result' \in {-1, 0} /\ todo' \subseteq All'
        /\ leaving' \in {"no", "board", "driver"} /\ held' \subseteq Resources
    BY <1>1 DEF Insmod, Match, Idle, All, Rank
  <2>2. /\ pc' \in {"idle", "probe", "error", "remove", "oops"}
        /\ step' \in 0..Len(Probe[driver'])
        /\ pc' \in {"probe", "oops"} <=> step' # 0
    BY <1>1 DEF Insmod, Match, Idle, All, Rank
  <2>3. file' \in [Users -> {"closed", "open", "stale"}]
    BY <1>1 DEF Insmod, Match, Idle, All, Rank
  <2> QED BY <2>1, <2>2, <2>3
<1>2. CASE InsmodBoard
  <2>1. /\ driver' \in DriverNames /\ board' \in BOOLEAN /\ module' \in BOOLEAN
        /\ bound' \in BOOLEAN /\ asleep' \in BOOLEAN /\ hollow' \in BOOLEAN
        /\ result' \in {-1, 0} /\ todo' \subseteq All'
        /\ leaving' \in {"no", "board", "driver"} /\ held' \subseteq Resources
    BY <1>2 DEF InsmodBoard, Match, Idle, All, Rank
  <2>2. /\ pc' \in {"idle", "probe", "error", "remove", "oops"}
        /\ step' \in 0..Len(Probe[driver'])
        /\ pc' \in {"probe", "oops"} <=> step' # 0
    BY <1>2 DEF InsmodBoard, Match, Idle, All, Rank
  <2>3. file' \in [Users -> {"closed", "open", "stale"}]
    BY <1>2 DEF InsmodBoard, Match, Idle, All, Rank
  <2> QED BY <2>1, <2>2, <2>3
<1>3. CASE ProbeTakes
  <2>1. /\ driver' \in DriverNames /\ board' \in BOOLEAN /\ module' \in BOOLEAN
        /\ bound' \in BOOLEAN /\ asleep' \in BOOLEAN /\ hollow' \in BOOLEAN
        /\ result' \in {-1, 0} /\ todo' \subseteq All'
        /\ leaving' \in {"no", "board", "driver"} /\ held' \subseteq Resources
    BY <1>3 DEF ProbeTakes, Advance, All, Rank
  <2>2. /\ pc' \in {"idle", "probe", "error", "remove", "oops"}
        /\ step' \in 0..Len(Probe[driver'])
        /\ pc' \in {"probe", "oops"} <=> step' # 0
    BY <1>3 DEF ProbeTakes, Advance, All, Rank
  <2>3. file' \in [Users -> {"closed", "open", "stale"}]
    BY <1>3 DEF ProbeTakes, Advance, All, Rank
  <2> QED BY <2>1, <2>2, <2>3
<1>4. CASE ProbeGoesOn
  <2>1. /\ driver' \in DriverNames /\ board' \in BOOLEAN /\ module' \in BOOLEAN
        /\ bound' \in BOOLEAN /\ asleep' \in BOOLEAN /\ hollow' \in BOOLEAN
        /\ result' \in {-1, 0} /\ todo' \subseteq All'
        /\ leaving' \in {"no", "board", "driver"} /\ held' \subseteq Resources
    BY <1>4 DEF ProbeGoesOn, Advance, All, Rank
  <2>2. /\ pc' \in {"idle", "probe", "error", "remove", "oops"}
        /\ step' \in 0..Len(Probe[driver'])
        /\ pc' \in {"probe", "oops"} <=> step' # 0
    BY <1>4 DEF ProbeGoesOn, Advance, All, Rank
  <2>3. file' \in [Users -> {"closed", "open", "stale"}]
    BY <1>4 DEF ProbeGoesOn, Advance, All, Rank
  <2> QED BY <2>1, <2>2, <2>3
<1>5. CASE ProbeFails
  BY <1>5 DEF ProbeFails, From, All, Rank
<1>6. CASE ProbeOops
  BY <1>6 DEF ProbeOops, All, Rank
<1>7. CASE Reboot
  <2>1. /\ driver' \in DriverNames /\ board' \in BOOLEAN /\ module' \in BOOLEAN
        /\ bound' \in BOOLEAN /\ asleep' \in BOOLEAN /\ hollow' \in BOOLEAN
        /\ result' \in {-1, 0} /\ todo' \subseteq All'
        /\ leaving' \in {"no", "board", "driver"} /\ held' \subseteq Resources
    BY <1>7 DEF Reboot, All, Rank
  <2>2. /\ pc' \in {"idle", "probe", "error", "remove", "oops"}
        /\ step' \in 0..Len(Probe[driver'])
        /\ pc' \in {"probe", "oops"} <=> step' # 0
    BY <1>7 DEF Reboot, All, Rank
  <2>3. file' \in [Users -> {"closed", "open", "stale"}]
    BY <1>7 DEF Reboot, All, Rank
  <2> QED BY <2>1, <2>2, <2>3
<1>8. CASE Release
  BY <1>8 DEF Release, All, Rank
<1>9. CASE ErrorReturns
  BY <1>9 DEF ErrorReturns, All, Rank
<1>10. CASE RmmodBoard
  BY <1>10 DEF RmmodBoard, Idle, All, Rank
<1>11. CASE Rmmod
  BY <1>11 DEF Rmmod, Idle, All, Rank
<1>12. CASE RemoveReturns
  BY <1>12 DEF RemoveReturns, All, Rank
<1>13. CASE Suspend
  BY <1>13 DEF Suspend, Idle, All, Rank
<1>14. CASE Resume
  BY <1>14 DEF Resume, All, Rank, Resources
<1>15. ASSUME NEW u \in Users, Open(u) \/ Close(u) PROVE TypeOK'
  BY <1>15 DEF Open, Close, All, Rank
<1>16. CASE UNCHANGED drvars
  BY <1>16 DEF drvars, All, Rank
<1> QED
  BY <1>1, <1>2, <1>3, <1>4, <1>5, <1>6, <1>7, <1>8, <1>9, <1>10, <1>11,
     <1>12, <1>13, <1>14, <1>15, <1>16 DEF Next, Core, Admin

(* What the tables say of the step that a probe has come to: what it adds to *)
(* what is held, and that the label of its failure covers what came before.  *)
LEMMA StepFacts ==
  ASSUME TypeOK, pc = "probe"
  PROVE  /\ step \in 1..Len(Probe[driver])
         /\ Before(Probe[driver], step + 1) =
              Before(Probe[driver], step) \cup ({Now.takes} \cap Resources)
         /\ StepOK(driver, Probe[driver], step)
         /\ Real(Now) =>
              /\ From(Now.label) \subseteq Before(Probe[driver], step)
              /\ Before(Probe[driver], step) \subseteq Gives(driver, From(Now.label))
         /\ step = Len(Probe[driver]) =>
              /\ All \subseteq Before(Probe[driver], step + 1)
              /\ Before(Probe[driver], step + 1) \subseteq Gives(driver, All)
<1>1. TableOK(driver) /\ Len(Probe[driver]) \in Nat \ {0}
  BY Table DEF TypeOK, TableOK, EndOK
<1>2. step \in 1..Len(Probe[driver])
  BY <1>1 DEF TypeOK
<1>3. Before(Probe[driver], step + 1) =
        Before(Probe[driver], step) \cup ({Now.takes} \cap Resources)
  <2>1. step \in Nat \ {0}
    BY <1>2
  <2>2. CASE Now.takes \in Resources
    BY <2>1, <2>2, BeforeNext DEF Now
  <2>3. CASE Now.takes \notin Resources
    BY <2>1, <2>3, BeforeNext DEF Now
  <2> QED BY <2>2, <2>3
<1>4. StepOK(driver, Probe[driver], step)
  BY <1>1, <1>2 DEF TableOK, OrderOK
<1>5. Real(Now) => LabelOK(driver, Probe[driver], Remove[driver], step)
  BY <1>1, <1>2 DEF TableOK, LabelsOK, Now
<1>6. From(Now.label) = FromIn(Remove[driver], Now.label)
  BY DEF From, FromIn, All, Rank
<1> QED BY <1>1, <1>2, <1>3, <1>4, <1>5, <1>6
        DEF LabelOK, TableOK, EndOK, All, Rank, Now

(* A remove runs exactly while a module leaves.                             *)
LEMMA LeavingNext == IInv /\ [Next]_drvars => Leaving'
<1> SUFFICES ASSUME IInv, [Next]_drvars PROVE Leaving'
  OBVIOUS
<1> USE DEF IInv, Leaving, TypeOK
<1>1. CASE Insmod \/ InsmodBoard \/ Suspend \/ Resume
  BY <1>1 DEF Insmod, InsmodBoard, Suspend, Resume, Match, Idle
<1>2. CASE ProbeTakes \/ ProbeGoesOn \/ ProbeFails \/ ProbeOops
  BY <1>2 DEF ProbeTakes, ProbeGoesOn, ProbeFails, ProbeOops, Advance
<1>3. CASE Reboot
  BY <1>3 DEF Reboot
<1>4. CASE Release
  BY <1>4 DEF Release
<1>5. CASE ErrorReturns \/ RemoveReturns
  BY <1>5 DEF ErrorReturns, RemoveReturns
<1>6. CASE Rmmod \/ RmmodBoard
  BY <1>6 DEF Rmmod, RmmodBoard, Idle
<1>7. ASSUME NEW u \in Users, Open(u) \/ Close(u) PROVE Leaving'
  BY <1>7 DEF Open, Close
<1>8. CASE UNCHANGED drvars
  BY <1>8 DEF drvars
<1> QED BY <1>1, <1>2, <1>3, <1>4, <1>5, <1>6, <1>7, <1>8 DEF Next, Core, Admin

(* No action binds a device without its module and its board.               *)
LEMMA BindingsNext == IInv /\ [Next]_drvars => Bindings'
<1> SUFFICES ASSUME IInv, [Next]_drvars PROVE Bindings'
  OBVIOUS
<1> USE DEF IInv, Bindings, TypeOK
<1>1. CASE Insmod \/ InsmodBoard
  BY <1>1 DEF Insmod, InsmodBoard, Match, Idle
<1>2. CASE Suspend \/ Resume
  BY <1>2 DEF Suspend, Resume, Idle
<1>3. CASE ProbeTakes \/ ProbeGoesOn \/ ProbeOops
  BY <1>3 DEF ProbeTakes, ProbeGoesOn, ProbeOops, Advance
<1>4. CASE ProbeFails
  <2>1. Real(Now) /\ StepOK(driver, Probe[driver], step)
    BY <1>4, StepFacts DEF ProbeFails, Real
  <2> QED BY <1>4, <2>1 DEF ProbeFails, StepOK, Now
<1>5. CASE Release \/ Reboot
  BY <1>5 DEF Release, Reboot
<1>6. CASE ErrorReturns \/ RemoveReturns
  BY <1>6 DEF ErrorReturns, RemoveReturns
<1>7. CASE Rmmod \/ RmmodBoard
  BY <1>7 DEF Rmmod, RmmodBoard, Idle
<1>8. ASSUME NEW u \in Users, Open(u) \/ Close(u) PROVE Bindings'
  BY <1>8 DEF Open, Close
<1>9. CASE UNCHANGED drvars
  BY <1>9 DEF drvars
<1> QED BY <1>1, <1>2, <1>3, <1>4, <1>5, <1>6, <1>7, <1>8, <1>9 DEF Next, Core, Admin

(* Every label and every remove covers what is held when it is entered.     *)
LEMMA CoveredNext == IInv /\ [Next]_drvars => Covered'
<1> SUFFICES ASSUME IInv, [Next]_drvars PROVE Covered'
  OBVIOUS
<1> USE DEF IInv, Covered
<1>1. CASE Insmod \/ InsmodBoard
  BY <1>1, BeforeFirst DEF Insmod, InsmodBoard, Match, Idle, Bindings, All, Rank
<1>2. CASE Suspend
  BY <1>2 DEF Suspend, Idle, All, Rank
<1>3. CASE Resume
  <2>1. "plat" \in Gives(driver, All)
    BY <1>3, Table DEF Resume, Bindings, TypeOK, TableOK, RanksOK, All, Rank
  <2> QED BY <1>3, <2>1 DEF Resume, Bindings, All, Rank
<1>4. CASE ProbeTakes
  <2>1. held' \subseteq Left(driver) \cup Before(Probe[driver], step + 1)
    BY <1>4, StepFacts DEF ProbeTakes
  <2>2. CASE step = Len(Probe[driver])
    <3>1. held' \subseteq Gives(driver, All)
      BY <1>4, <2>1, <2>2, StepFacts DEF ProbeTakes, Gives
    <3> QED BY <1>4, <2>2, <3>1 DEF ProbeTakes, Advance, All, Rank
  <2>3. CASE step # Len(Probe[driver])
    BY <1>4, <2>1, <2>3 DEF ProbeTakes, Advance
  <2> QED BY <2>2, <2>3
<1>5. CASE ProbeGoesOn
  <2>1. held' \subseteq Left(driver) \cup Before(Probe[driver], step + 1)
    BY <1>5, StepFacts DEF ProbeGoesOn
  <2>2. CASE step = Len(Probe[driver])
    <3>1. held' \subseteq Gives(driver, All)
      BY <1>5, <2>1, <2>2, StepFacts DEF ProbeGoesOn, Gives
    <3> QED BY <1>5, <2>2, <3>1 DEF ProbeGoesOn, Advance, All, Rank
  <2>3. CASE step # Len(Probe[driver])
    BY <1>5, <2>1, <2>3 DEF ProbeGoesOn, Advance
  <2> QED BY <2>2, <2>3
<1>6. CASE ProbeFails
  <2>1. Before(Probe[driver], step) \subseteq Gives(driver, From(Now.label))
    BY <1>6, StepFacts DEF ProbeFails, Real
  <2>2. held \subseteq Gives(driver, From(Now.label))
    BY <1>6, <2>1 DEF ProbeFails, Gives
  <2> QED BY <1>6, <2>2 DEF ProbeFails
<1>7. CASE ProbeOops
  BY <1>7 DEF ProbeOops
<1>8. CASE Reboot
  BY <1>8 DEF Reboot, Bindings
<1>9. CASE Release
  <2>1. PICK r \in todo :
          /\ todo' = todo \ {r}
          /\ held' = held \ (IF r = "sdev" THEN {"sdev", "sem"} ELSE {r})
    BY <1>9 DEF Release
  <2>2. held \subseteq Gives(driver, todo)
    BY <1>9 DEF Release
  <2>3. held' \subseteq Gives(driver, todo')
    BY <2>1, <2>2 DEF Gives
  <2> QED BY <1>9, <2>3 DEF Release
<1>10. CASE ErrorReturns
  <2>1. held \subseteq Left(driver)
    BY <1>10 DEF ErrorReturns, Gives
  <2>2. held \subseteq Gives(driver, All)
    BY <2>1 DEF Gives
  <2> QED BY <1>10, <2>1, <2>2 DEF ErrorReturns, All, Rank
<1>11. CASE RemoveReturns
  BY <1>11 DEF RemoveReturns, Gives
<1>12. CASE Rmmod \/ RmmodBoard
  BY <1>12 DEF Rmmod, RmmodBoard, Idle, All, Rank
<1>13. ASSUME NEW u \in Users, Open(u) \/ Close(u) PROVE Covered'
  <2>1. CASE Open(u)
    BY <2>1 DEF Open, All, Rank, Left, Gives
  <2>2. CASE Close(u)
    BY <2>2 DEF Close, All, Rank
  <2> QED BY <1>13, <2>1, <2>2
<1>14. CASE UNCHANGED drvars
  BY <1>14 DEF drvars, All, Rank
<1> QED
  BY <1>1, <1>2, <1>3, <1>4, <1>5, <1>6, <1>7, <1>8, <1>9, <1>10, <1>11,
     <1>12, <1>13, <1>14 DEF Next, Core, Admin

(* Every label and every remove finds what it releases.                     *)
LEMMA OwnedNext == IInv /\ [Next]_drvars => Owned'
<1> SUFFICES ASSUME IInv, [Next]_drvars PROVE Owned'
  OBVIOUS
<1> USE DEF IInv, Owned
<1>1. CASE Insmod \/ InsmodBoard
  BY <1>1, BeforeFirst DEF Insmod, InsmodBoard, Match, Idle, Bindings, All, Rank
<1>2. CASE Suspend
  BY <1>2 DEF Suspend, Idle, All, Rank
<1>3. CASE Resume
  BY <1>3 DEF Resume, Bindings, All, Rank
<1>4. CASE ProbeTakes
  <2>1. ~hollow => Before(Probe[driver], step + 1) \subseteq held'
    BY <1>4, StepFacts DEF ProbeTakes
  <2>2. CASE step = Len(Probe[driver])
    <3>1. ~hollow => All \subseteq held'
      BY <1>4, <2>1, <2>2, StepFacts DEF ProbeTakes
    <3> QED BY <1>4, <2>2, <3>1 DEF ProbeTakes, Advance, All, Rank
  <2>3. CASE step # Len(Probe[driver])
    BY <1>4, <2>1, <2>3 DEF ProbeTakes, Advance
  <2> QED BY <2>2, <2>3
<1>5. CASE ProbeGoesOn
  <2>1. ~hollow' => Before(Probe[driver], step + 1) \subseteq held'
    BY <1>5, StepFacts DEF ProbeGoesOn
  <2>2. CASE step = Len(Probe[driver])
    <3>1. ~hollow' => All \subseteq held'
      BY <1>5, <2>1, <2>2, StepFacts DEF ProbeGoesOn
    <3> QED BY <1>5, <2>2, <3>1 DEF ProbeGoesOn, Advance, All, Rank
  <2>3. CASE step # Len(Probe[driver])
    BY <1>5, <2>1, <2>3 DEF ProbeGoesOn, Advance
  <2> QED BY <2>2, <2>3
<1>6. CASE ProbeFails
  <2>1. From(Now.label) \subseteq Before(Probe[driver], step)
    BY <1>6, StepFacts DEF ProbeFails, Real
  <2> QED BY <1>6, <2>1 DEF ProbeFails
<1>7. CASE ProbeOops
  BY <1>7 DEF ProbeOops
<1>8. CASE Reboot
  BY <1>8 DEF Reboot, Bindings
<1>9. CASE Release
  <2>1. PICK r \in todo :
          /\ todo' = todo \ {r}
          /\ held' = held \ (IF r = "sdev" THEN {"sdev", "sem"} ELSE {r})
    BY <1>9 DEF Release
  <2>2. "sem" \notin todo
    BY Table DEF TypeOK, TableOK, RanksOK, All, Rank
  <2>3. todo \subseteq held => todo' \subseteq held'
    BY <2>1, <2>2
  <2> QED BY <1>9, <2>3 DEF Release
<1>10. CASE ErrorReturns \/ RemoveReturns
  BY <1>10 DEF ErrorReturns, RemoveReturns
<1>11. CASE Rmmod \/ RmmodBoard
  BY <1>11 DEF Rmmod, RmmodBoard, Idle, All, Rank
<1>12. ASSUME NEW u \in Users, Open(u) \/ Close(u) PROVE Owned'
  BY <1>12 DEF Open, Close, All, Rank
<1>13. CASE UNCHANGED drvars
  BY <1>13 DEF drvars, All, Rank
<1> QED
  BY <1>1, <1>2, <1>3, <1>4, <1>5, <1>6, <1>7, <1>8, <1>9, <1>10, <1>11,
     <1>12, <1>13 DEF Next, Core, Admin

(* The structure goes after the ways to reach it.                           *)
LEMMA ReadyNext == IInv /\ [Next]_drvars => Ready'
<1> SUFFICES ASSUME IInv, [Next]_drvars PROVE Ready'
  OBVIOUS
<1> USE DEF IInv, Ready
<1>1. CASE Insmod \/ InsmodBoard
  BY <1>1, BeforeFirst DEF Insmod, InsmodBoard, Match, Idle
<1>2. CASE Suspend \/ Resume
  BY <1>2 DEF Suspend, Resume, Idle, UserNeeds, IrqNeeds
<1>3. CASE ProbeTakes
  <2>1. Before(Probe[driver], step + 1) \cap Needed \subseteq held'
    BY <1>3, StepFacts DEF ProbeTakes
  <2>2. Now.takes = "cdev" => UserNeeds(driver) \subseteq Before(Probe[driver], step)
    BY <1>3, StepFacts DEF ProbeTakes, StepOK, Now
  <2>3. "cdev" \in held' => UserNeeds(driver) \subseteq held'
    BY <1>3, <2>2 DEF ProbeTakes, UserNeeds, Needed
  <2>4. Now.takes = "irq" => IrqNeeds(driver) \subseteq Before(Probe[driver], step)
    BY <1>3, StepFacts DEF ProbeTakes, StepOK, Now
  <2>5. "irq" \in held' => IrqNeeds(driver) \subseteq held'
    BY <1>3, <2>4 DEF ProbeTakes, IrqNeeds, Needed
  <2> QED BY <1>3, <2>1, <2>3, <2>5 DEF ProbeTakes, Advance
<1>4. CASE ProbeGoesOn
  <2>1. Now.takes \notin Needed
    BY <1>4, StepFacts DEF ProbeGoesOn, StepOK, Now
  <2>2. Before(Probe[driver], step + 1) \cap Needed \subseteq held
    BY <1>4, <2>1, StepFacts DEF ProbeGoesOn
  <2> QED BY <1>4, <2>2 DEF ProbeGoesOn, Advance
<1>5. CASE ProbeFails \/ ProbeOops
  BY <1>5 DEF ProbeFails, ProbeOops
<1>6. CASE Reboot
  BY <1>6 DEF Reboot
<1>7. CASE Release
  <2>1. PICK r \in todo :
          /\ \A q \in todo : Rank[r] <= Rank[q]
          /\ held' = held \ (IF r = "sdev" THEN {"sdev", "sem"} ELSE {r})
    BY <1>7 DEF Release
  <2>2. RanksOK(driver, Rank) /\ todo \subseteq DOMAIN Rank
    BY Table DEF TypeOK, TableOK, All, Rank
  <2>3. held \subseteq Gives(driver, todo)
    BY <1>7 DEF Release, Covered
  <2>4. "cdev" \in held => "cdev" \in todo
    BY <2>3 DEF Gives, Left
  <2>5. "irq" \in held => "irq" \in todo
    BY <2>3 DEF Gives, Left
  <2>6. r # "sem"
    BY <2>2 DEF RanksOK
  <2>7. "cdev" \in held' => r # "sdev"
    BY <2>1, <2>2, <2>4 DEF RanksOK
  <2>8. "irq" \in held' => r # "sdev" /\ r # "name"
    BY <2>1, <2>2, <2>5 DEF RanksOK
  <2>9. "cdev" \in held' => UserNeeds(driver) \subseteq held'
    BY <2>1, <2>6, <2>7 DEF UserNeeds
  <2>10. "irq" \in held' => IrqNeeds(driver) \subseteq held'
    BY <2>1, <2>6, <2>8 DEF IrqNeeds
  <2> QED BY <1>7, <2>9, <2>10 DEF Release
<1>8. CASE ErrorReturns \/ RemoveReturns
  BY <1>8 DEF ErrorReturns, RemoveReturns
<1>9. CASE Rmmod \/ RmmodBoard
  BY <1>9 DEF Rmmod, RmmodBoard, Idle
<1>10. ASSUME NEW u \in Users, Open(u) \/ Close(u) PROVE Ready'
  BY <1>10 DEF Open, Close
<1>11. CASE UNCHANGED drvars
  BY <1>11 DEF drvars
<1> QED
  BY <1>1, <1>2, <1>3, <1>4, <1>5, <1>6, <1>7, <1>8, <1>9, <1>10, <1>11
     DEF Next, Core, Admin

(***************************************************************************)
(* Every behaviour of the six drivers satisfies the conjunction.           *)
(***************************************************************************)
THEOREM PlatInvariant == Spec => []IInv
<1>1. IInv /\ [Next]_drvars => IInv'
  BY TypeNext, BindingsNext, CoveredNext, OwnedNext, ReadyNext, LeavingNext DEF IInv
<1> QED BY InitIInv, <1>1, PTL DEF Spec

(***************************************************************************)
(* The step that a probe looks at is a step of its table, and a function   *)
(* releases only what its remove table lists.                              *)
(***************************************************************************)
THEOREM PlatTypeCorrect == Spec => []TypeOK
<1>1. IInv => TypeOK
  BY DEF IInv
<1> QED BY <1>1, PlatInvariant, PTL

(***************************************************************************)
(* Whichever step of whichever probe fails, a driver that is not bound     *)
(* holds nothing (main.c: only what pdata->init set up).                   *)
(***************************************************************************)
THEOREM PlatNothingLeft == Spec => []NothingLeft
<1>1. IInv => NothingLeft
  BY DEF IInv, Covered, NothingLeft, Left
<1> QED BY <1>1, PlatInvariant, PTL

(***************************************************************************)
(* No error label and no remove releases what was not taken, unless a      *)
(* failure was ignored before.                                             *)
(***************************************************************************)
THEOREM PlatFreesWhatItHolds == Spec => []FreesWhatItHolds
<1>1. IInv => FreesWhatItHolds
  BY DEF IInv, Owned, FreesWhatItHolds
<1> QED BY <1>1, PlatInvariant, PTL

(***************************************************************************)
(* Whatever a user or an interrupt can reach is there and initialised, at  *)
(* every step of every probe and remove.                                   *)
(***************************************************************************)
THEOREM PlatLiveMeansReady == Spec => []LiveMeansReady
<1>1. IInv => LiveMeansReady
  BY DEF IInv, Ready, LiveMeansReady, UserNeeds, IrqNeeds
<1> QED BY <1>1, PlatInvariant, PTL

(***************************************************************************)
(* However many users there are, no step but those of the removal of the   *)
(* board and of a failed probe frees the structure of an open file.        *)
(***************************************************************************)
THEOREM PlatBoardPullsFiles == Spec => OnlyBoardPullsFiles
<1> DEFINE Pulls == \A u \in Users : file[u] = "open" /\ file'[u] = "stale"
                      => leaving = "board" \/ pc = "error"
<1>1. IInv /\ [Next]_drvars => [Pulls]_drvars
  <2> SUFFICES ASSUME IInv, Next, NEW u \in Users, file[u] = "open", file'[u] = "stale"
               PROVE  leaving = "board" \/ pc = "error"
    BY DEF Pulls
  <2>1. file' # file
    OBVIOUS
  <2>2. CASE Release
    BY <2>2 DEF Release, IInv, Leaving, TypeOK
  <2>3. CASE Reboot
    BY <2>3 DEF Reboot
  <2>4. ASSUME NEW v \in Users, Open(v) \/ Close(v) PROVE FALSE
    BY <2>4 DEF Open, Close, IInv, TypeOK
  <2>5. CASE Admin
    BY <2>1, <2>5 DEF Admin, Insmod, InsmodBoard, Rmmod, RmmodBoard, Suspend, Resume
  <2>6. CASE Core /\ ~Release
    BY <2>1, <2>6 DEF Core, ProbeTakes, ProbeGoesOn, ProbeFails, ProbeOops,
       ErrorReturns, RemoveReturns
  <2> QED BY <2>2, <2>3, <2>4, <2>5, <2>6 DEF Next
<1> QED BY <1>1, PlatInvariant, PTL DEF Spec, OnlyBoardPullsFiles, Pulls
=============================================================================
