---------------------------- MODULE NodeTaintsProofs ----------------------------
(***************************************************************************)
(* NodeTaints, for any identities, values and bounds.                      *)
(***************************************************************************)
EXTENDS NodeTaints, TLAPS

USE DEF At

(* Types *)

LEMMA ConstantObjects ==
    /\ Empty \in Lists
    /\ NoNode \in Nodes
    /\ NoPlan \in Plans
    /\ Idle \in Reconciles
BY DEF Empty, Lists, NoNode, Nodes, NoPlan, Plans, Idle, Reconciles, Objects

LEMMA PlanType ==
    ASSUME NEW cur, NEW want, NEW applied
    PROVE  diff_node_taints(cur, want, applied) \in Plans
BY DEF diff_node_taints, Plans

LEMMA TargetType ==
    ASSUME NEW seen \in Nodes, NEW plan \in Plans, NEW want \in Lists
    PROVE  /\ Target(seen, plan, want) \in Lists
           /\ Authors(seen, plan) \in [Ids -> {"none", "us", "admin"}]
           /\ Marked(plan) \in SUBSET Ids
BY DEF Target, Authors, Marked, Updated, Nodes, Plans, Lists

LEMMA RecordingType ==
    ASSUME TypeOK PROVE Recording \in Reconciles
<1>1. rec.obj \in Objects
  BY DEF TypeOK, Reconciles
<1>2. [Idle EXCEPT !.pc = "status", !.obj = rec.obj] \in Reconciles
  BY <1>1, ConstantObjects DEF Reconciles
<1> QED BY <1>2, ConstantObjects DEF Recording

LEMMA PatchType ==
    ASSUME TypeOK, PatchEffect PROVE node' \in Nodes
<1>1. /\ Target(rec.seen, rec.plan, rec.obj.want) \in Lists
      /\ Authors(rec.seen, rec.plan) \in [Ids -> {"none", "us", "admin"}]
      /\ Marked(rec.plan) \in SUBSET Ids
  BY TargetType DEF TypeOK, Reconciles, Objects
<1> QED BY <1>1 DEF PatchEffect, TypeOK, Nodes

\* The taint reconcile, its faults and everybody's edits keep every variable in
\* its type.
THEOREM TaintTypes == Spec => []TypeOK
<1>1. Init => TypeOK
  <2> SUFFICES ASSUME Init PROVE TypeOK
    OBVIOUS
  <2>1. sm \in Objects
    BY ConstantObjects DEF Init, Objects
  <2>2. edits \in 0..MaxEdits /\ faults \in 0..MaxFaults
    BY TaintAssumption DEF Init
  <2>3. asked \in [Ids -> SUBSET Values]
    BY DEF Init
  <2>4. touched \in SUBSET Ids
    BY DEF Init
  <2> QED BY <2>1, <2>2, <2>3, <2>4, ConstantObjects, Zenon DEF Init, TypeOK
<1>2. TypeOK /\ [Next]_vars => TypeOK'
  <2> SUFFICES ASSUME TypeOK, [Next]_vars PROVE TypeOK'
    OBVIOUS
  <2>1. CASE Start
    <3>1. [Idle EXCEPT !.pc = "get", !.obj = cache] \in Reconciles
      BY ConstantObjects DEF TypeOK, Reconciles
    <3> QED BY <2>1, <3>1 DEF Start, TypeOK
  <2>2. CASE GetNode
    <3> DEFINE plan == diff_node_taints(node.val, rec.obj.want, rec.obj.applied)
    <3>1. [rec EXCEPT !.pc = "reget", !.plan = plan] \in Reconciles
      <4>1. plan \in Plans
        BY PlanType
      <4> HIDE DEF plan
      <4> QED BY <4>1 DEF TypeOK, Reconciles
    <3>2. rec' \in Reconciles
      <4> HIDE DEF plan
      <4> QED BY <2>2, <3>1, RecordingType, ConstantObjects DEF GetNode, Return, plan
    <3> QED BY <2>2, <3>2 DEF GetNode, TypeOK
  <2>3. CASE RegetNode
    <3>1. [rec EXCEPT !.pc = "patch", !.seen = node] \in Reconciles
      BY DEF TypeOK, Reconciles
    <3> QED BY <2>3, <3>1, ConstantObjects DEF RegetNode, Return, TypeOK
  <2>4. CASE PatchNode
    <3>1. node' \in Nodes
      BY <2>4, PatchType DEF PatchNode, TypeOK
    <3> QED BY <2>4, <3>1, RecordingType, ConstantObjects DEF PatchNode, Return, TypeOK
  <2>5. CASE PatchStatus
    <3>1. sm' \in Objects
      BY <2>5 DEF PatchStatus, RecordedValue, TypeOK, Reconciles, Objects
    <3> QED BY <2>5, <3>1, ConstantObjects DEF PatchStatus, Return, TypeOK
  <2>6. CASE CallFails
    <3>1. faults' \in 0..MaxFaults
      BY <2>6, TaintAssumption DEF CallFails, Fault, TypeOK
    <3> QED BY <2>6, <3>1, ConstantObjects, Zenon DEF CallFails, Fault, Return, TypeOK
  <2>7. CASE PatchAnswerLost
    <3>1. faults' \in 0..MaxFaults
      BY <2>7, TaintAssumption DEF PatchAnswerLost, Fault, TypeOK
    <3>2. node' \in Nodes
      BY <2>7, PatchType DEF PatchAnswerLost
    <3> QED BY <2>7, <3>1, <3>2, ConstantObjects, Zenon
               DEF PatchAnswerLost, Fault, Return, TypeOK
  <2>8. CASE WatchDeliver
    BY <2>8 DEF WatchDeliver, TypeOK
  <2>9. ASSUME NEW want \in Lists, UserEdits(want) PROVE TypeOK'
    <3>1. asked' \in [Ids -> SUBSET Values]
      BY <2>9 DEF UserEdits, TypeOK, Lists
    <3>2. sm' \in Objects
      BY <2>9 DEF UserEdits, TypeOK, Objects
    <3>3. edits' \in 0..MaxEdits
      BY <2>9, TaintAssumption DEF UserEdits, Edit, TypeOK
    <3> QED BY <2>9, <3>1, <3>2, <3>3, Zenon DEF UserEdits, TypeOK
  <2>10. ASSUME NEW new \in Nodes, NodeChanges(new) PROVE TypeOK'
    <3>1. edits' \in 0..MaxEdits
      BY <2>10, TaintAssumption DEF NodeChanges, Edit, TypeOK
    <3>2. touched' \in SUBSET Ids
      BY <2>10 DEF NodeChanges, TypeOK
    <3> QED BY <2>10, <3>1, <3>2, Zenon DEF NodeChanges, TypeOK
  <2>11. ASSUME NEW i \in Ids, NEW v \in Values \cup {Absent}, AdminTaints(i, v)
         PROVE  TypeOK'
    <3>1. [node EXCEPT !.val[i] = v,
                       !.by[i] = IF v = Absent THEN "none" ELSE "admin"] \in Nodes
      BY DEF TypeOK, Nodes, Lists
    <3> QED BY <2>10, <2>11, <3>1 DEF AdminTaints
  <2>12. ASSUME NEW up \in BOOLEAN, NEW ready \in BOOLEAN, NodeLifecycle(up, ready)
         PROVE  TypeOK'
    <3>1. [node EXCEPT !.ready = ready] \in Nodes
      BY DEF TypeOK, Nodes
    <3>2. [NoNode EXCEPT !.up = up, !.ready = ready /\ up] \in Nodes
      BY ConstantObjects DEF Nodes
    <3> QED BY <2>10, <2>12, <3>1, <3>2 DEF NodeLifecycle
  <2>13. CASE UNCHANGED vars
    BY <2>13 DEF vars, TypeOK
  <2> QED BY <2>1, <2>2, <2>3, <2>4, <2>5, <2>6, <2>7, <2>8, <2>9, <2>11, <2>12, <2>13
             DEF Next, TaintStep, Environment
<1> QED BY <1>1, <1>2, PTL DEF Spec

---------------------------------------------------------------------------
(* What a reconcile knows of the taints nobody else touches *)

\* The plan was made for a list that agrees with the Node on the taints nobody else
\* has touched since, and so did the second read.
PlannedFor(cur) ==
    /\ rec.plan = diff_node_taints(cur, rec.obj.want, rec.obj.applied)
    /\ rec.plan.conflicts = {}
    /\ \A i \in Ids \ touched : cur[i] = node.val[i]

PlanCurrent ==
    /\ rec.pc \in {"reget", "patch"} => \E cur \in Lists : PlannedFor(cur)
    /\ rec.pc = "patch" => \A i \in Ids \ touched : rec.seen.val[i] = node.val[i]
    /\ AppliedMeansPresent

\* The algorithm: a plan without conflicts, applied to a taint it was made for, yields
\* what is declared for a declared or recorded identity, leaves every other taint
\* alone, and changes no taint that is not recorded as it stands.
LEMMA PlanWorks ==
    ASSUME NEW seen \in Nodes, NEW cur \in Lists, NEW want \in Lists, NEW applied \in Lists,
           NEW plan, plan = diff_node_taints(cur, want, applied),
           plan.conflicts = {}, NEW i \in Ids, seen.val[i] = cur[i]
    PROVE  /\ want[i] # Absent \/ applied[i] # Absent
              => Target(seen, plan, want)[i] = want[i]
           /\ want[i] = Absent /\ applied[i] = Absent
              => Target(seen, plan, want)[i] = seen.val[i]
           /\ seen.val[i] \in {Absent, Target(seen, plan, want)[i], applied[i]}
BY DEF diff_node_taints, Target, Updated, Nodes, Lists

LEMMA NothingToDo ==
    ASSUME NEW cur \in Lists, NEW want \in Lists, NEW applied \in Lists,
           diff_node_taints(cur, want, applied).conflicts = {},
           is_noop(diff_node_taints(cur, want, applied)), NEW i \in Ids,
           want[i] # Absent \/ applied[i] # Absent
    PROVE  cur[i] = want[i]
BY DEF diff_node_taints, is_noop, Lists

\* Recording leaves the object alone, and is not a state of the plan.
LEMMA RecordingShape ==
    ASSUME TypeOK
    PROVE  /\ Recording.pc \in {"idle", "status"}
           /\ Recording.pc = "status" => Recording.obj = rec.obj
           /\ Recording.pc = "idle" => rec.obj.want = rec.obj.applied
BY DEF Recording, Idle

LEMMA PlanCurrentStep ==
    ASSUME TypeOK, PlanCurrent, [Next]_vars
    PROVE  PlanCurrent'
<1> USE DEF PlanCurrent, AppliedMeansPresent
<1> Idle.pc = "idle"
  BY DEF Idle
<1>1. CASE Start
  BY <1>1 DEF Start, Idle
<1>2. CASE GetNode
  <2> DEFINE plan == diff_node_taints(node.val, rec.obj.want, rec.obj.applied)
  <2>1. CASE rec' = Idle
    BY <2>1 DEF Idle
  <2>2. CASE /\ plan.conflicts = {} /\ ~is_noop(plan)
             /\ rec' = [rec EXCEPT !.pc = "reget", !.plan = plan]
    <3> HIDE DEF plan
    <3>1. rec'.pc = "reget" /\ rec'.plan = plan /\ rec'.obj = rec.obj
      BY <2>2 DEF TypeOK, Reconciles
    <3>2. node.val \in Lists /\ node' = node
      BY <1>2 DEF GetNode, TypeOK, Nodes
    <3>3. PlannedFor(node.val)'
      BY <2>2, <3>1, <3>2 DEF PlannedFor, plan
    <3> QED BY <3>1, <3>2, <3>3
  <2>3. CASE plan.conflicts = {} /\ is_noop(plan) /\ rec' = Recording
    <3>1. node.val \in Lists /\ rec.obj.want \in Lists /\ rec.obj.applied \in Lists
      BY DEF TypeOK, Reconciles, Objects, Nodes
    <3>2. \A i \in Ids : rec.obj.want[i] # Absent \/ rec.obj.applied[i] # Absent
                         => node.val[i] = rec.obj.want[i]
      BY <2>3, <3>1, NothingToDo
    <3> HIDE DEF plan
    <3>3. node' = node
      BY <1>2 DEF GetNode
    <3> QED BY <2>3, <3>2, <3>3, RecordingShape
  <2> QED BY <1>2, <2>1, <2>2, <2>3 DEF GetNode, Return
<1>3. CASE RegetNode
  <2>1. CASE rec' = Idle
    BY <2>1 DEF Idle
  <2>2. CASE rec' = [rec EXCEPT !.pc = "patch", !.seen = node]
    <3>1. /\ rec'.pc = "patch" /\ rec'.plan = rec.plan /\ rec'.obj = rec.obj
          /\ rec'.seen = node
      BY <2>2 DEF TypeOK, Reconciles
    <3> QED BY <1>3, <3>1 DEF RegetNode, PlannedFor
  <2> QED BY <1>3, <2>1, <2>2 DEF RegetNode, Return
<1>4. CASE PatchNode
  <2>1. CASE rec' = Idle
    BY <2>1 DEF Idle
  <2>2. CASE PatchEffect /\ rec' = Recording
    <3>1. rec.seen \in Nodes /\ rec.obj.want \in Lists /\ rec.obj.applied \in Lists
      BY DEF TypeOK, Reconciles, Objects
    <3>2. node'.val = Target(rec.seen, rec.plan, rec.obj.want)
      BY <2>2 DEF PatchEffect, TypeOK, Nodes
    <3>3. PICK cur \in Lists : PlannedFor(cur)
      BY <1>4 DEF PatchNode
    <3>4. touched' = touched /\ \A i \in Ids \ touched : rec.seen.val[i] = cur[i]
      BY <1>4, <3>3 DEF PatchNode, PlannedFor
    <3>5. \A i \in Ids \ touched : rec.obj.want[i] # Absent \/ rec.obj.applied[i] # Absent
                                   => node'.val[i] = rec.obj.want[i]
      BY <3>1, <3>2, <3>3, <3>4, PlanWorks DEF PlannedFor
    <3> QED BY <2>2, <3>4, <3>5, RecordingShape
  <2> QED BY <1>4, <2>1, <2>2 DEF PatchNode, Return
<1>5. CASE PatchStatus \/ CallFails \/ PatchAnswerLost
  BY <1>5 DEF PatchStatus, CallFails, PatchAnswerLost, Return
<1>6. CASE WatchDeliver \/ \E want \in Lists : UserEdits(want)
  BY <1>6 DEF WatchDeliver, UserEdits, PlannedFor
<1>7. ASSUME NEW new, NodeChanges(new) PROVE PlanCurrent'
  <2>1. /\ rec' = rec
        /\ \A i \in Ids \ touched' : i \notin touched /\ node'.val[i] = node.val[i]
    BY <1>7 DEF NodeChanges
  <2>2. ASSUME NEW cur \in Lists, PlannedFor(cur) PROVE PlannedFor(cur)'
    BY <2>1, <2>2 DEF PlannedFor
  <2> QED BY <2>1, <2>2
<1>8. CASE UNCHANGED vars
  BY <1>8 DEF vars, PlannedFor
<1> QED BY <1>1, <1>2, <1>3, <1>4, <1>5, <1>6, <1>7, <1>8
           DEF Next, TaintStep, Environment, AdminTaints, NodeLifecycle

\* The outcome Applied is the truth about the Node.
THEOREM AppliedIsPresent == Spec => []AppliedMeansPresent
<1>1. Init => PlanCurrent
  BY DEF Init, PlanCurrent, AppliedMeansPresent, Idle
<1>2. PlanCurrent => AppliedMeansPresent
  BY DEF PlanCurrent, AppliedMeansPresent
<1> QED BY <1>1, <1>2, TaintTypes, PlanCurrentStep, PTL DEF Spec

\* What is declared or recorded, in whatever copy, was once asked for.
AskedFor(list) == \A i \in Ids : list[i] \in asked[i] \cup {Absent}

Asked ==
    /\ AskedFor(sm.want) /\ AskedFor(sm.applied)
    /\ AskedFor(cache.want) /\ AskedFor(cache.applied)
    /\ AskedFor(rec.obj.want) /\ AskedFor(rec.obj.applied)

LEMMA AskedStep ==
    ASSUME TypeOK, Asked, [Next]_vars PROVE Asked'
<1> USE DEF Asked, AskedFor
<1>1. AskedFor(Idle.obj.want) /\ AskedFor(Idle.obj.applied)
  BY DEF Idle, Empty
<1>2. ASSUME rec' \in {rec, Idle} \/ rec'.obj = rec.obj, sm' = sm, cache' \in {cache, sm},
             asked' = asked
      PROVE  Asked'
  BY <1>1, <1>2
<1>3. CASE Start
  <2>1. rec'.obj = cache
    BY <1>3 DEF Start, Idle
  <2> QED BY <1>3, <2>1 DEF Start
<1>4. CASE GetNode \/ RegetNode \/ PatchNode
  <2>1. rec' = Idle \/ rec'.obj = rec.obj
    BY <1>4 DEF GetNode, RegetNode, PatchNode, Return, Recording, Idle, TypeOK, Reconciles
  <2> QED BY <1>2, <1>4, <2>1 DEF GetNode, RegetNode, PatchNode
<1>5. CASE PatchStatus
  <2>1. sm'.applied = rec.obj.want /\ sm'.want = sm.want
    BY <1>5 DEF PatchStatus, RecordedValue, TypeOK, Objects
  <2> QED BY <1>1, <1>5, <2>1 DEF PatchStatus, Return
<1>6. CASE CallFails \/ PatchAnswerLost \/ WatchDeliver
  BY <1>2, <1>6 DEF CallFails, PatchAnswerLost, WatchDeliver, Return
<1>7. ASSUME NEW want \in Lists, UserEdits(want) PROVE Asked'
  <2>1. sm'.applied = sm.applied /\ sm'.want = want /\ UNCHANGED <<cache, rec>>
    BY <1>7 DEF UserEdits, TypeOK, Objects
  <2>2. \A i \in Ids : asked'[i] = asked[i] \cup ({want[i]} \ {Absent})
    BY <1>7 DEF UserEdits
  <2> QED BY <2>1, <2>2
<1>8. ASSUME NEW new, NodeChanges(new) PROVE Asked'
  BY <1>2, <1>8 DEF NodeChanges
<1>9. CASE UNCHANGED vars
  BY <1>2, <1>9 DEF vars
<1> QED BY <1>3, <1>4, <1>5, <1>6, <1>7, <1>8, <1>9
           DEF Next, TaintStep, Environment, AdminTaints, NodeLifecycle

\* No taint is changed or removed whose value the spec never declared, but for those
\* that change between the plan's read and the patch.
THEOREM OnlyOwnTaints == Spec => OwnTaintsOnly
<1> DEFINE Ours == \A i \in Ids \ touched' :
        node'.val[i] # node.val[i] => node.val[i] \in asked[i] \cup {Absent}
<1>1. Init => PlanCurrent /\ Asked
  BY DEF Init, PlanCurrent, AppliedMeansPresent, Idle, Asked, AskedFor, Empty
<1>2. TypeOK /\ PlanCurrent /\ Asked /\ [Next]_vars => [Ours]_vars
  <2> SUFFICES ASSUME TypeOK, PlanCurrent, Asked, [Next]_vars,
                      NEW i \in Ids \ touched', node'.val[i] # node.val[i]
               PROVE  node.val[i] \in asked[i] \cup {Absent}
    BY DEF Ours
  <2>1. PatchEffect /\ rec.pc = "patch" /\ touched' = touched
    BY DEF Next, TaintStep, Environment, Start, GetNode, RegetNode, PatchNode, PatchStatus,
           CallFails, PatchAnswerLost, WatchDeliver, UserEdits, AdminTaints,
           NodeLifecycle, NodeChanges, vars
  <2>2. node'.val = Target(rec.seen, rec.plan, rec.obj.want)
    BY <2>1 DEF PatchEffect, TypeOK, Nodes
  <2>3. rec.seen \in Nodes /\ rec.obj.want \in Lists /\ rec.obj.applied \in Lists
    BY DEF TypeOK, Reconciles, Objects
  <2>4. PICK cur \in Lists : PlannedFor(cur)
    BY <2>1 DEF PlanCurrent
  <2>5. rec.seen.val[i] = cur[i] /\ rec.seen.val[i] = node.val[i]
    BY <2>1, <2>4 DEF PlanCurrent, PlannedFor
  <2>6. /\ rec.plan = diff_node_taints(cur, rec.obj.want, rec.obj.applied)
        /\ rec.plan.conflicts = {} /\ i \in Ids
    BY <2>4 DEF PlannedFor
  <2>7. rec.seen.val[i] \in {Absent, Target(rec.seen, rec.plan, rec.obj.want)[i], rec.obj.applied[i]}
    <3> DEFINE seen == rec.seen
               plan == rec.plan
               want == rec.obj.want
               applied == rec.obj.applied
    <3>1. /\ seen \in Nodes /\ want \in Lists /\ applied \in Lists /\ cur \in Lists /\ i \in Ids
          /\ plan = diff_node_taints(cur, want, applied) /\ plan.conflicts = {}
          /\ seen.val[i] = cur[i]
      BY <2>3, <2>5, <2>6
    <3> HIDE DEF seen, plan, want, applied
    <3>2. seen.val[i] \in {Absent, Target(seen, plan, want)[i], applied[i]}
      BY ONLY <3>1, PlanWorks, Zenon
    <3> QED BY <3>2 DEF seen, plan, want, applied
  <2>8. node.val[i] \in {Absent, rec.obj.applied[i]}
    BY <2>2, <2>5, <2>7
  <2> QED BY <2>1, <2>8 DEF Asked, AskedFor
<1> QED BY <1>1, <1>2, TaintTypes, PlanCurrentStep, AskedStep, PTL DEF Spec, OwnTaintsOnly

---------------------------------------------------------------------------
(* The ledger *)

\* Every taint of ours on n is dealt with by the plan.
Covered(n) ==
    \A i \in Ids : n.by[i] = "us" =>
        /\ n.val[i] # Absent
        /\ \/ i \in rec.plan.to_remove
           \/ i \in rec.plan.to_update
           \/ i \in rec.plan.unchanged /\ n.val[i] = rec.obj.want[i]

\* Why our taints are recorded and listed: up to the patch status.appliedNodeTaints
\* is the copy the reconcile works with and records them; the plan covers them in
\* what it saw, so that after the patch each is one the status is about to record.
LedgerListed ==
    \A i \in Ids : node.by[i] = "us" => node.val[i] # Absent /\ i \in node.marked

LedgerRecorded ==
    rec.pc # "status" => \A i \in Ids : node.by[i] = "us" => sm.applied[i] = node.val[i]

LedgerCopy == rec.pc \in {"get", "reget", "patch"} => rec.obj.applied = sm.applied

LedgerPlanned ==
    /\ rec.pc \in {"reget", "patch"} =>
         /\ \A i \in rec.plan.to_add \cup rec.plan.to_update : rec.obj.want[i] # Absent
         /\ Covered(node)
    /\ rec.pc = "patch" => Covered(rec.seen)

LedgerPending ==
    rec.pc = "status" => \A i \in Ids : node.by[i] = "us" => node.val[i] = rec.obj.want[i]

Ledger == clean => /\ LedgerListed /\ LedgerRecorded /\ LedgerCopy
                   /\ LedgerPlanned /\ LedgerPending

LEMMA PlanCovers ==
    ASSUME NEW n \in Nodes, NEW want \in Lists, NEW applied \in Lists,
           NEW plan, plan = diff_node_taints(n.val, want, applied), plan.conflicts = {},
           NEW i \in Ids, n.val[i] # Absent, applied[i] = n.val[i]
    PROVE  \/ i \in plan.to_remove
           \/ i \in plan.to_update
           \/ i \in plan.unchanged /\ n.val[i] = want[i]
BY DEF diff_node_taints, Nodes, Lists

\* After the patch every taint of ours is a declared one, and listed.
LEMMA PatchCovers ==
    ASSUME TypeOK, clean, LedgerPlanned, rec.pc = "patch", PatchEffect
    PROVE  \A i \in Ids : node'.by[i] = "us" =>
               /\ node'.val[i] # Absent
               /\ node'.val[i] = rec.obj.want[i]
               /\ i \in node'.marked
<1>1. /\ node'.val = Target(rec.seen, rec.plan, rec.obj.want)
      /\ node'.by = Authors(rec.seen, rec.plan)
      /\ node'.marked = Marked(rec.plan)
  BY DEF PatchEffect, TypeOK, Nodes
<1>2. SUFFICES ASSUME NEW i \in Ids, Authors(rec.seen, rec.plan)[i] = "us"
               PROVE  /\ Target(rec.seen, rec.plan, rec.obj.want)[i] # Absent
                      /\ Target(rec.seen, rec.plan, rec.obj.want)[i] = rec.obj.want[i]
                      /\ i \in Marked(rec.plan)
  BY <1>1
<1>3. CASE i \in rec.plan.to_add \cup Updated(rec.seen, rec.plan)
  BY <1>3 DEF LedgerPlanned, Target, Marked, Updated
<1>4. CASE i \notin rec.plan.to_add \cup Updated(rec.seen, rec.plan)
  <2>1. i \notin rec.plan.to_remove /\ rec.seen.by[i] = "us"
    BY <1>2, <1>4 DEF Authors
  <2>2. rec.seen.val[i] # Absent /\ i \in rec.plan.unchanged
        /\ rec.seen.val[i] = rec.obj.want[i]
    BY <1>4, <2>1 DEF LedgerPlanned, Covered, Updated
  <2> QED BY <1>4, <2>1, <2>2 DEF Target, Marked
<1> QED BY <1>3, <1>4

LEMMA LedgerStep ==
    ASSUME TypeOK, Ledger, [Next]_vars
    PROVE  Ledger'
<1> USE DEF Ledger
<1> Idle.pc = "idle"
  BY DEF Idle
<1> DEFINE Parts == LedgerListed /\ LedgerRecorded /\ LedgerCopy
                    /\ LedgerPlanned /\ LedgerPending
<1>1. ASSUME clean, Parts, rec' = Idle, UNCHANGED <<sm, node>>, rec.pc # "status"
      PROVE  Parts'
  BY <1>1 DEF LedgerListed, LedgerRecorded, LedgerCopy, LedgerPlanned, LedgerPending
<1>2. CASE Start
  <2>1. rec'.pc = "get" /\ rec'.obj = cache
    BY <1>2 DEF Start, Idle
  <2> QED BY <1>2, <2>1 DEF Start, LedgerListed, LedgerRecorded, LedgerCopy,
                            LedgerPlanned, LedgerPending
<1>3. CASE GetNode
  <2> SUFFICES ASSUME clean, Parts PROVE Parts'
    BY <1>3 DEF GetNode
  <2> DEFINE plan == diff_node_taints(node.val, rec.obj.want, rec.obj.applied)
  <2>1. /\ node \in Nodes /\ node.val \in Lists
        /\ rec.obj.want \in Lists /\ rec.obj.applied \in Lists
    BY DEF TypeOK, Reconciles, Objects, Nodes
  <2>2. \A i \in Ids : node.by[i] = "us" =>
            node.val[i] # Absent /\ rec.obj.applied[i] = node.val[i]
    BY <1>3 DEF GetNode, LedgerListed, LedgerRecorded, LedgerCopy
  <2>3. CASE rec' = Idle
    BY <1>1, <1>3, <2>3 DEF GetNode
  <2>4. CASE /\ plan.conflicts = {}
             /\ rec' = [rec EXCEPT !.pc = "reget", !.plan = plan]
    <3>1. \A i \in Ids : node.by[i] = "us" =>
             \/ i \in plan.to_remove
             \/ i \in plan.to_update
             \/ i \in plan.unchanged /\ node.val[i] = rec.obj.want[i]
      BY <2>1, <2>2, <2>4, PlanCovers
    <3>2. \A i \in plan.to_add \cup plan.to_update : rec.obj.want[i] # Absent
      BY DEF diff_node_taints
    <3> HIDE DEF plan
    <3>3. rec'.pc = "reget" /\ rec'.plan = plan /\ rec'.obj = rec.obj
      BY <2>4 DEF TypeOK, Reconciles
    <3>4. node' = node /\ sm' = sm
      BY <1>3 DEF GetNode
    <3>5. LedgerPlanned'
      BY <2>2, <3>1, <3>2, <3>3, <3>4 DEF LedgerPlanned, Covered
    <3> QED BY <1>3, <3>3, <3>4, <3>5
               DEF GetNode, LedgerListed, LedgerRecorded, LedgerCopy, LedgerPending
  <2>5. CASE plan.conflicts = {} /\ is_noop(plan) /\ rec' = Recording
    <3>1. \A i \in Ids : node.by[i] = "us" => node.val[i] = rec.obj.want[i]
      BY <2>1, <2>2, <2>5, NothingToDo
    <3> HIDE DEF plan
    <3>2. node' = node /\ sm' = sm
      BY <1>3 DEF GetNode
    <3> QED BY <1>3, <2>5, <3>1, <3>2, RecordingShape
               DEF GetNode, LedgerListed, LedgerRecorded, LedgerCopy, LedgerPlanned,
                   LedgerPending
  <2> QED BY <1>3, <2>3, <2>4, <2>5 DEF GetNode, Return
<1>4. CASE RegetNode
  <2> SUFFICES ASSUME clean, Parts PROVE Parts'
    BY <1>4 DEF RegetNode
  <2>1. CASE rec' = Idle
    BY <1>1, <1>4, <2>1 DEF RegetNode
  <2>2. CASE rec' = [rec EXCEPT !.pc = "patch", !.seen = node]
    <3>1. /\ rec'.pc = "patch" /\ rec'.plan = rec.plan /\ rec'.obj = rec.obj
          /\ rec'.seen = node
      BY <2>2 DEF TypeOK, Reconciles
    <3> QED BY <1>4, <3>1 DEF RegetNode, LedgerListed, LedgerRecorded, LedgerCopy,
                              LedgerPlanned, LedgerPending, Covered
  <2> QED BY <1>4, <2>1, <2>2 DEF RegetNode, Return
<1>5. CASE PatchNode
  <2> SUFFICES ASSUME clean, Parts PROVE Parts'
    BY <1>5 DEF PatchNode
  <2>1. CASE rec' = Idle /\ UNCHANGED node
    BY <1>1, <1>5, <2>1 DEF PatchNode
  <2>2. CASE PatchEffect /\ rec' = Recording
    <3>1. \A i \in Ids : node'.by[i] = "us" =>
             /\ node'.val[i] # Absent
             /\ node'.val[i] = rec.obj.want[i]
             /\ i \in node'.marked
      BY <1>5, <2>2, PatchCovers DEF PatchNode
    <3>2. sm' = sm /\ rec.obj.applied = sm.applied
      BY <1>5 DEF PatchNode, LedgerCopy
    <3> QED BY <2>2, <3>1, <3>2, RecordingShape
               DEF LedgerListed, LedgerRecorded, LedgerCopy, LedgerPlanned, LedgerPending
  <2> QED BY <1>5, <2>1, <2>2 DEF PatchNode, Return
<1>6. CASE PatchStatus
  <2>1. sm'.applied = rec.obj.want /\ node' = node /\ rec' = Idle
    BY <1>6 DEF PatchStatus, RecordedValue, Return, TypeOK, Objects
  <2> QED BY <1>6, <2>1 DEF PatchStatus, LedgerListed, LedgerRecorded, LedgerCopy,
                            LedgerPlanned, LedgerPending
<1>7. CASE CallFails \/ PatchAnswerLost
  BY <1>7 DEF CallFails, PatchAnswerLost, Fault
<1>8. CASE WatchDeliver \/ \E want \in Lists : UserEdits(want)
  <2>1. sm'.applied = sm.applied /\ UNCHANGED <<node, rec, clean>>
    BY <1>8 DEF WatchDeliver, UserEdits, TypeOK, Objects
  <2> QED BY <2>1 DEF LedgerListed, LedgerRecorded, LedgerCopy, LedgerPlanned,
                      LedgerPending, Covered
<1>9. ASSUME NEW new, NodeChanges(new),
             \A i \in Ids : new.by[i] = "us" =>
                 node.by[i] = "us" /\ new.val[i] = node.val[i]
                 /\ (i \in node.marked => i \in new.marked)
      PROVE  Ledger'
  BY <1>9 DEF NodeChanges, LedgerListed, LedgerRecorded, LedgerCopy, LedgerPlanned,
              LedgerPending, Covered
<1>10. ASSUME NEW i \in Ids, NEW v \in Values \cup {Absent}, AdminTaints(i, v)
       PROVE  Ledger'
  <2> DEFINE new == [node EXCEPT !.val[i] = v,
                                 !.by[i] = IF v = Absent THEN "none" ELSE "admin"]
  <2>1. \A j \in Ids : new.by[j] = "us" =>
            node.by[j] = "us" /\ new.val[j] = node.val[j]
            /\ (j \in node.marked => j \in new.marked)
    BY DEF TypeOK, Nodes, Lists
  <2> QED BY <1>9, <1>10, <2>1 DEF AdminTaints
<1>11. ASSUME NEW up \in BOOLEAN, NEW ready \in BOOLEAN, NodeLifecycle(up, ready)
       PROVE  Ledger'
  <2>1. CASE NodeChanges([node EXCEPT !.ready = ready])
    BY <1>9, <2>1 DEF TypeOK, Nodes
  <2>2. CASE NodeChanges([NoNode EXCEPT !.up = up, !.ready = ready /\ up])
    BY <1>9, <2>2 DEF NoNode
  <2> QED BY <1>11, <2>1, <2>2 DEF NodeLifecycle
<1>12. CASE UNCHANGED vars
  BY <1>12 DEF vars, LedgerListed, LedgerRecorded, LedgerCopy, LedgerPlanned,
               LedgerPending, Covered
<1> QED BY <1>2, <1>3, <1>4, <1>5, <1>6, <1>7, <1>8, <1>10, <1>11, <1>12
           DEF Next, TaintStep, Environment

LEMMA LedgerHolds == Spec => []Ledger
<1>1. Init => Ledger
  BY DEF Init, Ledger, LedgerListed, LedgerRecorded, LedgerCopy, LedgerPlanned,
         LedgerPending, NoNode, Idle
<1> QED BY <1>1, TaintTypes, LedgerStep, PTL DEF Spec

\* status.appliedNodeTaints records every taint the operator has on the Node.
THEOREM OursRecorded == Spec => []OursAreRecorded
<1>1. Ledger => OursAreRecorded
  BY DEF Ledger, LedgerRecorded, OursAreRecorded
<1> QED BY <1>1, LedgerHolds, PTL

\* The annotation lists every taint the operator has on the Node.
THEOREM OursListed == Spec => []OursAreListed
<1>1. Ledger => OursAreListed
  BY DEF Ledger, LedgerListed, OursAreListed
<1> QED BY <1>1, LedgerHolds, PTL
=============================================================================
