------------------------------- MODULE NodeTaints -------------------------------
(***************************************************************************)
(* The taints of one ScheduledMachine's Node: spec.nodeTaints, the Node's  *)
(* own list, status.appliedNodeTaints (what the operator believes it put   *)
(* there) and the applied-taints annotation.  reconcile_node_taints reads  *)
(* the Node, plans, reads it again, replaces the whole list, and only then *)
(* records the result; users and cluster admins edit in between.           *)
(*                                                                         *)
(* The module is about an object in phase Active with a nodeRef: this is   *)
(* when handle_active_phase runs the taint reconcile.                      *)
(***************************************************************************)
EXTENDS Naturals

CONSTANTS
    Ids,         \* taint identities: (key, effect) pairs
    Values,      \* taint values; "no value" is one of them
    Absent,      \* no such taint
    MaxEdits,    \* bound on what users, admins and the Node's lifecycle do
    MaxFaults    \* bound on calls that fail or whose answer is lost

ASSUME TaintAssumption ==
    /\ Absent \notin Values
    /\ MaxEdits \in Nat /\ MaxFaults \in Nat

VARIABLES
    sm,      \* [want: spec.nodeTaints, applied: status.appliedNodeTaints]
    cache,   \* the watch cache's copy of sm, possibly an old one
    node,    \* the Node, with the author of each taint
    rec,     \* the taint reconcile in flight
    touched, \* history: the taints somebody else changed since the plan's read
    asked,   \* history: the values the spec has ever declared
    clean,   \* history: no fault, and no reconcile began with an old record
    edits,   \* edits so far
    faults   \* faults so far

vars == <<sm, cache, node, rec, touched, asked, clean, edits, faults>>

---------------------------------------------------------------------------
(* Types *)

\* A list of taints, (key, effect) unique: validate_node_taints and the
\* admission policy for ours, the API server's own validation for a Node's.
Lists == [Ids -> Values \cup {Absent}]
Empty == [i \in Ids |-> Absent]

Objects == [want : Lists, applied : Lists]

\* by: who wrote the taint last.  marked: the applied-taints annotation.
Nodes == [up : BOOLEAN, ready : BOOLEAN, val : Lists,
          by : [Ids -> {"none", "us", "admin"}], marked : SUBSET Ids]

NoNode == [up |-> FALSE, ready |-> FALSE, val |-> Empty,
           by |-> [i \in Ids |-> "none"], marked |-> {}]

\* NodeTaintPlan.
Plans == [to_add : SUBSET Ids, to_update : SUBSET Ids, to_remove : SUBSET Ids,
          unchanged : SUBSET Ids, conflicts : SUBSET Ids]

NoPlan == [to_add |-> {}, to_update |-> {}, to_remove |-> {},
           unchanged |-> {}, conflicts |-> {}]

Reconciles == [pc : {"idle", "get", "reget", "patch", "status"},
               obj : Objects, plan : Plans, seen : Nodes]

Idle == [pc |-> "idle", obj |-> [want |-> Empty, applied |-> Empty],
         plan |-> NoPlan, seen |-> NoNode]

TypeOK ==
    /\ sm \in Objects
    /\ cache \in Objects
    /\ node \in Nodes
    /\ rec \in Reconciles
    /\ touched \in SUBSET Ids
    /\ asked \in [Ids -> SUBSET Values]
    /\ clean \in BOOLEAN
    /\ edits \in 0..MaxEdits
    /\ faults \in 0..MaxFaults

Init ==
    /\ sm = [want |-> Empty, applied |-> Empty]
    /\ cache = sm
    /\ node = NoNode
    /\ rec = Idle
    /\ touched = Ids
    /\ asked = [i \in Ids |-> {}]
    /\ clean = TRUE
    /\ edits = 0
    /\ faults = 0

---------------------------------------------------------------------------
(* The plan *)

\* Mutant: any taint of a declared identity is overwritten.
diff_node_taints_greedy(cur, want, applied) ==
    LET declared == {i \in Ids : want[i] # Absent}
        present  == {i \in Ids : cur[i] # Absent}
    IN [to_add    |-> declared \ present,
        to_update |-> {i \in declared \cap present : cur[i] # want[i]},
        to_remove |-> {i \in present \ declared : applied[i] = cur[i]},
        unchanged |-> {i \in declared \cap present : cur[i] = want[i]},
        conflicts |-> {i \in present \ declared : applied[i] \notin {Absent, cur[i]}}]

\* Mutant: a taint that has left the spec is forgotten.
diff_node_taints_no_removal(cur, want, applied) ==
    LET declared == {i \in Ids : want[i] # Absent}
        present  == {i \in Ids : cur[i] # Absent}
        owned    == {i \in present : applied[i] = cur[i]}
    IN [to_add    |-> declared \ present,
        to_update |-> {i \in declared \cap owned : cur[i] # want[i]},
        to_remove |-> {},
        unchanged |-> {i \in declared \cap present : cur[i] = want[i]},
        conflicts |-> {i \in (declared \cap present) \ owned : cur[i] # want[i]}
                      \cup {i \in (present \ declared) \ owned : applied[i] # Absent}]

\* diff_node_taints: a taint on the Node is ours when status records it with
\* the value it has; a declared or recorded one that is not ours conflicts.
diff_node_taints(cur, want, applied) ==
    LET declared == {i \in Ids : want[i] # Absent}
        present  == {i \in Ids : cur[i] # Absent}
        owned    == {i \in present : applied[i] = cur[i]}
    IN [to_add    |-> declared \ present,
        to_update |-> {i \in declared \cap owned : cur[i] # want[i]},
        to_remove |-> owned \ declared,
        unchanged |-> {i \in declared \cap present : cur[i] = want[i]},
        conflicts |-> {i \in (declared \cap present) \ owned : cur[i] # want[i]}
                      \cup {i \in (present \ declared) \ owned : applied[i] # Absent}]

is_noop(plan) == plan.to_add = {} /\ plan.to_update = {} /\ plan.to_remove = {}

\* The Node apply_node_taints asks for, built from the Node it has just seen:
\* an update of a taint that is no longer there has no effect.
Updated(seen, plan) == {i \in plan.to_update : seen.val[i] # Absent}

Target(seen, plan, want) ==
    [i \in Ids |-> IF i \in plan.to_add \cup Updated(seen, plan) THEN want[i]
                   ELSE IF i \in plan.to_remove THEN Absent
                   ELSE seen.val[i]]

Authors(seen, plan) ==
    [i \in Ids |-> IF i \in plan.to_add \cup Updated(seen, plan) THEN "us"
                   ELSE IF i \in plan.to_remove THEN "none"
                   ELSE seen.by[i]]

\* The annotation: what was added, updated or already right.
Marked(plan) == plan.to_add \cup plan.to_update \cup plan.unchanged

---------------------------------------------------------------------------
(* reconcile_node_taints_best_effort *)

At(call) == rec.pc = call
Return == rec' = Idle

Fault == /\ faults < MaxFaults
         /\ faults' = faults + 1
         /\ clean' = FALSE

\* Mutant: a spec without taints is nothing to do.
StartIfDeclared ==
    /\ At("idle")
    /\ cache.want # Empty
    /\ rec' = [Idle EXCEPT !.pc = "get", !.obj = cache]
    /\ clean' = (clean /\ cache.applied = sm.applied)
    /\ UNCHANGED <<sm, cache, node, touched, asked, edits, faults>>

\* Nothing declared and nothing recorded: the Node is not even read.
Start ==
    /\ At("idle")
    /\ cache # [want |-> Empty, applied |-> Empty]
    /\ rec' = [Idle EXCEPT !.pc = "get", !.obj = cache]
    /\ clean' = (clean /\ cache.applied = sm.applied)
    /\ UNCHANGED <<sm, cache, node, touched, asked, edits, faults>>

\* Outcome Applied: the status is only written when it changes.
Recording == IF rec.obj.want = rec.obj.applied THEN Idle
             ELSE [Idle EXCEPT !.pc = "status", !.obj = rec.obj]

\* GET Node; NoNodeYet, NodeNotReady and Conflict end the reconcile.
GetNode ==
    LET plan == diff_node_taints(node.val, rec.obj.want, rec.obj.applied) IN
    /\ At("get")
    /\ touched' = {}
    /\ \/ /\ ~node.up \/ ~node.ready \/ plan.conflicts # {}
          /\ Return
       \/ /\ node.up /\ node.ready /\ plan.conflicts = {}
          /\ rec' = IF is_noop(plan) THEN Recording
                    ELSE [rec EXCEPT !.pc = "reget", !.plan = plan]
    /\ UNCHANGED <<sm, cache, node, asked, clean, edits, faults>>

\* apply_node_taints reads the Node again.
RegetNode ==
    /\ At("reget")
    /\ IF node.up THEN rec' = [rec EXCEPT !.pc = "patch", !.seen = node] ELSE Return
    /\ UNCHANGED <<sm, cache, node, touched, asked, clean, edits, faults>>

\* A list with two taints of one identity is refused by the API server.
Refused == ~node.up \/ \E i \in rec.plan.to_add : rec.seen.val[i] # Absent

\* Server-side apply with force: the list is replaced as a whole.
PatchEffect ==
    node' = [node EXCEPT !.val = Target(rec.seen, rec.plan, rec.obj.want),
                         !.by = Authors(rec.seen, rec.plan),
                         !.marked = Marked(rec.plan)]

PatchNode ==
    /\ At("patch")
    /\ \/ Refused /\ Return /\ UNCHANGED node
       \/ ~Refused /\ PatchEffect /\ rec' = Recording
    /\ UNCHANGED <<sm, cache, touched, asked, clean, edits, faults>>

\* Mutant: the old record is written back.
RecordedValueOld == rec.obj.applied

RecordedValue == rec.obj.want

\* patch_applied_node_taints_status.
PatchStatus ==
    /\ At("status")
    /\ sm' = [sm EXCEPT !.applied = RecordedValue]
    /\ Return
    /\ UNCHANGED <<cache, node, touched, asked, clean, edits, faults>>

TaintStep == Start \/ GetNode \/ RegetNode \/ PatchNode \/ PatchStatus

\* A call fails or the process dies: every error is logged and dropped.
CallFails ==
    /\ ~At("idle")
    /\ Fault /\ Return
    /\ UNCHANGED <<sm, cache, node, touched, asked, edits>>

\* The Node was patched, but the operator does not live to see the answer.
PatchAnswerLost ==
    /\ At("patch") /\ ~Refused
    /\ PatchEffect
    /\ Fault /\ Return
    /\ UNCHANGED <<sm, cache, touched, asked, edits>>

---------------------------------------------------------------------------
(* The environment *)

WatchDeliver ==
    /\ cache # sm
    /\ cache' = sm
    /\ UNCHANGED <<sm, node, rec, touched, asked, clean, edits, faults>>

Edit == edits < MaxEdits /\ edits' = edits + 1

UserEdits(want) ==
    /\ Edit
    /\ sm' = [sm EXCEPT !.want = want]
    /\ asked' = [i \in Ids |-> asked[i] \cup ({want[i]} \ {Absent})]
    /\ UNCHANGED <<cache, node, rec, touched, clean, faults>>

NodeChanges(new) ==
    /\ Edit
    /\ new # node /\ node' = new
    /\ touched' = touched \cup {i \in Ids : new.val[i] # node.val[i]}
    /\ UNCHANGED <<sm, cache, rec, asked, clean, faults>>

AdminTaints(i, v) ==
    /\ node.up
    /\ NodeChanges([node EXCEPT !.val[i] = v,
                                !.by[i] = IF v = Absent THEN "none" ELSE "admin"])

\* The Machine's Node registers, turns Ready or not, or goes with its Machine.
NodeLifecycle(up, ready) ==
    NodeChanges(IF up /\ node.up THEN [node EXCEPT !.ready = ready]
                ELSE [NoNode EXCEPT !.up = up, !.ready = ready /\ up])

Environment ==
    \/ WatchDeliver
    \/ \E want \in Lists : UserEdits(want)
    \/ \E i \in Ids, v \in Values \cup {Absent} : AdminTaints(i, v)
    \/ \E up, ready \in BOOLEAN : NodeLifecycle(up, ready)

Next == TaintStep \/ CallFails \/ PatchAnswerLost \/ Environment

Spec == Init /\ [][Next]_vars

\* The Node watch and the requeue timer of phase Active re-run the reconcile;
\* the watch cache catches up.
FairSpec == Spec /\ WF_vars(TaintStep) /\ WF_vars(WatchDeliver)

---------------------------------------------------------------------------
(* Properties *)

\* What the operator changes or removes on the Node, it was once asked for: a taint
\* of a value spec.nodeTaints never declared stays, whatever record, old copy or
\* lost answer the plan rests on, and also when the patch crosses an admin's edit
\* of another taint.  Exempt are the taints that change between the plan's read
\* and the patch.  An admin's taint equal to a declared one counts as asked for:
\* diff_node_taints takes it over.
OwnTaintsOnly ==
    [][\A i \in Ids \ touched' :
         node'.val[i] # node.val[i] => node.val[i] \in asked[i] \cup {Absent}]_vars

\* When the outcome Applied is recorded, the Node agrees with the spec on every
\* taint that is declared or was recorded: "all declared taints are present".
\* Exempt are the taints that somebody else changed since the plan's read.
AppliedMeansPresent ==
    At("status") =>
        \A i \in Ids \ touched : rec.obj.want[i] # Absent \/ rec.obj.applied[i] # Absent
                                => node.val[i] = rec.obj.want[i]

\* Between two reconciles status.appliedNodeTaints records every taint the
\* operator has on the Node, as long as every reconcile began with the record its
\* predecessor wrote and no call was lost: what is not recorded is never removed.
OursAreRecorded ==
    (clean /\ At("idle")) =>
        \A i \in Ids : node.by[i] = "us" => sm.applied[i] = node.val[i]

\* "The annotation lists the keys we own; any taint not in that list belongs to
\* the admin."  Under the same two conditions.
OursAreListed ==
    clean => \A i \in Ids : node.by[i] = "us" => i \in node.marked

\* A Node that stays up and Ready, free of admin taints and of taints whose
\* record was lost, ends up with exactly the declared taints.
Converges ==
    <>[](/\ node.up /\ node.ready
         /\ \A i \in Ids : node.by[i] # "admin"
         /\ At("idle") => \A i \in Ids : node.by[i] = "us" => sm.applied[i] = node.val[i])
    => <>[](node.val = sm.want)
=============================================================================
