---------------------------- MODULE MachineLifecycle ----------------------------
(***************************************************************************)
(* The life of one ScheduledMachine (src/src/reconcilers): what the        *)
(* operator's replicas, the user, the spot-schedule provider, Cluster API, *)
(* the node-side reclaim agent and the API server do to it.                *)
(*                                                                         *)
(* A reconcile is not atomic.  It works on the copy of the object its      *)
(* watch cache held when it started and makes one API call at a time; each *)
(* call is an action here, and between two calls anything may happen: the  *)
(* user edits the object, the schedule flips, the process dies, the lease  *)
(* moves.  Cluster API (CAPI) and the node are external: they are modelled *)
(* from the calls the reconciler makes.                                    *)
(***************************************************************************)
EXTENDS Integers, FiniteSets

CONSTANTS
    Replicas,        \* the operator's pods
    Grace,           \* spec.gracefulShutdownTimeout, in clock ticks
    ForceFinalizer,  \* the values force_finalizer_on_timeout takes, from one start to the next
    AsyncDelete,     \* CAPI keeps a deleted Machine until it has torn it down
    StaleReads,      \* the watch cache may lag behind the API server
    Edits,           \* what the user does to the object and the provider to its verdict
    Agent,           \* the reclaim agent runs on the node (killIfCommands set)
    MaxFaults        \* bound on failed calls, crashes and lease changes

ASSUME ConstAssumption ==
    /\ Replicas # {}
    /\ Grace \in Nat
    /\ MaxFaults \in Nat
    /\ ForceFinalizer \subseteq BOOLEAN
    /\ {AsyncDelete, StaleReads, Agent} \subseteq BOOLEAN
    /\ Edits \subseteq {"enable", "disable", "kill", "unkill", "delete", "flip"}

VARIABLES
    sm,       \* the ScheduledMachine as the API server holds it
    capi,     \* the bootstrap, infrastructure and Machine objects
    node,     \* the Node: registered?  carrying the reclaim annotation?
    verdict,  \* what the provider object says now
    store,    \* each replica's watch cache of the ScheduledMachine
    rec,      \* each replica's reconcile in flight
    leader,   \* the replica that holds the lease
    faults,   \* faults so far
    hist      \* history, read by properties only

vars == <<sm, capi, node, verdict, store, rec, leader, faults, hist>>
apiVars == <<sm, capi, node>>
envVars == <<verdict, store, leader>>

---------------------------------------------------------------------------
(* Types *)

Phases == {"Pending", "Active", "ShuttingDown", "Inactive", "Disabled",
           "Terminated", "EmergencyRemove", "Error"}

\* The reason of the one condition update_phase writes; it and its timestamp
\* are read back in phase ShuttingDown only, and are kept for that phase only.
Reasons == {"GracePeriod", "ScheduleDisabled", "Other"}

Kinds == {"bootstrap", "infra", "machine"}

Verdicts == {"Active", "Inactive", "Unresolved"}

\* phase "Pending" also stands for "no status yet": every reader treats the
\* two alike.  age is the operator's clock minus the lastTransitionTime of a
\* GracePeriod condition, saturated at Grace; -1 is a start ahead of the clock.
\* nodeRef and spot (status.spotSchedule.active) survive every phase change.
ScheduledMachines ==
    [exists : BOOLEAN, deleting : BOOLEAN, finalizer : BOOLEAN,
     enabled : BOOLEAN, killSwitch : BOOLEAN,
     phase : Phases, reason : Reasons, age : -1..Grace,
     nodeRef : BOOLEAN, spot : {"none", "Active", "Inactive"}]

NewMachine ==
    [exists |-> TRUE, deleting |-> FALSE, finalizer |-> FALSE,
     enabled |-> TRUE, killSwitch |-> FALSE,
     phase |-> "Pending", reason |-> "Other", age |-> Grace,
     nodeRef |-> FALSE, spot |-> "none"]

\* What remains of a deleted object.
Gone == [NewMachine EXCEPT !.exists = FALSE, !.deleting = TRUE]

CreateCalls == {"create_bootstrap", "create_infra", "create_machine"}
DeleteCalls == {"delete_machine", "delete_bootstrap", "delete_infra"}

\* Where a reconcile stands: the API call it makes next.
Calls == CreateCalls \cup DeleteCalls \cup
         {"add_finalizer", "remove_finalizer", "check_reclaim", "resolve",
          "persist_spot", "enrich", "drain", "emergency_phase",
          "disable_schedule", "clear_annotations", "update_phase"}

Flows == {"none", "delete", "kill", "shutdown", "emergency"}

Reconciles ==
    [pc : Calls \cup {"idle", "dispatch"}, obj : ScheduledMachines,
     flow : Flows, to : Phases, why : Reasons]

\* No reconcile in flight.  A reconcile keeps its copy of the object until its
\* phase handler has branched on it.
Idle == [pc |-> "idle", obj |-> NewMachine, flow |-> "none",
         to |-> "Pending", why |-> "Other"]

\* What has happened to the object's Machine.
Histories ==
    [ejected : BOOLEAN,  \* deleted because its node asked for it; until the user re-enables
     forced  : BOOLEAN,  \* a cleanup timeout let the finalizer go
     skewed  : BOOLEAN,  \* the clock was set back since the phase was written
     adopted : BOOLEAN,  \* the last creation met a terminating Machine and took 409 for success
     cut     : BOOLEAN]  \* in phase Active a removal for the kill switch was cut off

TypeOK ==
    /\ sm \in ScheduledMachines
    /\ capi \in [Kinds -> {"none", "live", "terminating"}]
    /\ node \in [up : BOOLEAN, reclaim : BOOLEAN]
    /\ verdict \in Verdicts
    /\ store \in [Replicas -> ScheduledMachines]
    /\ rec \in [Replicas -> Reconciles]
    /\ leader \in Replicas
    /\ faults \in 0..MaxFaults
    /\ hist \in Histories

Init ==
    /\ sm = NewMachine
    /\ capi = [k \in Kinds |-> "none"]
    /\ node = [up |-> FALSE, reclaim |-> FALSE]
    /\ verdict \in Verdicts
    /\ store = [r \in Replicas |-> NewMachine]
    /\ rec = [r \in Replicas |-> Idle]
    /\ leader \in Replicas
    /\ faults = 0
    /\ hist = [ejected |-> FALSE, forced |-> FALSE, skewed |-> FALSE, adopted |-> FALSE,
               cut |-> FALSE]

---------------------------------------------------------------------------
(* Steps of a reconcile *)

At(r, call) == rec[r].pc = call
Obj(r) == rec[r].obj

\* The next API call of replica r's reconcile, before and after the branching.
Goto(r, call) == rec' = [rec EXCEPT ![r].pc = call]
GotoIn(r, flow, call) == rec' = [rec EXCEPT ![r] = [Idle EXCEPT !.pc = call, !.flow = flow]]

\* The next call is update_phase(to, why).
GotoPhase(r, phase, reason) ==
    rec' = [rec EXCEPT ![r] =
              [Idle EXCEPT !.pc = "update_phase", !.to = phase, !.why = reason]]

\* The reconcile returns, with an Action or with an error.
Return(r) == rec' = [rec EXCEPT ![r] = Idle]

Fault == /\ faults < MaxFaults
         /\ faults' = faults + 1
NoFault == UNCHANGED faults

RunningPhases == {"Active", "ShuttingDown"}

\* What the reconciler sees when a work item is dequeued.
Cached(r) == IF StaleReads THEN store[r] ELSE sm

\* compose_should_be_active: an unresolved provider holds the last known value,
\* "none" if there never was one.
ComposeActive(v, last) == IF v = "Unresolved" THEN last ELSE v

\* Mutant: off by one.
GracePeriodElapsedEarly(o) == o.reason = "GracePeriod" => o.age + 1 >= Grace

\* check_grace_period_elapsed: only a condition with reason GracePeriod delays,
\* and a start ahead of the clock counts as elapsed.
GracePeriodElapsed(o) == o.reason = "GracePeriod" => (o.age >= Grace \/ o.age < 0)

\* DELETE of a CAPI object; 404 is success.
DeleteEffect(k) ==
    capi' = [capi EXCEPT ![k] =
                IF k = "machine" /\ AsyncDelete
                THEN IF @ = "none" THEN "none" ELSE "terminating"
                ELSE "none"]

\* create_dynamic_resource: 409 AlreadyExists is success, whatever state the
\* object that already exists is in.
CreateEffect(k) == capi' = [capi EXCEPT ![k] = IF @ = "none" THEN "live" ELSE @]

\* reconcile_guarded: leader check, deletion, finalizer, and the kill switch
\* of reconcile_inner; each branch is decided on the cached object alone.
Dequeue(r) ==
    /\ At(r, "idle") /\ leader = r /\ Cached(r).exists
    /\ NoFault /\ UNCHANGED <<apiVars, envVars, hist>>

\* reconcile_inner keeps working with the cached object.
BeginInner(r, call) ==
    rec' = [rec EXCEPT ![r] = [Idle EXCEPT !.pc = call, !.obj = Cached(r)]]

\* Mutant: cleanup forgotten for a machine that is already shutting down.
StartDeletionActiveOnly(r) ==
    /\ Dequeue(r)
    /\ Cached(r).deleting
    /\ GotoIn(r, "delete", IF Cached(r).phase = "Active"
                           THEN "delete_machine" ELSE "remove_finalizer")

\* Mutant: only a running machine's deletion is handled.
StartDeletionRunningOnly(r) ==
    /\ Dequeue(r)
    /\ Cached(r).deleting /\ Cached(r).phase \in RunningPhases
    /\ GotoIn(r, "delete", "delete_machine")

StartDeletion(r) ==
    /\ Dequeue(r)
    /\ Cached(r).deleting
    /\ GotoIn(r, "delete", IF Cached(r).phase \in RunningPhases
                           THEN "delete_machine" ELSE "remove_finalizer")

StartAddFinalizer(r) ==
    /\ Dequeue(r)
    /\ ~Cached(r).deleting /\ ~Cached(r).finalizer
    /\ Goto(r, "add_finalizer")

\* Mutant: the kill switch forgets a machine that is already shutting down.
StartKillSwitchActiveOnly(r) ==
    /\ Dequeue(r)
    /\ ~Cached(r).deleting /\ Cached(r).finalizer /\ Cached(r).killSwitch
    /\ IF Cached(r).phase = "Active"
       THEN GotoIn(r, "kill", "delete_machine")
       ELSE GotoPhase(r, "Terminated", "Other")

\* Mutant: Terminated is only recorded when a machine was removed.
StartKillSwitchRunningOnly(r) ==
    /\ Dequeue(r)
    /\ ~Cached(r).deleting /\ Cached(r).finalizer /\ Cached(r).killSwitch
    /\ Cached(r).phase \in RunningPhases
    /\ GotoIn(r, "kill", "delete_machine")

StartKillSwitch(r) ==
    /\ Dequeue(r)
    /\ ~Cached(r).deleting /\ Cached(r).finalizer /\ Cached(r).killSwitch
    /\ IF Cached(r).phase \in RunningPhases
       THEN GotoIn(r, "kill", "delete_machine")
       ELSE GotoPhase(r, "Terminated", "Other")

\* Mutant: the finalizer guard is gone.
StartInnerUnguarded(r) ==
    /\ Dequeue(r)
    /\ ~Cached(r).deleting /\ ~Cached(r).killSwitch
    /\ BeginInner(r, IF Cached(r).nodeRef THEN "check_reclaim" ELSE "resolve")

StartInner(r) ==
    /\ Dequeue(r)
    /\ ~Cached(r).deleting /\ Cached(r).finalizer /\ ~Cached(r).killSwitch
    /\ BeginInner(r, IF Cached(r).nodeRef THEN "check_reclaim" ELSE "resolve")

\* add_finalizer: the API server refuses a new finalizer on a deleting object.
AddFinalizer(r) ==
    /\ At(r, "add_finalizer")
    /\ sm' = IF sm.exists /\ ~sm.deleting THEN [sm EXCEPT !.finalizer = TRUE] ELSE sm
    /\ Return(r)
    /\ NoFault /\ UNCHANGED <<capi, node, envVars, hist>>

\* handle_deletion's last call: with the finalizer gone the object is gone.
RemoveFinalizer(r) ==
    /\ At(r, "remove_finalizer")
    /\ sm' = IF sm.deleting THEN Gone ELSE [sm EXCEPT !.finalizer = FALSE]
    /\ Return(r)
    /\ NoFault /\ UNCHANGED <<capi, node, envVars, hist>>

\* check_emergency_reclaim: GET Node; 404 and "no annotation" continue.
CheckReclaim(r) ==
    /\ At(r, "check_reclaim")
    /\ IF node.up /\ node.reclaim THEN GotoIn(r, "emergency", "emergency_phase")
                                 ELSE Goto(r, "resolve")
    /\ NoFault /\ UNCHANGED <<apiVars, envVars, hist>>

\* resolve_spot_schedule: GET the provider object.  From here on the reconcile
\* works with the composed value.
Resolve(r) ==
    /\ At(r, "resolve")
    /\ rec' = [rec EXCEPT ![r].pc = "persist_spot",
                          ![r].obj.spot = ComposeActive(verdict, Obj(r).spot)]
    /\ NoFault /\ UNCHANGED <<apiVars, envVars, hist>>

\* persist_spot_schedule_status: a merge patch that leaves out "none".
PersistSpot(r) ==
    /\ At(r, "persist_spot")
    /\ IF sm.exists
       THEN /\ sm' = IF Obj(r).spot = "none" THEN sm ELSE [sm EXCEPT !.spot = Obj(r).spot]
            /\ Goto(r, "dispatch")
       ELSE Return(r) /\ UNCHANGED sm
    /\ NoFault /\ UNCHANGED <<capi, node, envVars, hist>>

(* The phase handlers, on the cached phase. *)

Dispatch(r, phase) ==
    /\ At(r, "dispatch") /\ Obj(r).phase = phase
    /\ NoFault /\ UNCHANGED <<apiVars, envVars, hist>>

Wanted(r) == Obj(r).spot = "Active"

HandlePendingPhase(r) ==
    /\ Dispatch(r, "Pending")
    /\ \/ ~Obj(r).enabled /\ GotoPhase(r, "Disabled", "Other")
       \/ Obj(r).enabled /\ ~Wanted(r) /\ GotoPhase(r, "Inactive", "Other")
       \/ Obj(r).enabled /\ Wanted(r) /\ GotoIn(r, "none", "create_bootstrap")

\* Mutant: the end of the schedule is not noticed.
HandleActivePhaseSticky(r) ==
    /\ Dispatch(r, "Active")
    /\ \/ ~Obj(r).enabled /\ GotoPhase(r, "ShuttingDown", "ScheduleDisabled")
       \/ Obj(r).enabled /\ GotoIn(r, "none", "enrich")

HandleActivePhase(r) ==
    /\ Dispatch(r, "Active")
    /\ \/ ~Obj(r).enabled /\ GotoPhase(r, "ShuttingDown", "ScheduleDisabled")
       \/ Obj(r).enabled /\ ~Wanted(r) /\ GotoPhase(r, "ShuttingDown", "GracePeriod")
       \/ Obj(r).enabled /\ Wanted(r) /\ GotoIn(r, "none", "enrich")

HandleShuttingDownPhase(r) ==
    /\ Dispatch(r, "ShuttingDown")
    /\ IF GracePeriodElapsed(Obj(r)) THEN GotoIn(r, "shutdown", "drain") ELSE Return(r)

\* Mutant: Active without going through Pending.
HandleInactivePhaseShortcut(r) ==
    /\ Dispatch(r, "Inactive")
    /\ IF Obj(r).enabled /\ Wanted(r) THEN GotoPhase(r, "Active", "Other") ELSE Return(r)

\* Mutant: the next window is not noticed.
HandleInactivePhaseSticky(r) == Dispatch(r, "Inactive") /\ Return(r)

HandleInactivePhase(r) ==
    /\ Dispatch(r, "Inactive")
    /\ IF Obj(r).enabled /\ Wanted(r) THEN GotoPhase(r, "Pending", "Other") ELSE Return(r)

HandleDisabledPhase(r) ==
    /\ Dispatch(r, "Disabled")
    /\ IF Obj(r).enabled THEN GotoPhase(r, "Pending", "Other") ELSE Return(r)

HandleEmergencyRemovePhase(r) ==
    /\ Dispatch(r, "EmergencyRemove")
    /\ GotoPhase(r, "Disabled", "Other")

HandleTerminatedPhase(r) == Dispatch(r, "Terminated") /\ Return(r)

HandleErrorPhase(r) == Dispatch(r, "Error") /\ Return(r)

\* handle_active_phase, in schedule: copy the Machine's nodeRef into status.
\* It is only ever written, never cleared.
Enrich(r) ==
    /\ At(r, "enrich")
    /\ sm' = IF sm.exists /\ capi["machine"] # "none" /\ node.up
             THEN [sm EXCEPT !.nodeRef = TRUE] ELSE sm
    /\ Return(r)
    /\ NoFault /\ UNCHANGED <<capi, node, envVars, hist>>

\* add_machine_to_cluster, one POST at a time.  The answer to the last POST
\* may be lost: the Machine exists and the caller sees an error.
CreateBootstrap(r) ==
    /\ At(r, "create_bootstrap") /\ CreateEffect("bootstrap")
    /\ Goto(r, "create_infra")
    /\ NoFault /\ UNCHANGED <<sm, node, envVars, hist>>

CreateInfra(r) ==
    /\ At(r, "create_infra") /\ CreateEffect("infra")
    /\ Goto(r, "create_machine")
    /\ NoFault /\ UNCHANGED <<sm, node, envVars, hist>>

CreateMachine(r) ==
    /\ At(r, "create_machine") /\ CreateEffect("machine")
    /\ \/ NoFault /\ GotoPhase(r, "Active", "Other")
       \/ Fault /\ GotoPhase(r, "Error", "Other")
    /\ hist' = [hist EXCEPT !.adopted = capi["machine"] = "terminating"]
    /\ UNCHANGED <<sm, node, envVars>>

\* drain_node_with_timeout: a failed drain is logged and passed over.
Drain(r) ==
    /\ At(r, "drain")
    /\ Goto(r, "delete_machine")
    /\ NoFault /\ UNCHANGED <<apiVars, envVars, hist>>

\* remove_machine_from_cluster: Machine, then bootstrap, then infrastructure.
DeleteMachine(r) ==
    /\ At(r, "delete_machine") /\ DeleteEffect("machine")
    /\ Goto(r, "delete_bootstrap")
    /\ hist' = [hist EXCEPT !.ejected = @ \/ rec[r].flow = "emergency"]
    /\ NoFault /\ UNCHANGED <<sm, node, envVars>>

DeleteBootstrap(r) ==
    /\ At(r, "delete_bootstrap") /\ DeleteEffect("bootstrap")
    /\ Goto(r, "delete_infra")
    /\ NoFault /\ UNCHANGED <<sm, node, envVars, hist>>

\* Mutant: the request is cleared and the schedule never disabled.
AfterRemovalNoDisable(r) ==
    \/ rec[r].flow = "delete" /\ Goto(r, "remove_finalizer")
    \/ rec[r].flow = "kill" /\ GotoPhase(r, "Terminated", "Other")
    \/ rec[r].flow = "shutdown" /\ GotoPhase(r, "Inactive", "Other")
    \/ rec[r].flow = "emergency" /\ Goto(r, "clear_annotations")

\* The caller decides what follows.
AfterRemoval(r) ==
    \/ rec[r].flow = "delete" /\ Goto(r, "remove_finalizer")
    \/ rec[r].flow = "kill" /\ GotoPhase(r, "Terminated", "Other")
    \/ rec[r].flow = "shutdown" /\ GotoPhase(r, "Inactive", "Other")
    \/ rec[r].flow = "emergency" /\ Goto(r, "disable_schedule")

DeleteInfra(r) ==
    /\ At(r, "delete_infra") /\ DeleteEffect("infra")
    /\ AfterRemoval(r)
    /\ NoFault /\ UNCHANGED <<sm, node, envVars, hist>>

\* The status write shared by update_phase and update_phase_with_grace_period:
\* a merge patch of phase and the single condition; nodeRef and spotSchedule
\* keep their values.  404 when the object is gone.
PhasePatch(phase, reason) ==
    IF sm.exists
    THEN /\ sm' = [sm EXCEPT !.phase = phase, !.reason = reason,
                             !.age = IF reason = "GracePeriod" THEN 0 ELSE Grace]
         /\ hist' = [hist EXCEPT !.skewed = FALSE, !.cut = FALSE,
                                 !.adopted = @ /\ phase = "Active"]
    ELSE UNCHANGED <<sm, hist>>

UpdatePhase(r) ==
    /\ At(r, "update_phase")
    /\ PhasePatch(rec[r].to, rec[r].why)
    /\ Return(r)
    /\ NoFault /\ UNCHANGED <<capi, node, envVars>>

\* handle_emergency_remove, steps 2, 5, 6; steps 3 and 4 are Drain and the
\* deletions, step 7 is UpdatePhase.
EmergencyPhase(r) ==
    /\ At(r, "emergency_phase")
    /\ PhasePatch("EmergencyRemove", "Other")
    /\ IF sm.exists THEN Goto(r, "drain") ELSE Return(r)
    /\ NoFault /\ UNCHANGED <<capi, node, envVars>>

DisableSchedule(r) ==
    /\ At(r, "disable_schedule")
    /\ IF sm.exists
       THEN sm' = [sm EXCEPT !.enabled = FALSE] /\ Goto(r, "clear_annotations")
       ELSE UNCHANGED sm /\ Return(r)
    /\ NoFault /\ UNCHANGED <<capi, node, envVars, hist>>

ClearAnnotations(r) ==
    /\ At(r, "clear_annotations")
    /\ node' = [node EXCEPT !.reclaim = FALSE]
    /\ GotoPhase(r, "Disabled", "Other")
    /\ NoFault /\ UNCHANGED <<sm, capi, envVars, hist>>

\* Every step of a replica's reconcile that meets no fault.
ReconcileStep(r) ==
    \/ StartDeletion(r) \/ StartAddFinalizer(r) \/ StartKillSwitch(r) \/ StartInner(r)
    \/ AddFinalizer(r) \/ RemoveFinalizer(r)
    \/ CheckReclaim(r) \/ Resolve(r) \/ PersistSpot(r)
    \/ HandlePendingPhase(r) \/ HandleActivePhase(r) \/ HandleShuttingDownPhase(r)
    \/ HandleInactivePhase(r) \/ HandleDisabledPhase(r)
    \/ HandleEmergencyRemovePhase(r) \/ HandleTerminatedPhase(r) \/ HandleErrorPhase(r)
    \/ Enrich(r) \/ CreateBootstrap(r) \/ CreateInfra(r) \/ CreateMachine(r)
    \/ Drain(r) \/ DeleteMachine(r) \/ DeleteBootstrap(r) \/ DeleteInfra(r)
    \/ UpdatePhase(r) \/ EmergencyPhase(r) \/ DisableSchedule(r) \/ ClearAnnotations(r)

---------------------------------------------------------------------------
(* Faults *)

\* The calls whose error the caller turns into phase Error.
ErrorPhaseCall(r) ==
    \/ rec[r].pc \in CreateCalls
    \/ rec[r].pc \in DeleteCalls /\ rec[r].flow = "shutdown"

\* A removal for the kill switch, until Terminated is written.
Killing(r) == \/ rec[r].pc \in DeleteCalls /\ rec[r].flow = "kill"
              \/ At(r, "update_phase") /\ rec[r].to = "Terminated"

CutOff(r) == hist' = [hist EXCEPT !.cut = @ \/ (Killing(r) /\ sm.phase = "Active")]

\* Mutant: a failed creation is reported as success.
CallFailsSilently(r) ==
    /\ rec[r].pc \in Calls
    /\ \/ ErrorPhaseCall(r) /\ GotoPhase(r, "Active", "Other")
       \/ ~ErrorPhaseCall(r) /\ Return(r)
    /\ CutOff(r)
    /\ Fault /\ UNCHANGED <<apiVars, envVars>>

\* A call fails without effect: phase Error, or swallowed (enrichment and
\* clearing annotations are best effort), or the reconcile returns the error
\* and error_policy requeues it.
CallFails(r) ==
    /\ rec[r].pc \in Calls
    /\ \/ ErrorPhaseCall(r) /\ GotoPhase(r, "Error", "Other")
       \/ At(r, "clear_annotations") /\ GotoPhase(r, "Disabled", "Other")
       \/ ~ErrorPhaseCall(r) /\ ~At(r, "clear_annotations") /\ Return(r)
    /\ CutOff(r)
    /\ Fault /\ UNCHANGED <<apiVars, envVars>>

\* run_cleanup_with_timeout: the removal of handle_deletion hangs.
CleanupTimesOut(r) ==
    /\ rec[r].pc \in DeleteCalls /\ rec[r].flow = "delete"
    /\ \E force \in ForceFinalizer :
         IF force
         THEN Goto(r, "remove_finalizer") /\ hist' = [hist EXCEPT !.forced = TRUE]
         ELSE Return(r) /\ UNCHANGED hist
    /\ Fault /\ UNCHANGED <<apiVars, envVars>>

\* The process dies; its next incarnation starts from the API server's state.
Crash(r) ==
    /\ ~At(r, "idle")
    /\ Return(r)
    /\ store' = IF StaleReads THEN [store EXCEPT ![r] = sm] ELSE store
    /\ CutOff(r)
    /\ Fault /\ UNCHANGED <<apiVars, verdict, leader>>

\* The lease moves; a reconcile in flight at the old leader goes on.
LeaseMoves ==
    /\ \E r \in Replicas \ {leader} : leader' = r
    /\ Fault /\ UNCHANGED <<apiVars, verdict, store, rec, hist>>

---------------------------------------------------------------------------
(* The environment *)

\* The cache receives the latest version of the object.
WatchDeliver(r) ==
    /\ StaleReads /\ store[r] # sm
    /\ store' = [store EXCEPT ![r] = sm]
    /\ UNCHANGED <<apiVars, verdict, rec, leader, faults, hist>>

UserEdit(edit, new) ==
    /\ edit \in Edits
    /\ sm.exists /\ ~sm.deleting
    /\ sm' = new
    /\ UNCHANGED <<capi, node, envVars, rec, faults>>

UserEnables ==
    /\ UserEdit("enable", [sm EXCEPT !.enabled = TRUE])
    /\ hist' = [hist EXCEPT !.ejected = FALSE]

UserDisables ==
    /\ UserEdit("disable", [sm EXCEPT !.enabled = FALSE])
    /\ UNCHANGED hist

UserSetsKillSwitch(on) ==
    /\ UserEdit(IF on THEN "kill" ELSE "unkill", [sm EXCEPT !.killSwitch = on])
    /\ UNCHANGED hist

UserDeletes ==
    /\ UserEdit("delete", IF sm.finalizer THEN [sm EXCEPT !.deleting = TRUE] ELSE Gone)
    /\ UNCHANGED hist

ProviderFlips ==
    /\ "flip" \in Edits
    /\ \E v \in Verdicts \ {verdict} : verdict' = v
    /\ UNCHANGED <<apiVars, store, rec, leader, faults, hist>>

\* The operator's clock moves by d against the recorded start.
Shifted(o, d) ==
    [o EXCEPT !.age = IF o.reason # "GracePeriod" THEN @
                      ELSE IF @ + d < 0 THEN -1
                      ELSE IF @ + d > Grace THEN Grace ELSE @ + d]

ClockMoves(d) ==
    /\ sm' = Shifted(sm, d)
    /\ store' = [r \in Replicas |-> Shifted(store[r], d)]
    /\ rec' = [r \in Replicas |-> [rec[r] EXCEPT !.obj = Shifted(@, d)]]
    /\ UNCHANGED <<capi, node, verdict, leader>>

\* Some copy of the object records a start on which keep holds.
SomeCopy(keep(_)) == keep(sm) \/ \E r \in Replicas : keep(store[r]) \/ keep(rec[r].obj)

Tick ==
    /\ SomeCopy(LAMBDA o : o.age < Grace)
    /\ ClockMoves(1)
    /\ NoFault /\ UNCHANGED hist

\* An NTP step, a thawed VM or a manual adjustment sets the clock back.
ClockStepsBack ==
    /\ SomeCopy(LAMBDA o : o.reason = "GracePeriod")
    /\ \E d \in 1..Grace + 1 : ClockMoves(-d)
    /\ hist' = [hist EXCEPT !.skewed = @ \/ sm.reason = "GracePeriod"]
    /\ Fault

\* The Machine's host registers as a Node.
NodeJoins ==
    /\ capi["machine"] = "live" /\ ~node.up
    /\ node' = [up |-> TRUE, reclaim |-> FALSE]
    /\ UNCHANGED <<sm, capi, envVars, rec, faults, hist>>

\* CAPI finishes the teardown of a Machine: its bootstrap and infrastructure
\* objects and its Node go with it.
CapiFinishes ==
    /\ capi["machine"] = "terminating"
    /\ capi' = [k \in Kinds |-> "none"]
    /\ node' = [up |-> FALSE, reclaim |-> FALSE]
    /\ UNCHANGED <<sm, envVars, rec, faults, hist>>

\* Without a CAPI teardown the Node goes once its Machine is gone.
NodeLeaves ==
    /\ capi["machine"] = "none" /\ node.up
    /\ node' = [up |-> FALSE, reclaim |-> FALSE]
    /\ UNCHANGED <<sm, capi, envVars, rec, faults, hist>>

\* Kubernetes' garbage collector follows the ownerReference; only the Machine
\* carries one.
GarbageCollect ==
    /\ ~sm.exists /\ capi["machine"] = "live"
    /\ DeleteEffect("machine")
    /\ UNCHANGED <<sm, node, envVars, rec, faults, hist>>

\* The agent annotates its Node.
AgentRequestsReclaim ==
    /\ Agent /\ node.up /\ ~node.reclaim
    /\ node' = [node EXCEPT !.reclaim = TRUE]
    /\ UNCHANGED <<sm, capi, envVars, rec, faults, hist>>

---------------------------------------------------------------------------
Replica(r) == ReconcileStep(r) \/ CallFails(r) \/ CleanupTimesOut(r) \/ Crash(r)
              \/ WatchDeliver(r)

Environment ==
    \/ LeaseMoves
    \/ UserEnables \/ UserDisables \/ UserDeletes
    \/ \E on \in BOOLEAN : UserSetsKillSwitch(on)
    \/ ProviderFlips \/ Tick \/ ClockStepsBack
    \/ NodeJoins \/ NodeLeaves \/ AgentRequestsReclaim \/ GarbageCollect
    \/ CapiFinishes

Next == Environment \/ \E r \in Replicas : Replica(r)

Spec == Init /\ [][Next]_vars

\* Requeue timers and error_policy re-run every reconcile, watches deliver,
\* clocks advance, and CAPI and the garbage collector finish what they began.
Fairness ==
    /\ \A r \in Replicas : WF_vars(ReconcileStep(r)) /\ WF_vars(WatchDeliver(r))
    /\ WF_vars(Tick) /\ WF_vars(GarbageCollect) /\ WF_vars(NodeLeaves)
    /\ WF_vars(CapiFinishes)

FairSpec == Spec /\ Fairness

---------------------------------------------------------------------------
(* Properties *)

\* No CAPI object exists for a live ScheduledMachine that has no finalizer:
\* otherwise deleting it would skip handle_deletion and strand the objects.
\* reconcile_guarded adds the finalizer in a reconcile of its own and returns.
FinalizerFirst ==
    (sm.exists /\ ~sm.deleting /\ \E k \in Kinds : capi[k] = "live") => sm.finalizer

\* Why that holds, as an inductive invariant: whoever is about to create, or may
\* still decide to, works for an object that already carries the finalizer or
\* is already being deleted; and only a reconcile that saw the deletion removes
\* the finalizer.  Holds for a cached copy however old it is.
Held == sm.finalizer \/ sm.deleting

InnerCalls == CreateCalls \cup {"check_reclaim", "resolve", "persist_spot", "dispatch"}

RecHeld(r) ==
    /\ rec[r].pc \in InnerCalls => Held
    /\ (rec[r].pc = "remove_finalizer" \/ rec[r].flow = "delete") => sm.deleting

StoreHeld(r) ==
    /\ store[r].finalizer => Held
    /\ store[r].deleting => sm.deleting

FinalizerHeld ==
    /\ \A k \in Kinds : capi[k] = "live" => Held
    /\ \A r \in Replicas : StoreHeld(r)
    /\ \A r \in Replicas : RecHeld(r)

\* A shutdown at the end of the schedule (condition reason GracePeriod) deletes
\* the Machine only after the grace period recorded on the API server is over
\* by the operator's clock.  check_grace_period_elapsed cuts it short in one
\* case, which is exempt: the clock was set back since the start was recorded.
\* For reconciles that read the latest object.
GraceRespected ==
    [][\A r \in Replicas :
         (/\ At(r, "delete_machine") /\ rec[r].flow = "shutdown"
          /\ capi["machine"] = "live" /\ capi'["machine"] # "live"
          /\ sm.phase = "ShuttingDown" /\ sm.reason = "GracePeriod")
         => (sm.age >= Grace \/ hist.skewed)]_vars

\* The finalizer of a running machine goes only after all three CAPI objects
\* were deleted, unless a cleanup timeout forced it (handle_deletion).
CleanupBeforeFinalizer ==
    [][(sm.exists /\ ~sm'.exists /\ sm.phase \in RunningPhases /\ ~hist.forced)
       => \A k \in Kinds : capi[k] # "live"]_vars

\* The phases README and docs call "removed": until the first fault, between two
\* reconciles no Machine runs for an object in phase Inactive, Disabled or
\* Terminated.
ParkedPhases == {"Inactive", "Disabled", "Terminated"}
ParkedMeansNoMachine ==
    (/\ faults = 0
     /\ sm.exists /\ sm.phase \in ParkedPhases
     /\ \A r \in Replicas : At(r, "idle")) => capi["machine"] # "live"

\* Between two reconciles of an object that is not being deleted, phase Active
\* means that its Machine is there and not being torn down, through partial
\* creations, lost answers, crashes, asynchronous teardown, and a kill switch
\* that is set and taken back.  handle_active_phase never looks again, so there
\* are exactly two ways out, both exempt: create_dynamic_resource took the
\* Machine of the last window, still being torn down, for the new one (409);
\* or a removal for the kill switch was cut off after it deleted the Machine.
ActiveMeansMachine ==
    (/\ sm.exists /\ ~sm.deleting /\ sm.phase = "Active"
     /\ \A r \in Replicas : At(r, "idle")
     /\ ~hist.adopted /\ ~hist.cut)
    => capi["machine"] = "live"

\* The loop-breaker of the emergency reclaim: while nothing has failed, a Machine
\* that was ejected because its node asked for it is not created again until
\* the user re-enables.
NoRejoinAfterReclaim ==
    [][(capi["machine"] # "live" /\ capi'["machine"] = "live" /\ faults' = 0)
       => ~hist.ejected]_vars

\* handle_emergency_remove disables the schedule before it clears the request:
\* a request is never withdrawn from a live Node while the schedule that would
\* re-add it is still enabled (unless the user enabled it in between).
DisabledBeforeCleared ==
    [][(node.reclaim /\ node'.up /\ ~node'.reclaim /\ sm.enabled) => ~hist.ejected]_vars

\* Every step changes the phase and the Machine the way PhaseContract allows.
Contract == INSTANCE PhaseContract WITH
    phase <- IF sm.exists THEN sm.phase ELSE "Deleted",
    machine <- capi["machine"] = "live",
    adopted <- hist.adopted

ImplementsContract == Contract!Spec

\* No deletion stays pending for ever, whatever single fault the cleanup meets.
DeletionEnds == []<>~(sm.exists /\ sm.deleting)

\* The kill switch, unless it is taken back, wins over every phase and every
\* reconcile in flight.
KillSwitchEnds ==
    <>[](sm.exists /\ ~sm.deleting /\ sm.killSwitch) => <>[](sm.phase = "Terminated")

\* Once the schedule stays inactive, and nothing has failed, the Machine goes for
\* good.
ShutsDownWhenInactive ==
    <>[](verdict = "Inactive" /\ sm.exists /\ ~sm.deleting /\ faults = 0)
    => <>[](capi["machine"] = "none")

\* Once the schedule stays active, enabled and unkilled, and the object is in no
\* phase without an exit, a Machine runs for good: no earlier window, edit,
\* teardown or recovered fault leaves it parked.  The exceptions are those of
\* ActiveMeansMachine, an Active that rests on the Machine of the last window
\* and a cut-off kill: nothing re-creates there (handle_active_phase).
RunsWhenActive ==
    <>[](/\ verdict = "Active" /\ sm.exists /\ ~sm.deleting /\ sm.enabled
         /\ ~sm.killSwitch /\ sm.phase \notin {"Terminated", "Error"}
         /\ ~hist.adopted /\ ~hist.cut)
    => <>[](capi["machine"] = "live")

\* "Active: Machine is running in cluster": an object that is in phase Active has
\* a Machine, or gets one, or leaves the phase, or is killed or deleted.
ActiveRuns ==
    (sm.exists /\ sm.phase = "Active") ~>
        (capi["machine"] = "live" \/ sm.phase # "Active" \/ sm.killSwitch \/ sm.deleting)

\* "Error --> Pending (automatic recovery attempt)".
ErrorRecovers == sm.phase = "Error" ~> (sm.phase # "Error" \/ sm.deleting)

=============================================================================
