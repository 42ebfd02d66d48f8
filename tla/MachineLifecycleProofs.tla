------------------------ MODULE MachineLifecycleProofs ------------------------
(***************************************************************************)
(* Proofs about MachineLifecycle.  The first part, up to FinalizerFirst,   *)
(* holds for any number of replicas, any grace period, any number of       *)
(* faults, fresh or stale caches, and synchronous or asynchronous CAPI     *)
(* deletion.  The second part is about one replica: there the phase on the *)
(* API server, the call in flight and the CAPI objects keep in step, and   *)
(* the reconciler implements PhaseContract.  Each theorem names what it    *)
(* needs: TLC has a counterexample without it (see README).                *)
(***************************************************************************)
EXTENDS MachineLifecycle, TLAPS

---------------------------------------------------------------------------
(* Types of the building blocks *)

\* The constant objects of the model are of their type.
LEMMA ConstantObjects ==
    /\ NewMachine \in ScheduledMachines
    /\ Gone \in ScheduledMachines
    /\ Idle \in Reconciles
<1>1. NewMachine \in ScheduledMachines
  BY ConstAssumption DEF NewMachine, ScheduledMachines, Phases, Reasons
<1>2. Gone \in ScheduledMachines
  BY <1>1 DEF Gone, ScheduledMachines
<1>3. Idle \in Reconciles
  BY <1>1 DEF Idle, Reconciles, Phases, Reasons, Flows, Verdicts
<1>. QED BY <1>1, <1>2, <1>3

RecType == rec \in [Replicas -> Reconciles]

\* Each way a reconcile moves on keeps rec well typed.
LEMMA GotoType ==
    ASSUME RecType, NEW r \in Replicas, NEW call \in Calls \cup {"idle", "dispatch"},
           Goto(r, call)
    PROVE  RecType'
  BY DEF RecType, Goto, Reconciles

LEMMA GotoInType ==
    ASSUME RecType, NEW r \in Replicas, NEW flow \in Flows, NEW call \in Calls,
           GotoIn(r, flow, call)
    PROVE  RecType'
  BY ConstantObjects DEF RecType, GotoIn, Reconciles

LEMMA GotoPhaseType ==
    ASSUME RecType, NEW r \in Replicas, NEW phase \in Phases, NEW reason \in Reasons,
           GotoPhase(r, phase, reason)
    PROVE  RecType'
  BY ConstantObjects DEF RecType, GotoPhase, Reconciles, Calls

LEMMA ReturnType ==
    ASSUME RecType, NEW r \in Replicas, Return(r)
    PROVE  RecType'
  BY ConstantObjects DEF RecType, Return

\* The clock changes the age of an object and nothing else of it.
ShiftedAge(reason, age, d) ==
    IF reason # "GracePeriod" THEN age
    ELSE IF age + d < 0 THEN -1
    ELSE IF age + d > Grace THEN Grace ELSE age + d

LEMMA ShiftedFields ==
    ASSUME NEW o \in ScheduledMachines, NEW d \in Int
    PROVE  /\ Shifted(o, d) \in ScheduledMachines
           /\ Shifted(o, d).exists = o.exists /\ Shifted(o, d).deleting = o.deleting
           /\ Shifted(o, d).finalizer = o.finalizer /\ Shifted(o, d).enabled = o.enabled
           /\ Shifted(o, d).killSwitch = o.killSwitch /\ Shifted(o, d).phase = o.phase
           /\ Shifted(o, d).reason = o.reason /\ Shifted(o, d).nodeRef = o.nodeRef
           /\ Shifted(o, d).age = ShiftedAge(o.reason, o.age, d)
<1>. DEFINE age == ShiftedAge(o.reason, o.age, d)
<1>1. age \in -1..Grace
  BY ConstAssumption DEF ScheduledMachines, ShiftedAge
<1>2. Shifted(o, d) = [o EXCEPT !.age = age]
  BY DEF Shifted, ShiftedAge
<1>3. age = ShiftedAge(o.reason, o.age, d)
  OBVIOUS
<1>. HIDE DEF age
<1>. QED BY <1>1, <1>2, <1>3 DEF ScheduledMachines

LEMMA ClockStep ==
    ASSUME Tick \/ ClockStepsBack
    PROVE  \E d \in Int : ClockMoves(d)
<1>1. CASE Tick
  BY <1>1 DEF Tick
<1>2. CASE ClockStepsBack
  <2>1. PICK d \in 1..Grace + 1 : ClockMoves(-d)
    BY <1>2 DEF ClockStepsBack
  <2>2. -d \in Int
    OBVIOUS
  <2>. QED BY <2>1, <2>2
<1>. QED BY <1>1, <1>2

\* A phase patch keeps the object well typed.
LEMMA PhasePatchType ==
    ASSUME sm \in ScheduledMachines, hist \in Histories,
           NEW phase \in Phases, NEW reason \in Reasons, PhasePatch(phase, reason)
    PROVE  sm' \in ScheduledMachines /\ hist' \in Histories
<1>. DEFINE age == IF reason = "GracePeriod" THEN 0 ELSE Grace
<1>1. age \in -1..Grace
  BY ConstAssumption
<1>. HIDE DEF age
<1>2. [sm EXCEPT !.phase = phase, !.reason = reason, !.age = age] \in ScheduledMachines
  BY <1>1 DEF ScheduledMachines
<1>3. hist' \in Histories
  BY DEF PhasePatch, Histories
<1>. QED BY <1>2, <1>3 DEF PhasePatch, age

CapiType == capi \in [Kinds -> {"none", "live", "terminating"}]

\* Creating and deleting keep capi well typed.
LEMMA CapiEffectType ==
    ASSUME CapiType, NEW k \in Kinds, CreateEffect(k) \/ DeleteEffect(k)
    PROVE  CapiType'
  BY DEF CapiType, CreateEffect, DeleteEffect

\* Resolving changes the composed value and nothing else of the copy.
LEMMA ResolveFields ==
    ASSUME TypeOK, NEW r \in Replicas, Resolve(r)
    PROVE  /\ RecType'
           /\ rec'[r].pc = "persist_spot" /\ rec'[r].flow = rec[r].flow
           /\ rec'[r].obj.phase = rec[r].obj.phase /\ rec'[r].obj.reason = rec[r].obj.reason
           /\ rec'[r].obj.age = rec[r].obj.age /\ rec'[r].obj.enabled = rec[r].obj.enabled
<1>. DEFINE spot == ComposeActive(verdict, rec[r].obj.spot)
            obj == [rec[r].obj EXCEPT !.spot = spot]
            new == [rec[r] EXCEPT !.pc = "persist_spot", !.obj = obj]
<1>0. rec \in [Replicas -> Reconciles] /\ rec[r] \in Reconciles /\ rec[r].obj \in ScheduledMachines
  BY DEF TypeOK, Reconciles
<1>1. rec' = [rec EXCEPT ![r] = new]
  BY <1>0 DEF Resolve, Obj
<1>2. spot \in {"none", "Active", "Inactive"}
  BY <1>0 DEF ComposeActive, ScheduledMachines, TypeOK, Verdicts
<1>3. /\ obj \in ScheduledMachines
      /\ obj.phase = rec[r].obj.phase /\ obj.reason = rec[r].obj.reason
      /\ obj.age = rec[r].obj.age /\ obj.enabled = rec[r].obj.enabled
  <2>. HIDE DEF spot
  <2>. QED BY <1>0, <1>2 DEF ScheduledMachines
<1>4. /\ new \in Reconciles /\ new.pc = "persist_spot" /\ new.flow = rec[r].flow
      /\ new.obj = obj
  <2>. HIDE DEF obj
  <2>. QED BY <1>0, <1>3 DEF Reconciles, Calls
<1>. HIDE DEF new, obj
<1>. QED BY <1>0, <1>1, <1>3, <1>4 DEF RecType

---------------------------------------------------------------------------
(* Type correctness *)

\* What a step that only moves a reconcile on leaves alone.
Quiet == UNCHANGED <<apiVars, envVars, hist, faults>>

LEMMA QuietType ==
    ASSUME TypeOK, Quiet, RecType'
    PROVE  TypeOK'
  BY DEF TypeOK, Quiet, apiVars, envVars, RecType

\* A dequeued work item starts a reconcile on a well-typed object.
LEMMA StartType ==
    ASSUME TypeOK, NEW r \in Replicas,
           StartDeletion(r) \/ StartAddFinalizer(r) \/ StartKillSwitch(r) \/ StartInner(r)
    PROVE  TypeOK'
<1>. RecType
  BY DEF TypeOK, RecType
<1>. Quiet
  BY DEF StartDeletion, StartAddFinalizer, StartKillSwitch, StartInner, Dequeue, NoFault, Quiet
<1>1. CASE StartDeletion(r)
  BY <1>1, GotoInType, QuietType DEF StartDeletion, Calls, DeleteCalls, Flows
<1>2. CASE StartAddFinalizer(r)
  BY <1>2, GotoType, QuietType DEF StartAddFinalizer, Calls
<1>3. CASE StartKillSwitch(r)
  BY <1>3, GotoInType, GotoPhaseType, QuietType
     DEF StartKillSwitch, Calls, DeleteCalls, Flows, Phases, Reasons
<1>4. CASE StartInner(r)
  <2>1. Cached(r) \in ScheduledMachines
    BY DEF Cached, TypeOK
  <2>2. PICK call \in {"check_reclaim", "resolve"} : BeginInner(r, call)
    BY <1>4 DEF StartInner
  <2>3. RecType'
    BY <2>1, <2>2, ConstantObjects DEF RecType, BeginInner, Reconciles, Calls
  <2>. QED BY <2>3, QuietType
<1>. QED BY <1>1, <1>2, <1>3, <1>4

\* The phase handlers change only where the reconcile stands.
LEMMA HandlerType ==
    ASSUME TypeOK, NEW r \in Replicas,
           \/ HandlePendingPhase(r) \/ HandleActivePhase(r) \/ HandleShuttingDownPhase(r)
           \/ HandleInactivePhase(r) \/ HandleDisabledPhase(r)
           \/ HandleEmergencyRemovePhase(r) \/ HandleTerminatedPhase(r) \/ HandleErrorPhase(r)
    PROVE  TypeOK'
<1>. RecType
  BY DEF TypeOK, RecType
<1>1. Quiet
  BY DEF HandlePendingPhase, HandleActivePhase, HandleShuttingDownPhase, HandleInactivePhase,
     HandleDisabledPhase, HandleEmergencyRemovePhase, HandleTerminatedPhase, HandleErrorPhase,
     Dispatch, NoFault, Quiet
<1>2. \/ \E to \in Phases, why \in Reasons : GotoPhase(r, to, why)
      \/ \E flow \in Flows, call \in Calls : GotoIn(r, flow, call)
      \/ Return(r)
  <2>1. CASE HandlePendingPhase(r)
    BY <2>1 DEF HandlePendingPhase, Phases, Reasons, Flows, Calls, CreateCalls
  <2>2. CASE HandleActivePhase(r)
    BY <2>2 DEF HandleActivePhase, Phases, Reasons, Flows, Calls
  <2>3. CASE HandleShuttingDownPhase(r)
    BY <2>3 DEF HandleShuttingDownPhase, Flows, Calls
  <2>4. CASE HandleInactivePhase(r) \/ HandleDisabledPhase(r) \/ HandleEmergencyRemovePhase(r)
    BY <2>4 DEF HandleInactivePhase, HandleDisabledPhase, HandleEmergencyRemovePhase,
       Phases, Reasons
  <2>5. CASE HandleTerminatedPhase(r) \/ HandleErrorPhase(r)
    BY <2>5 DEF HandleTerminatedPhase, HandleErrorPhase
  <2>. QED BY <2>1, <2>2, <2>3, <2>4, <2>5
<1>. QED BY <1>1, <1>2, GotoPhaseType, GotoInType, ReturnType, QuietType

\* The calls of a reconcile.
LEMMA CallType ==
    ASSUME TypeOK, NEW r \in Replicas,
           \/ AddFinalizer(r) \/ RemoveFinalizer(r)
           \/ CheckReclaim(r) \/ Resolve(r) \/ PersistSpot(r)
           \/ Enrich(r) \/ CreateBootstrap(r) \/ CreateInfra(r) \/ CreateMachine(r)
           \/ Drain(r) \/ DeleteMachine(r) \/ DeleteBootstrap(r) \/ DeleteInfra(r)
           \/ UpdatePhase(r) \/ EmergencyPhase(r) \/ DisableSchedule(r) \/ ClearAnnotations(r)
    PROVE  TypeOK'
<1>. RecType /\ CapiType
  BY DEF TypeOK, RecType, CapiType
<1>. USE DEF NoFault, envVars
<1>1. CASE AddFinalizer(r)
  BY <1>1, ReturnType DEF AddFinalizer, TypeOK, RecType, ScheduledMachines
<1>2. CASE RemoveFinalizer(r)
  <2>1. sm' \in ScheduledMachines
    BY <1>2, ConstantObjects DEF RemoveFinalizer, TypeOK, ScheduledMachines
  <2>. QED BY <1>2, <2>1, ReturnType DEF RemoveFinalizer, TypeOK, RecType
<1>3. CASE CheckReclaim(r)
  BY <1>3, GotoType, GotoInType, QuietType DEF CheckReclaim, Quiet, Calls, Flows
<1>4. CASE Resolve(r)
  BY <1>4, ResolveFields, QuietType DEF Resolve, Quiet
<1>5. CASE PersistSpot(r)
  <2>1. RecType'
    BY <1>5, GotoType, ReturnType DEF PersistSpot
  <2>2. Obj(r).spot \in {"none", "Active", "Inactive"}
    BY DEF Obj, RecType, Reconciles, ScheduledMachines
  <2>3. sm' = sm \/ sm' = [sm EXCEPT !.spot = Obj(r).spot]
    BY <1>5 DEF PersistSpot
  <2>4. sm' \in ScheduledMachines
    BY <2>2, <2>3 DEF TypeOK, ScheduledMachines
  <2>. QED BY <1>5, <2>1, <2>4 DEF PersistSpot, TypeOK, RecType
<1>6. CASE Enrich(r)
  BY <1>6, ReturnType DEF Enrich, TypeOK, RecType, ScheduledMachines
<1>7. CASE CreateBootstrap(r)
  BY <1>7, GotoType, CapiEffectType
     DEF CreateBootstrap, TypeOK, RecType, CapiType, Kinds, Calls, CreateCalls
<1>8. CASE CreateInfra(r)
  BY <1>8, GotoType, CapiEffectType
     DEF CreateInfra, TypeOK, RecType, CapiType, Kinds, Calls, CreateCalls
<1>9. CASE CreateMachine(r)
  <2>1. RecType'
    BY <1>9, GotoPhaseType DEF CreateMachine, Phases, Reasons
  <2>2. CapiType'
    BY <1>9, CapiEffectType DEF CreateMachine, Kinds
  <2>3. faults' \in 0..MaxFaults
    BY <1>9, ConstAssumption DEF CreateMachine, Fault, TypeOK
  <2>4. hist' \in Histories
    BY <1>9 DEF CreateMachine, TypeOK, Histories
  <2>. QED BY <1>9, <2>1, <2>2, <2>3, <2>4 DEF CreateMachine, TypeOK, RecType, CapiType
<1>10. CASE Drain(r)
  BY <1>10, GotoType, QuietType DEF Drain, Quiet, Calls, DeleteCalls
<1>11. CASE DeleteMachine(r)
  BY <1>11, GotoType, CapiEffectType
     DEF DeleteMachine, TypeOK, RecType, CapiType, Kinds, Calls, DeleteCalls, Histories
<1>12. CASE DeleteBootstrap(r)
  BY <1>12, GotoType, CapiEffectType
     DEF DeleteBootstrap, TypeOK, RecType, CapiType, Kinds, Calls, DeleteCalls
<1>13. CASE DeleteInfra(r)
  <2>1. RecType'
    BY <1>13, GotoType, GotoPhaseType DEF DeleteInfra, AfterRemoval, Calls, Phases, Reasons
  <2>. QED BY <1>13, <2>1, CapiEffectType DEF DeleteInfra, TypeOK, RecType, CapiType, Kinds
<1>14. CASE UpdatePhase(r)
  <2>1. rec[r].to \in Phases /\ rec[r].why \in Reasons
    BY DEF RecType, Reconciles
  <2>2. sm' \in ScheduledMachines /\ hist' \in Histories
    BY <1>14, <2>1, PhasePatchType DEF UpdatePhase, TypeOK
  <2>. QED BY <1>14, <2>2, ReturnType DEF UpdatePhase, TypeOK, RecType
<1>15. CASE EmergencyPhase(r)
  <2>1. sm' \in ScheduledMachines /\ hist' \in Histories
    BY <1>15, PhasePatchType DEF EmergencyPhase, TypeOK, Phases, Reasons
  <2>2. RecType'
    BY <1>15, GotoType, ReturnType DEF EmergencyPhase, Calls
  <2>. QED BY <1>15, <2>1, <2>2 DEF EmergencyPhase, TypeOK, RecType
<1>16. CASE DisableSchedule(r)
  <2>1. RecType'
    BY <1>16, GotoType, ReturnType DEF DisableSchedule, Calls
  <2>2. sm' \in ScheduledMachines
    <3>1. sm' = sm \/ sm' = [sm EXCEPT !.enabled = FALSE]
      BY <1>16 DEF DisableSchedule
    <3>2. sm \in ScheduledMachines
      BY DEF TypeOK
    <3>. QED BY <3>1, <3>2 DEF ScheduledMachines
  <2>. QED BY <1>16, <2>1, <2>2 DEF DisableSchedule, TypeOK, RecType
<1>17. CASE ClearAnnotations(r)
  BY <1>17, GotoPhaseType DEF ClearAnnotations, TypeOK, RecType, Phases, Reasons
<1>. QED BY <1>1, <1>2, <1>3, <1>4, <1>5, <1>6, <1>7, <1>8, <1>9, <1>10, <1>11, <1>12,
            <1>13, <1>14, <1>15, <1>16, <1>17

\* Faults.
LEMMA FaultType ==
    ASSUME TypeOK
    PROVE  /\ \A r \in Replicas : CallFails(r) \/ CleanupTimesOut(r) \/ Crash(r) => TypeOK'
           /\ LeaseMoves => TypeOK'
<1>. RecType
  BY DEF TypeOK, RecType
<1>0. ASSUME NEW r \in Replicas, CutOff(r) PROVE hist' \in Histories
  BY <1>0 DEF CutOff, TypeOK, Histories
<1>1. Fault => faults' \in 0..MaxFaults
  BY ConstAssumption DEF Fault, TypeOK
<1>2. ASSUME NEW r \in Replicas, CallFails(r)
      PROVE  TypeOK'
  <2>1. RecType'
    BY <1>2, GotoPhaseType, ReturnType DEF CallFails, Phases, Reasons
  <2>. QED BY <1>0, <1>1, <1>2, <2>1 DEF CallFails, TypeOK, RecType, apiVars, envVars
<1>3. ASSUME NEW r \in Replicas, CleanupTimesOut(r)
      PROVE  TypeOK'
  <2>1. RecType'
    BY <1>3, GotoType, ReturnType DEF CleanupTimesOut, Calls
  <2>2. hist' \in Histories
    BY <1>3 DEF CleanupTimesOut, TypeOK, Histories
  <2>. QED BY <1>1, <1>3, <2>1, <2>2 DEF CleanupTimesOut, TypeOK, RecType, apiVars, envVars
<1>4. ASSUME NEW r \in Replicas, Crash(r)
      PROVE  TypeOK'
  BY <1>0, <1>1, <1>4, ReturnType DEF Crash, TypeOK, RecType, apiVars
<1>5. LeaseMoves => TypeOK'
  BY <1>1 DEF LeaseMoves, TypeOK, apiVars
<1>. QED BY <1>2, <1>3, <1>4, <1>5

\* The user, the provider, time, CAPI and the agent.
LEMMA EnvironmentType ==
    ASSUME TypeOK, Environment
    PROVE  TypeOK'
<1>. USE DEF TypeOK, apiVars, envVars
<1>1. CASE LeaseMoves
  BY <1>1, FaultType
<1>2. CASE UserEnables \/ UserDisables \/ \E on \in BOOLEAN : UserSetsKillSwitch(on)
  <2>1. sm' \in ScheduledMachines
    <3>1. CASE UserEnables
      BY <3>1 DEF UserEnables, UserEdit, ScheduledMachines
    <3>2. CASE UserDisables
      BY <3>2 DEF UserDisables, UserEdit, ScheduledMachines
    <3>3. CASE \E on \in BOOLEAN : UserSetsKillSwitch(on)
      BY <3>3 DEF UserSetsKillSwitch, UserEdit, ScheduledMachines
    <3>. QED BY <1>2, <3>1, <3>2, <3>3
  <2>2. hist' \in Histories
    BY <1>2 DEF UserEnables, UserDisables, UserSetsKillSwitch, Histories
  <2>. QED BY <1>2, <2>1, <2>2 DEF UserEnables, UserDisables, UserSetsKillSwitch, UserEdit
<1>3. CASE UserDeletes
  <2>1. sm' \in ScheduledMachines
    BY <1>3, ConstantObjects DEF UserDeletes, UserEdit, ScheduledMachines
  <2>. QED BY <1>3, <2>1 DEF UserDeletes, UserEdit
<1>4. CASE ProviderFlips
  BY <1>4 DEF ProviderFlips
<1>5. CASE Tick \/ ClockStepsBack
  <2>0. PICK d \in Int : ClockMoves(d)
    BY <1>5, ClockStep
  <2>1. sm' \in ScheduledMachines /\ store' \in [Replicas -> ScheduledMachines]
    BY <2>0, ShiftedFields DEF ClockMoves
  <2>2. rec' \in [Replicas -> Reconciles]
    <3>. SUFFICES ASSUME NEW r \in Replicas
                  PROVE  [rec[r] EXCEPT !.obj = Shifted(rec[r].obj, d)] \in Reconciles
      BY <2>0 DEF ClockMoves
    <3>1. Shifted(rec[r].obj, d) \in ScheduledMachines
      BY ShiftedFields DEF Reconciles
    <3>. QED BY <3>1 DEF Reconciles
  <2>3. hist' \in Histories
    BY <1>5 DEF Tick, ClockStepsBack, Histories
  <2>4. faults' \in 0..MaxFaults
    BY <1>5, ConstAssumption DEF Tick, ClockStepsBack, Fault, NoFault
  <2>. QED BY <2>0, <2>1, <2>2, <2>3, <2>4 DEF ClockMoves
<1>6. CASE NodeJoins \/ NodeLeaves \/ AgentRequestsReclaim
  <2>1. node' \in [up : BOOLEAN, reclaim : BOOLEAN]
    <3>1. CASE NodeJoins \/ NodeLeaves
      <4>1. \E up \in BOOLEAN : node' = [up |-> up, reclaim |-> FALSE]
        BY <3>1 DEF NodeJoins, NodeLeaves
      <4>. QED BY <4>1
    <3>2. CASE AgentRequestsReclaim
      BY <3>2 DEF AgentRequestsReclaim
    <3>. QED BY <1>6, <3>1, <3>2
  <2>. QED BY <1>6, <2>1 DEF NodeJoins, NodeLeaves, AgentRequestsReclaim
<1>7. CASE GarbageCollect
  BY <1>7, CapiEffectType DEF GarbageCollect, CapiType, Kinds
<1>8. CASE CapiFinishes
  BY <1>8 DEF CapiFinishes
<1>. QED BY <1>1, <1>2, <1>3, <1>4, <1>5, <1>6, <1>7, <1>8 DEF Environment

\* Every state the program reaches is well typed: no phase, flow, counter or
\* cached copy leaves its domain, whatever the interleaving and the faults.
THEOREM TypeCorrect == Spec => []TypeOK
<1>1. Init => TypeOK
  BY ConstantObjects, ConstAssumption DEF Init, TypeOK, Verdicts, Histories
<1>2. TypeOK /\ [Next]_vars => TypeOK'
  <2>. SUFFICES ASSUME TypeOK, [Next]_vars PROVE TypeOK'
    OBVIOUS
  <2>1. CASE UNCHANGED vars
    BY <2>1 DEF TypeOK, vars
  <2>2. CASE Environment
    BY <2>2, EnvironmentType
  <2>3. ASSUME NEW r \in Replicas, Replica(r)
        PROVE  TypeOK'
    <3>1. CASE ReconcileStep(r)
      BY <3>1, StartType, HandlerType, CallType DEF ReconcileStep
    <3>2. CASE CallFails(r) \/ CleanupTimesOut(r) \/ Crash(r)
      BY <3>2, FaultType
    <3>3. CASE WatchDeliver(r)
      BY <3>3 DEF WatchDeliver, TypeOK, apiVars
    <3>. QED BY <2>3, <3>1, <3>2, <3>3 DEF Replica
  <2>. QED BY <2>1, <2>2, <2>3 DEF Next
<1>. QED BY <1>1, <1>2, PTL DEF Spec

---------------------------------------------------------------------------
(* The finalizer precedes every CAPI object *)

\* The finalizer and the deletion mark stay, as far as the invariant needs it:
\* only add_finalizer, the end of handle_deletion and the user touch them.
Monotone == (Held => Held') /\ (sm.deleting => sm'.deleting)

\* The calls that leave the ScheduledMachine alone.
LEMMA ObjectUntouched ==
    ASSUME NEW r \in Replicas,
           \/ StartDeletion(r) \/ StartAddFinalizer(r) \/ StartKillSwitch(r) \/ StartInner(r)
           \/ CheckReclaim(r) \/ Resolve(r)
           \/ HandlePendingPhase(r) \/ HandleActivePhase(r) \/ HandleShuttingDownPhase(r)
           \/ HandleInactivePhase(r) \/ HandleDisabledPhase(r)
           \/ HandleEmergencyRemovePhase(r) \/ HandleTerminatedPhase(r) \/ HandleErrorPhase(r)
           \/ CreateBootstrap(r) \/ CreateInfra(r) \/ CreateMachine(r) \/ Drain(r)
           \/ DeleteMachine(r) \/ DeleteBootstrap(r) \/ DeleteInfra(r) \/ ClearAnnotations(r)
    PROVE  sm' = sm
  BY DEF StartDeletion, StartAddFinalizer, StartKillSwitch, StartInner, Dequeue, CheckReclaim,
     Resolve, HandlePendingPhase, HandleActivePhase, HandleShuttingDownPhase,
     HandleInactivePhase, HandleDisabledPhase, HandleEmergencyRemovePhase,
     HandleTerminatedPhase, HandleErrorPhase, Dispatch, CreateBootstrap, CreateInfra,
     CreateMachine, Drain, DeleteMachine, DeleteBootstrap, DeleteInfra, ClearAnnotations, apiVars

LEMMA HeldStays ==
    ASSUME TypeOK, FinalizerHeld, [Next]_vars
    PROVE  Monotone
<1>. sm \in ScheduledMachines
  BY DEF TypeOK
<1>. USE DEF Monotone, Held
<1>1. ASSUME NEW r \in Replicas, ReconcileStep(r)
      PROVE  Monotone
  <2>1. CASE AddFinalizer(r)
    BY <2>1 DEF AddFinalizer, ScheduledMachines
  <2>2. CASE RemoveFinalizer(r)
    <3>1. sm.deleting
      BY <2>2 DEF RemoveFinalizer, At, FinalizerHeld, RecHeld
    <3>. QED BY <2>2, <3>1 DEF RemoveFinalizer, Gone, NewMachine
  <2>3. CASE PersistSpot(r)
    BY <2>3 DEF PersistSpot, ScheduledMachines
  <2>4. CASE Enrich(r)
    BY <2>4 DEF Enrich, ScheduledMachines
  <2>5. CASE UpdatePhase(r) \/ EmergencyPhase(r)
    BY <2>5 DEF UpdatePhase, EmergencyPhase, PhasePatch, ScheduledMachines
  <2>6. CASE DisableSchedule(r)
    BY <2>6 DEF DisableSchedule, ScheduledMachines
  <2>7. CASE sm' = sm
    BY <2>7
  <2>. QED BY <1>1, <2>1, <2>2, <2>3, <2>4, <2>5, <2>6, <2>7, ObjectUntouched DEF ReconcileStep
<1>2. CASE UserEnables \/ UserDisables \/ \E on \in BOOLEAN : UserSetsKillSwitch(on)
  BY <1>2 DEF UserEnables, UserDisables, UserSetsKillSwitch, UserEdit, ScheduledMachines
<1>3. CASE UserDeletes
  BY <1>3 DEF UserDeletes, UserEdit, Gone, NewMachine, ScheduledMachines
<1>4. CASE Tick \/ ClockStepsBack
  <2>1. PICK d \in Int : ClockMoves(d)
    BY <1>4, ClockStep
  <2>. QED BY <2>1, ShiftedFields DEF ClockMoves
<1>5. CASE sm' = sm
  BY <1>5
<1>6. ASSUME NEW r \in Replicas,
             CallFails(r) \/ CleanupTimesOut(r) \/ Crash(r) \/ WatchDeliver(r)
      PROVE  sm' = sm
  BY <1>6 DEF CallFails, CleanupTimesOut, Crash, WatchDeliver, apiVars
<1>7. ASSUME LeaseMoves \/ ProviderFlips \/ NodeJoins \/ NodeLeaves \/ AgentRequestsReclaim
             \/ GarbageCollect \/ CapiFinishes \/ UNCHANGED vars
      PROVE  sm' = sm
  BY <1>7 DEF LeaseMoves, ProviderFlips, NodeJoins, NodeLeaves, AgentRequestsReclaim,
     GarbageCollect, CapiFinishes, apiVars, vars
<1>. QED BY <1>1, <1>2, <1>3, <1>4, <1>5, <1>6, <1>7 DEF Next, Environment, Replica

\* How a reconcile moves on without losing its part of the invariant.
LEMMA GotoHeld ==
    ASSUME RecType, Monotone, \A q \in Replicas : RecHeld(q),
           NEW r \in Replicas, NEW call, Goto(r, call),
           call \in InnerCalls => Held, call = "remove_finalizer" => sm.deleting
    PROVE  \A q \in Replicas : RecHeld(q)'
  BY DEF RecType, Reconciles, Monotone, RecHeld, Goto

LEMMA GotoInHeld ==
    ASSUME RecType, Monotone, \A q \in Replicas : RecHeld(q),
           NEW r \in Replicas, NEW flow, NEW call, GotoIn(r, flow, call),
           call \in InnerCalls => Held,
           (call = "remove_finalizer" \/ flow = "delete") => sm.deleting
    PROVE  \A q \in Replicas : RecHeld(q)'
  BY DEF RecType, Reconciles, Monotone, RecHeld, GotoIn, Idle

LEMMA GotoPhaseHeld ==
    ASSUME RecType, Monotone, \A q \in Replicas : RecHeld(q),
           NEW r \in Replicas, NEW phase, NEW reason,
           GotoPhase(r, phase, reason)
    PROVE  \A q \in Replicas : RecHeld(q)'
  BY DEF RecType, Reconciles, Monotone, RecHeld, GotoPhase, Idle, InnerCalls, CreateCalls

LEMMA ReturnHeld ==
    ASSUME RecType, Monotone, \A q \in Replicas : RecHeld(q),
           NEW r \in Replicas, Return(r)
    PROVE  \A q \in Replicas : RecHeld(q)'
  BY DEF RecType, Reconciles, Monotone, RecHeld, Return, Idle, InnerCalls, CreateCalls

\* A dequeued item: the cached copy vouches for the API server's.
LEMMA StartHeld ==
    ASSUME TypeOK, FinalizerHeld, Monotone, NEW r \in Replicas,
           StartDeletion(r) \/ StartAddFinalizer(r) \/ StartKillSwitch(r) \/ StartInner(r)
    PROVE  \A q \in Replicas : RecHeld(q)'
<1>. RecType /\ \A q \in Replicas : RecHeld(q)
  BY DEF TypeOK, RecType, FinalizerHeld
<1>0. (Cached(r).finalizer => Held) /\ (Cached(r).deleting => sm.deleting)
  BY DEF Cached, FinalizerHeld, StoreHeld, Held
<1>1. CASE StartDeletion(r)
  BY <1>0, <1>1, GotoInHeld DEF StartDeletion, InnerCalls, CreateCalls
<1>2. CASE StartAddFinalizer(r)
  BY <1>2, GotoHeld DEF StartAddFinalizer, InnerCalls, CreateCalls
<1>3. CASE StartKillSwitch(r)
  <2>1. CASE GotoIn(r, "kill", "delete_machine")
    BY <2>1, GotoInHeld DEF InnerCalls, CreateCalls
  <2>2. CASE GotoPhase(r, "Terminated", "Other")
    BY <2>2, GotoPhaseHeld
  <2>. QED BY <1>3, <2>1, <2>2 DEF StartKillSwitch
<1>4. CASE StartInner(r)
  <2>1. Held
    BY <1>0, <1>4 DEF StartInner
  <2>2. PICK call \in {"check_reclaim", "resolve"} : BeginInner(r, call)
    BY <1>4 DEF StartInner
  <2>. QED BY <2>1, <2>2 DEF BeginInner, RecType, Reconciles, Monotone, RecHeld, Idle
<1>. QED BY <1>1, <1>2, <1>3, <1>4

\* The phase handlers: only handle_pending_phase goes on to create.
LEMMA HandlerHeld ==
    ASSUME TypeOK, FinalizerHeld, Monotone, NEW r \in Replicas,
           \/ HandlePendingPhase(r) \/ HandleActivePhase(r) \/ HandleShuttingDownPhase(r)
           \/ HandleInactivePhase(r) \/ HandleDisabledPhase(r)
           \/ HandleEmergencyRemovePhase(r) \/ HandleTerminatedPhase(r) \/ HandleErrorPhase(r)
    PROVE  \A q \in Replicas : RecHeld(q)'
<1>. RecType /\ \A q \in Replicas : RecHeld(q)
  BY DEF TypeOK, RecType, FinalizerHeld
<1>1. At(r, "dispatch")
  BY DEF HandlePendingPhase, HandleActivePhase, HandleShuttingDownPhase, HandleInactivePhase,
     HandleDisabledPhase, HandleEmergencyRemovePhase, HandleTerminatedPhase, HandleErrorPhase,
     Dispatch
<1>2. Held
  BY <1>1 DEF At, RecHeld, InnerCalls
<1>3. CASE \E to, why : GotoPhase(r, to, why)
  BY <1>3, GotoPhaseHeld
<1>4. CASE Return(r)
  BY <1>4, ReturnHeld
<1>5. CASE GotoIn(r, "none", "create_bootstrap") \/ GotoIn(r, "none", "enrich")
           \/ GotoIn(r, "shutdown", "drain")
  BY <1>2, <1>5, GotoInHeld
<1>. QED BY <1>3, <1>4, <1>5 DEF HandlePendingPhase, HandleActivePhase, HandleShuttingDownPhase,
            HandleInactivePhase, HandleDisabledPhase, HandleEmergencyRemovePhase,
            HandleTerminatedPhase, HandleErrorPhase

\* The calls: creation goes on from creation, removing the finalizer follows
\* only a deletion's cleanup.
LEMMA CallHeld ==
    ASSUME TypeOK, FinalizerHeld, Monotone, NEW r \in Replicas,
           \/ AddFinalizer(r) \/ RemoveFinalizer(r)
           \/ CheckReclaim(r) \/ Resolve(r) \/ PersistSpot(r)
           \/ Enrich(r) \/ CreateBootstrap(r) \/ CreateInfra(r) \/ CreateMachine(r)
           \/ Drain(r) \/ DeleteMachine(r) \/ DeleteBootstrap(r) \/ DeleteInfra(r)
           \/ UpdatePhase(r) \/ EmergencyPhase(r) \/ DisableSchedule(r) \/ ClearAnnotations(r)
    PROVE  \A q \in Replicas : RecHeld(q)'
<1>. RecType /\ \A q \in Replicas : RecHeld(q)
  BY DEF TypeOK, RecType, FinalizerHeld
<1>. USE DEF InnerCalls, CreateCalls
<1>1. CASE Return(r)
  BY <1>1, ReturnHeld
<1>2. CASE \E to, why : GotoPhase(r, to, why)
  BY <1>2, GotoPhaseHeld
<1>3. CASE CheckReclaim(r)
  BY <1>3, GotoHeld, GotoInHeld DEF CheckReclaim, At, RecHeld
<1>4. CASE Resolve(r)
  BY <1>4 DEF Resolve, At, RecType, Reconciles, Monotone, RecHeld
<1>5. CASE PersistSpot(r)
  BY <1>5, <1>1, GotoHeld DEF PersistSpot, At, RecHeld
<1>6. CASE CreateBootstrap(r) \/ CreateInfra(r)
  BY <1>6, GotoHeld DEF CreateBootstrap, CreateInfra, At, RecHeld
<1>7. CASE Drain(r) \/ DeleteMachine(r) \/ DeleteBootstrap(r)
  BY <1>7, GotoHeld DEF Drain, DeleteMachine, DeleteBootstrap
<1>8. CASE DeleteInfra(r)
  <2>1. CASE rec[r].flow = "delete" /\ Goto(r, "remove_finalizer")
    BY <2>1, GotoHeld DEF RecHeld
  <2>2. CASE Goto(r, "disable_schedule")
    BY <2>2, GotoHeld
  <2>. QED BY <1>2, <1>8, <2>1, <2>2 DEF DeleteInfra, AfterRemoval
<1>9. CASE EmergencyPhase(r)
  BY <1>9, <1>1, GotoHeld DEF EmergencyPhase
<1>10. CASE DisableSchedule(r)
  BY <1>10, <1>1, GotoHeld DEF DisableSchedule
<1>. QED BY <1>1, <1>2, <1>3, <1>4, <1>5, <1>6, <1>7, <1>8, <1>9, <1>10
         DEF AddFinalizer, RemoveFinalizer, Enrich, UpdatePhase, CreateMachine, ClearAnnotations

\* A fault: the reconcile ends, reports Error, or forces the finalizer of an
\* object that is being deleted.
LEMMA FaultHeld ==
    ASSUME TypeOK, FinalizerHeld, Monotone, NEW r \in Replicas,
           CallFails(r) \/ CleanupTimesOut(r) \/ Crash(r)
    PROVE  \A q \in Replicas : RecHeld(q)'
<1>. RecType /\ \A q \in Replicas : RecHeld(q)
  BY DEF TypeOK, RecType, FinalizerHeld
<1>1. CASE Return(r)
  BY <1>1, ReturnHeld
<1>2. CASE \E to, why : GotoPhase(r, to, why)
  BY <1>2, GotoPhaseHeld
<1>3. CASE rec[r].flow = "delete" /\ Goto(r, "remove_finalizer")
  BY <1>3, GotoHeld DEF RecHeld, InnerCalls, CreateCalls
<1>. QED BY <1>1, <1>2, <1>3 DEF CallFails, CleanupTimesOut, Crash

\* Nobody else changes where a reconcile stands.
LEMMA EnvironmentHeld ==
    ASSUME TypeOK, FinalizerHeld, Monotone,
           Environment \/ (\E r \in Replicas : WatchDeliver(r)) \/ UNCHANGED vars
    PROVE  \A q \in Replicas : RecHeld(q)'
<1>. RecType /\ \A q \in Replicas : RecHeld(q)
  BY DEF TypeOK, RecType, FinalizerHeld
<1>1. CASE rec' = rec
  BY <1>1 DEF RecHeld, Monotone
<1>2. CASE Tick \/ ClockStepsBack
  BY <1>2, ClockStep DEF ClockMoves, RecHeld, Monotone, RecType, Reconciles
<1>. QED BY <1>1, <1>2 DEF Environment, LeaseMoves, UserEnables, UserDisables, UserDeletes,
            UserSetsKillSwitch, UserEdit, ProviderFlips, NodeJoins, NodeLeaves,
            AgentRequestsReclaim, GarbageCollect, CapiFinishes, WatchDeliver, vars

\* A cache changes by copying the API server's object, or by ageing.
LEMMA StoreStep ==
    ASSUME TypeOK, FinalizerHeld, Monotone, [Next]_vars
    PROVE  \A q \in Replicas : StoreHeld(q)'
<1>. SUFFICES ASSUME NEW q \in Replicas
              PROVE  StoreHeld(q)'
  OBVIOUS
<1>0. StoreHeld(q)
  BY DEF FinalizerHeld
<1>1. CASE store' = store
  BY <1>0, <1>1 DEF StoreHeld, Monotone
<1>2. CASE \E r \in Replicas : store' = [store EXCEPT ![r] = sm]
  BY <1>0, <1>2 DEF StoreHeld, Held, Monotone, TypeOK
<1>3. CASE Tick \/ ClockStepsBack
  <2>1. PICK d \in Int : ClockMoves(d)
    BY <1>3, ClockStep
  <2>. QED BY <1>0, <2>1, ShiftedFields DEF ClockMoves, StoreHeld, Monotone, TypeOK
<1>4. ASSUME NEW r \in Replicas, ReconcileStep(r)
      PROVE  store' = store
  BY <1>4 DEF ReconcileStep, StartDeletion, StartAddFinalizer, StartKillSwitch, StartInner,
     Dequeue, AddFinalizer, RemoveFinalizer, CheckReclaim, Resolve, PersistSpot,
     HandlePendingPhase, HandleActivePhase, HandleShuttingDownPhase, HandleInactivePhase,
     HandleDisabledPhase, HandleEmergencyRemovePhase, HandleTerminatedPhase, HandleErrorPhase,
     Dispatch, Enrich, CreateBootstrap, CreateInfra, CreateMachine, Drain, DeleteMachine,
     DeleteBootstrap, DeleteInfra, UpdatePhase, EmergencyPhase, DisableSchedule,
     ClearAnnotations, envVars
<1>5. ASSUME NEW r \in Replicas, CallFails(r) \/ CleanupTimesOut(r)
      PROVE  store' = store
  BY <1>5 DEF CallFails, CleanupTimesOut, envVars
<1>6. ASSUME NEW r \in Replicas, Crash(r) \/ WatchDeliver(r)
      PROVE  store' = store \/ store' = [store EXCEPT ![r] = sm]
  BY <1>6 DEF Crash, WatchDeliver
<1>7. ASSUME Environment \/ UNCHANGED vars
      PROVE  store' = store \/ Tick \/ ClockStepsBack
  BY <1>7 DEF Environment, LeaseMoves, UserEnables, UserDisables, UserDeletes,
     UserSetsKillSwitch, UserEdit, ProviderFlips, NodeJoins, NodeLeaves,
     AgentRequestsReclaim, GarbageCollect, CapiFinishes, envVars, vars
<1>. QED BY <1>1, <1>2, <1>3, <1>4, <1>5, <1>6, <1>7 DEF Next, Replica

\* Only a creating reconcile brings a CAPI object to life.
LEMMA CapiStep ==
    ASSUME TypeOK, FinalizerHeld, Monotone, [Next]_vars
    PROVE  \A k \in Kinds : capi'[k] = "live" => Held'
<1>. SUFFICES Held \/ \A k \in Kinds : capi'[k] = "live" => capi[k] = "live"
  BY DEF FinalizerHeld, Monotone
<1>. CapiType
  BY DEF TypeOK, CapiType
<1>1. CASE capi' = capi
  BY <1>1
<1>2. CASE \E k \in Kinds : DeleteEffect(k)
  BY <1>2 DEF DeleteEffect, CapiType
<1>3. CASE CapiFinishes
  BY <1>3 DEF CapiFinishes
<1>4. ASSUME NEW r \in Replicas, CreateBootstrap(r) \/ CreateInfra(r) \/ CreateMachine(r)
      PROVE  Held
  BY <1>4 DEF CreateBootstrap, CreateInfra, CreateMachine, At, FinalizerHeld, RecHeld,
     InnerCalls, CreateCalls
<1>5. ASSUME NEW r \in Replicas, DeleteMachine(r) \/ DeleteBootstrap(r) \/ DeleteInfra(r)
      PROVE  \E k \in Kinds : DeleteEffect(k)
  BY <1>5 DEF DeleteMachine, DeleteBootstrap, DeleteInfra, Kinds
<1>6. ASSUME NEW r \in Replicas,
             \/ StartDeletion(r) \/ StartAddFinalizer(r) \/ StartKillSwitch(r) \/ StartInner(r)
             \/ AddFinalizer(r) \/ RemoveFinalizer(r)
             \/ CheckReclaim(r) \/ Resolve(r) \/ PersistSpot(r)
             \/ HandlePendingPhase(r) \/ HandleActivePhase(r) \/ HandleShuttingDownPhase(r)
             \/ HandleInactivePhase(r) \/ HandleDisabledPhase(r)
             \/ HandleEmergencyRemovePhase(r) \/ HandleTerminatedPhase(r) \/ HandleErrorPhase(r)
             \/ Enrich(r) \/ Drain(r) \/ UpdatePhase(r) \/ EmergencyPhase(r)
             \/ DisableSchedule(r) \/ ClearAnnotations(r)
      PROVE  capi' = capi
  BY <1>6 DEF StartDeletion, StartAddFinalizer, StartKillSwitch, StartInner,
     Dequeue, AddFinalizer, RemoveFinalizer, CheckReclaim, Resolve, PersistSpot,
     HandlePendingPhase, HandleActivePhase, HandleShuttingDownPhase, HandleInactivePhase,
     HandleDisabledPhase, HandleEmergencyRemovePhase, HandleTerminatedPhase, HandleErrorPhase,
     Dispatch, Enrich, Drain, UpdatePhase, EmergencyPhase, DisableSchedule,
     ClearAnnotations, apiVars
<1>7. ASSUME NEW r \in Replicas, ReconcileStep(r)
      PROVE  capi' = capi \/ Held \/ \E k \in Kinds : DeleteEffect(k)
  BY <1>4, <1>5, <1>6, <1>7 DEF ReconcileStep
<1>8. ASSUME NEW r \in Replicas,
             CallFails(r) \/ CleanupTimesOut(r) \/ Crash(r) \/ WatchDeliver(r)
      PROVE  capi' = capi
  BY <1>8 DEF CallFails, CleanupTimesOut, Crash, WatchDeliver, apiVars
<1>9. ASSUME Environment \/ UNCHANGED vars
      PROVE  capi' = capi \/ CapiFinishes \/ \E k \in Kinds : DeleteEffect(k)
  BY <1>9 DEF Environment, LeaseMoves, UserEnables, UserDisables, UserDeletes,
     UserSetsKillSwitch, UserEdit, ProviderFlips, Tick, ClockStepsBack, ClockMoves, NodeJoins,
     NodeLeaves,
     AgentRequestsReclaim, GarbageCollect, apiVars, vars, Kinds
<1>. QED BY <1>1, <1>2, <1>3, <1>7, <1>8, <1>9 DEF Next, Replica

\* The inductive invariant: nothing that may still create works for an object
\* without a finalizer (reconcile_guarded adds it and returns), and nothing
\* removes it from an object that is not being deleted (handle_deletion).
THEOREM FinalizerHeldHolds == Spec => []FinalizerHeld
<1>1. Init => FinalizerHeld
  BY DEF Init, FinalizerHeld, StoreHeld, RecHeld, Idle, NewMachine, InnerCalls, CreateCalls
<1>2. TypeOK /\ FinalizerHeld /\ [Next]_vars => FinalizerHeld'
  <2>. SUFFICES ASSUME TypeOK, FinalizerHeld, [Next]_vars
                PROVE  FinalizerHeld'
    OBVIOUS
  <2>1. Monotone
    BY HeldStays
  <2>2. \A q \in Replicas : RecHeld(q)'
    <3>1. ASSUME NEW r \in Replicas, ReconcileStep(r)
          PROVE  \A q \in Replicas : RecHeld(q)'
      BY <2>1, <3>1, StartHeld, HandlerHeld, CallHeld DEF ReconcileStep
    <3>2. ASSUME NEW r \in Replicas, CallFails(r) \/ CleanupTimesOut(r) \/ Crash(r)
          PROVE  \A q \in Replicas : RecHeld(q)'
      BY <2>1, <3>2, FaultHeld
    <3>3. ASSUME Environment \/ (\E r \in Replicas : WatchDeliver(r)) \/ UNCHANGED vars
          PROVE  \A q \in Replicas : RecHeld(q)'
      BY <2>1, <3>3, EnvironmentHeld
    <3>. QED BY <3>1, <3>2, <3>3 DEF Next, Replica
  <2>3. \A q \in Replicas : StoreHeld(q)'
    BY <2>1, StoreStep
  <2>4. \A k \in Kinds : capi'[k] = "live" => Held'
    BY <2>1, CapiStep
  <2>. QED BY <2>2, <2>3, <2>4 DEF FinalizerHeld
<1>. QED BY <1>1, <1>2, TypeCorrect, PTL DEF Spec

\* No CAPI object exists for a live ScheduledMachine without the finalizer, for
\* any number of replicas, any staleness of their caches and any faults.
THEOREM FinalizerFirstHolds == Spec => []FinalizerFirst
<1>1. FinalizerHeld => FinalizerFirst
  BY DEF FinalizerHeld, FinalizerFirst, Held
<1>. QED BY <1>1, FinalizerHeldHolds, PTL

---------------------------------------------------------------------------
(* One replica on a fresh cache: the order of phases, calls and CAPI objects *)

\* One replica runs and a reconcile begins on the API server's object.
Single == \A q, r \in Replicas : q = r
Alone == Single /\ ~StaleReads

Live(k) == capi[k] = "live"

\* The object of a reconcile stays while the reconcile is at work: nobody else
\* removes a finalizer that is there.
Bound == (Calls \cup {"dispatch"}) \ {"add_finalizer"}
Present(r) == rec[r].pc \in Bound => sm.exists /\ Held

\* Until the phase handler has branched, the copy has the phase, reason and age
\* the API server has.
Reading == {"check_reclaim", "resolve", "persist_spot", "dispatch"}
Copied(r) ==
    rec[r].pc \in Reading =>
        /\ Obj(r).phase = sm.phase /\ Obj(r).reason = sm.reason /\ Obj(r).age = sm.age

\* The grace period on record is over, or the clock was set back since it began; a start
\* ahead of the clock is of the second kind.
Waited == sm.reason = "GracePeriod" => (sm.age >= Grace \/ hist.skewed)
Skew == sm.age < 0 => hist.skewed

\* The phase in which each call is made.
Removing == DeleteCalls \cup {"drain"}
Staged(r) ==
    /\ rec[r].pc \in CreateCalls => sm.phase = "Pending"
    /\ rec[r].pc = "emergency_phase" => rec[r].flow = "emergency"
    /\ rec[r].pc \in Removing =>
         \/ rec[r].flow \in {"kill", "delete"} /\ sm.phase \in RunningPhases
         \/ rec[r].flow = "shutdown" /\ sm.phase = "ShuttingDown" /\ Waited
         \/ rec[r].flow = "emergency" /\ sm.phase = "EmergencyRemove"
    /\ rec[r].pc \in {"disable_schedule", "clear_annotations"} => sm.phase = "EmergencyRemove"

\* What a removal has deleted so far.
Removed(r) ==
    /\ rec[r].pc \in {"delete_bootstrap", "delete_infra", "disable_schedule", "clear_annotations"}
          => ~Live("machine")
    /\ rec[r].pc = "delete_infra" => ~Live("bootstrap")
    /\ (rec[r].pc = "remove_finalizer" /\ sm.phase \in RunningPhases /\ ~hist.forced)
          => \A k \in Kinds : ~Live(k)

\* A Machine that runs in phase EmergencyRemove has its request still on the Node, so
\* an interrupted removal is taken up again and not reported as Disabled.
Requested(r) ==
    /\ rec[r].pc \in {"check_reclaim", "emergency_phase"} => sm.nodeRef
    /\ ((sm.exists /\ sm.phase = "EmergencyRemove") \/ rec[r].pc = "emergency_phase")
          /\ Live("machine") => node.up /\ node.reclaim /\ sm.nodeRef
    /\ (rec[r].pc \in {"resolve", "persist_spot", "dispatch"} /\ sm.phase = "EmergencyRemove")
          => ~Live("machine")

\* What a creation has made so far: a Machine, or one that was being torn down was taken for
\* it, and only on the way to phase Active.
Created(r) ==
    (rec[r].pc = "update_phase" /\ rec[r].to = "Active") => Live("machine") \/ hist.adopted
Taken == sm.exists /\ hist.adopted => sm.phase \in {"Pending", "Active"}

\* The phase about to be written follows from the one that is there.
Moves(from, to) ==
    \/ to = "Terminated"
    \/ from = "Pending" /\ to \in {"Disabled", "Inactive", "Active", "Error"}
    \/ from = "Active" /\ to = "ShuttingDown"
    \/ from = "ShuttingDown" /\ to \in {"Inactive", "Error"}
    \/ from \in {"Inactive", "Disabled"} /\ to = "Pending"
    \/ from = "EmergencyRemove" /\ to = "Disabled"

Reported(r) ==
    rec[r].pc = "update_phase" =>
        /\ Moves(sm.phase, rec[r].to)
        /\ (sm.phase \in RunningPhases /\ rec[r].to \in {"Inactive", "Terminated"})
              => ~Live("machine")
        /\ (sm.phase = "EmergencyRemove" /\ rec[r].to = "Disabled") => ~Live("machine")

Ordered(r) ==
    /\ Present(r) /\ Copied(r) /\ Staged(r) /\ Removed(r)
    /\ Requested(r) /\ Created(r) /\ Reported(r)
    /\ Skew /\ Taken
Order == \A r \in Replicas : Ordered(r)

\* How a reconcile moves on, field by field.
LEMMA GotoFields ==
    ASSUME RecType, NEW r \in Replicas, NEW call, Goto(r, call)
    PROVE  /\ rec'[r].pc = call /\ rec'[r].flow = rec[r].flow /\ rec'[r].obj = rec[r].obj
           /\ rec'[r].to = rec[r].to
  BY DEF RecType, Reconciles, Goto

LEMMA GotoInFields ==
    ASSUME RecType, NEW r \in Replicas, NEW flow, NEW call, GotoIn(r, flow, call)
    PROVE  rec'[r].pc = call /\ rec'[r].flow = flow
  BY DEF RecType, Reconciles, GotoIn, Idle

LEMMA GotoPhaseFields ==
    ASSUME RecType, NEW r \in Replicas, NEW phase, NEW reason, GotoPhase(r, phase, reason)
    PROVE  rec'[r].pc = "update_phase" /\ rec'[r].flow = "none" /\ rec'[r].to = phase
  BY DEF RecType, Reconciles, GotoPhase, Idle

LEMMA ReturnFields ==
    ASSUME RecType, NEW r \in Replicas, Return(r)
    PROVE  rec'[r].pc = "idle" /\ rec'[r].flow = "none"
  BY DEF RecType, Reconciles, Return, Idle

\* What the order says of every state, whatever the reconcile is at.
Always ==
    /\ sm.exists /\ sm.phase = "EmergencyRemove" /\ Live("machine")
         => node.up /\ node.reclaim /\ sm.nodeRef
    /\ Skew /\ Taken

\* A reconcile that is over, or has not got further than the finalizer, asks for no more.
LEMMA UnboundOrder ==
    ASSUME NEW r \in Replicas, rec'[r].pc \notin Bound, Always'
    PROVE  Ordered(r)'
  BY DEF Ordered, Present, Copied, Staged, Removed, Requested, Created, Reported, Live, Always,
     Bound, Reading, Removing, Calls, CreateCalls, DeleteCalls

LEMMA AlwaysOrder ==
    ASSUME NEW r \in Replicas, Ordered(r)
    PROVE  Always
  BY DEF Ordered, Requested, Created, Always

\* The parts of the object the order is about.
SameObject ==
    /\ sm'.exists = sm.exists /\ sm'.phase = sm.phase /\ sm'.reason = sm.reason
    /\ sm'.age = sm.age /\ sm'.nodeRef = sm.nodeRef

\* Others may change the rest of the object and add to the Node.
LEMMA UntouchedOrder ==
    ASSUME NEW r \in Replicas, Ordered(r), Monotone, rec' = rec, SameObject,
           capi' = capi, hist'.forced = hist.forced, hist'.skewed = hist.skewed,
           hist'.adopted = hist.adopted,
           Live("machine") /\ node.up /\ node.reclaim => node'.up /\ node'.reclaim
    PROVE  Ordered(r)'
<1>1. (Present(r) /\ Copied(r) /\ Staged(r))'
  BY DEF Ordered, Present, Copied, Staged, SameObject, Monotone, Obj, Waited
<1>2. (Removed(r) /\ Created(r) /\ Reported(r))'
  BY DEF Ordered, Removed, Created, Reported, SameObject, Live
<1>3. Requested(r)'
  BY DEF Ordered, Requested, SameObject, Live
<1>4. (Skew /\ Taken)'
  BY DEF Ordered, Skew, Taken, SameObject
<1>. QED BY <1>1, <1>2, <1>3, <1>4 DEF Ordered

\* Time keeps every copy of the timestamp in step, and an elapsed grace period elapsed; a
\* clock that is set back is on record.
LEMMA ClockOrder ==
    ASSUME TypeOK, NEW r \in Replicas, Ordered(r), Monotone, Tick \/ ClockStepsBack
    PROVE  Ordered(r)'
<1>0. /\ sm \in ScheduledMachines /\ rec[r] \in Reconciles /\ rec[r].obj \in ScheduledMachines
      /\ sm.age \in -1..Grace /\ Grace \in Nat /\ hist \in Histories
  BY ConstAssumption DEF TypeOK, Reconciles, ScheduledMachines
<1>1. PICK d \in Int : ClockMoves(d)
  BY ClockStep
<1>2. /\ sm'.exists = sm.exists /\ sm'.phase = sm.phase /\ sm'.reason = sm.reason
      /\ sm'.nodeRef = sm.nodeRef /\ sm'.age = ShiftedAge(sm.reason, sm.age, d)
      /\ UNCHANGED <<capi, node>>
  BY <1>0, <1>1, ShiftedFields DEF ClockMoves
<1>3. rec'[r] = [rec[r] EXCEPT !.obj = Shifted(rec[r].obj, d)]
  BY <1>1 DEF ClockMoves
<1>4. /\ rec'[r].pc = rec[r].pc /\ rec'[r].flow = rec[r].flow /\ rec'[r].to = rec[r].to
      /\ rec'[r].obj.phase = rec[r].obj.phase /\ rec'[r].obj.reason = rec[r].obj.reason
      /\ rec'[r].obj.age = ShiftedAge(rec[r].obj.reason, rec[r].obj.age, d)
  <2>. DEFINE o == Shifted(rec[r].obj, d)
  <2>1. /\ o.phase = rec[r].obj.phase /\ o.reason = rec[r].obj.reason
        /\ o.age = ShiftedAge(rec[r].obj.reason, rec[r].obj.age, d)
    BY <1>0, ShiftedFields
  <2>. HIDE DEF o
  <2>2. /\ rec'[r].pc = rec[r].pc /\ rec'[r].flow = rec[r].flow /\ rec'[r].to = rec[r].to
        /\ rec'[r].obj = o
    BY <1>0, <1>3 DEF Reconciles, o
  <2>. QED BY <2>1, <2>2
<1>5. hist'.forced = hist.forced /\ hist'.adopted = hist.adopted
  BY <1>0 DEF Tick, ClockStepsBack, Histories
<1>6. Skew' /\ (Waited => Waited')
  <2>1. CASE Tick
    <3>1. sm' = Shifted(sm, 1) /\ hist' = hist
      BY <2>1 DEF Tick, ClockMoves
    <3>2. sm'.age = ShiftedAge(sm.reason, sm.age, 1)
      BY <1>0, <3>1, ShiftedFields
    <3>. QED BY <1>0, <1>2, <3>1, <3>2 DEF ShiftedAge, Waited, Skew, Ordered
  <2>2. CASE ClockStepsBack
    <3>1. /\ hist.skewed => hist'.skewed
          /\ sm.reason = "GracePeriod" => hist'.skewed
      BY <1>0, <2>2 DEF ClockStepsBack, Histories
    <3>2. sm.reason # "GracePeriod" => sm'.age = sm.age
      BY <1>2 DEF ShiftedAge
    <3>. QED BY <1>2, <3>1, <3>2 DEF Waited, Skew, Ordered
  <2>. QED BY <2>1, <2>2
<1>7. (Present(r) /\ Staged(r) /\ Copied(r))'
  BY <1>2, <1>4, <1>6 DEF Ordered, Present, Staged, Monotone, Copied, Obj
<1>8. (Removed(r) /\ Created(r) /\ Reported(r) /\ Requested(r) /\ Taken)'
  BY <1>2, <1>4, <1>5 DEF Ordered, Removed, Created, Reported, Requested, Live, Taken
<1>. QED BY <1>6, <1>7, <1>8 DEF Ordered

\* The environment and the other faults.
LEMMA EnvironmentOrder ==
    ASSUME TypeOK, NEW r \in Replicas, Ordered(r), Monotone,
           Environment \/ (\E q \in Replicas : WatchDeliver(q)) \/ UNCHANGED vars
    PROVE  Ordered(r)'
<1>. USE DEF apiVars, envVars
<1>0. sm \in ScheduledMachines /\ capi \in [Kinds -> {"none", "live", "terminating"}]
  BY DEF TypeOK
<1>1. CASE LeaseMoves \/ ProviderFlips \/ (\E q \in Replicas : WatchDeliver(q)) \/ UNCHANGED vars
  BY <1>1, UntouchedOrder DEF LeaseMoves, ProviderFlips, WatchDeliver, vars, SameObject
<1>2. CASE UserEnables \/ UserDisables \/ \E on \in BOOLEAN : UserSetsKillSwitch(on)
  <2>1. SameObject
    BY <1>0, <1>2 DEF UserEnables, UserDisables, UserSetsKillSwitch, UserEdit, SameObject,
       ScheduledMachines
  <2>2. /\ hist'.forced = hist.forced /\ hist'.skewed = hist.skewed
        /\ hist'.adopted = hist.adopted
    BY <1>2 DEF UserEnables, UserDisables, UserSetsKillSwitch, TypeOK, Histories
  <2>. QED BY <1>2, <2>1, <2>2, UntouchedOrder
           DEF UserEnables, UserDisables, UserSetsKillSwitch, UserEdit
<1>3. CASE UserDeletes
  <2>1. CASE sm.finalizer
    <3>1. SameObject
      BY <1>0, <1>3, <2>1 DEF UserDeletes, UserEdit, SameObject, ScheduledMachines
    <3>. QED BY <1>3, <3>1, UntouchedOrder DEF UserDeletes, UserEdit
  <2>2. CASE ~sm.finalizer
    <3>1. rec'[r].pc \notin Bound
      BY <1>3, <2>2 DEF UserDeletes, UserEdit, Ordered, Present, Held
    <3>2. Always'
      BY <1>3, <2>2, ConstAssumption DEF UserDeletes, UserEdit, Always, Gone, NewMachine, Skew, Taken
    <3>. QED BY <3>1, <3>2, UnboundOrder
  <2>. QED BY <2>1, <2>2
<1>4. CASE Tick \/ ClockStepsBack
  BY <1>4, ClockOrder
<1>5. CASE NodeJoins \/ NodeLeaves \/ AgentRequestsReclaim
  <2>1. Live("machine") /\ node.up /\ node.reclaim => node'.up /\ node'.reclaim
    BY <1>5 DEF NodeJoins, NodeLeaves, AgentRequestsReclaim, Live
  <2>. QED BY <1>5, <2>1, UntouchedOrder
           DEF NodeJoins, NodeLeaves, AgentRequestsReclaim, SameObject
<1>6. CASE GarbageCollect
  <2>1. rec'[r].pc \notin Bound
    BY <1>6 DEF GarbageCollect, Ordered, Present
  <2>2. Always'
    BY <1>0, <1>6, AlwaysOrder DEF GarbageCollect, Always, Skew, Taken
  <2>. QED BY <2>1, <2>2, UnboundOrder
<1>7. CASE CapiFinishes
  <2>1. capi["machine"] # "live"
    BY <1>7 DEF CapiFinishes
  <2>2. /\ \A k \in Kinds : capi'[k] = "none"
        /\ UNCHANGED <<sm, rec, hist>>
    BY <1>7 DEF CapiFinishes
  <2>3. \A k \in Kinds : ~Live(k)'
    BY <2>2 DEF Live
  <2>4. (Present(r) /\ Copied(r) /\ Staged(r) /\ Skew /\ Taken)'
    BY <2>2 DEF Ordered, Present, Copied, Staged, Held, Obj, Waited, Skew, Taken
  <2>5. (Removed(r) /\ Requested(r) /\ Created(r) /\ Reported(r))'
    BY <2>1, <2>2, <2>3 DEF Ordered, Removed, Requested, Created, Reported, Kinds, Live
  <2>. QED BY <2>4, <2>5 DEF Ordered
<1>. QED BY <1>1, <1>2, <1>3, <1>4, <1>5, <1>6, <1>7 DEF Environment

\* A dequeued item.
LEMMA StartOrder ==
    ASSUME TypeOK, Alone, NEW r \in Replicas, Ordered(r),
           StartDeletion(r) \/ StartAddFinalizer(r) \/ StartKillSwitch(r) \/ StartInner(r)
    PROVE  Ordered(r)'
<1>0. RecType /\ Always
  BY AlwaysOrder DEF TypeOK, RecType
<1>1. /\ Cached(r) = sm /\ sm.exists /\ UNCHANGED <<sm, capi, node, hist>>
      /\ sm.deleting \/ sm.finalizer => Held /\ Held'
  BY DEF Alone, Cached, StartDeletion, StartAddFinalizer, StartKillSwitch, StartInner, Dequeue,
     apiVars, Held
<1>6. (Skew /\ Taken)'
  BY <1>0, <1>1 DEF Always, Skew, Taken
<1>. USE DEF Bound, Reading, Removing, Calls, CreateCalls, DeleteCalls
<1>. USE DEF Ordered, Present, Copied, Staged, Removed, Requested, Created, Reported
<1>2. CASE StartDeletion(r)
  <2>1. /\ rec'[r].pc = (IF sm.phase \in RunningPhases THEN "delete_machine"
                                                     ELSE "remove_finalizer")
        /\ rec'[r].flow = "delete" /\ Held'
    BY <1>0, <1>1, <1>2, GotoInFields DEF StartDeletion
  <2>. QED BY <1>0, <1>1, <1>6, <2>1 DEF Always, Live
<1>3. CASE StartAddFinalizer(r)
  <2>1. rec'[r].pc = "add_finalizer"
    BY <1>0, <1>3, GotoFields DEF StartAddFinalizer
  <2>2. Always'
    BY <1>0, <1>1 DEF Always, Live, Skew, Taken
  <2>. QED BY <2>1, <2>2, UnboundOrder
<1>4. CASE StartKillSwitch(r)
  <2>1. CASE sm.phase \in RunningPhases
    <3>1. rec'[r].pc = "delete_machine" /\ rec'[r].flow = "kill" /\ Held'
      BY <1>0, <1>1, <1>4, <2>1, GotoInFields DEF StartKillSwitch
    <3>. QED BY <1>0, <1>1, <1>6, <2>1, <3>1 DEF Always, Live
  <2>2. CASE sm.phase \notin RunningPhases
    <3>1. rec'[r].pc = "update_phase" /\ rec'[r].to = "Terminated" /\ Held'
      BY <1>0, <1>1, <1>4, <2>2, GotoPhaseFields DEF StartKillSwitch
    <3>. QED BY <1>0, <1>1, <1>6, <2>2, <3>1 DEF Always, Live, Moves
  <2>. QED BY <2>1, <2>2
<1>5. CASE StartInner(r)
  <2>1. rec' = [rec EXCEPT ![r] =
          [Idle EXCEPT !.pc = IF sm.nodeRef THEN "check_reclaim" ELSE "resolve", !.obj = sm]]
    BY <1>1, <1>5 DEF StartInner, BeginInner
  <2>2. /\ rec'[r].pc = (IF sm.nodeRef THEN "check_reclaim" ELSE "resolve")
        /\ rec'[r].obj = sm /\ Held'
    BY <1>0, <1>1, <1>5, <2>1 DEF StartInner, RecType, Idle
  <2>. QED BY <1>0, <1>1, <1>6, <2>2 DEF Always, Live, Obj
<1>. QED BY <1>2, <1>3, <1>4, <1>5

\* The calls before the phase handler.
LEMMA ReadOrder ==
    ASSUME TypeOK, NEW r \in Replicas, Ordered(r), Monotone,
           AddFinalizer(r) \/ CheckReclaim(r) \/ Resolve(r) \/ PersistSpot(r)
    PROVE  Ordered(r)'
<1>0. RecType /\ Always /\ sm \in ScheduledMachines
  BY AlwaysOrder DEF TypeOK, RecType
<1>1. UNCHANGED <<capi, node, hist>>
  BY DEF AddFinalizer, CheckReclaim, Resolve, PersistSpot, apiVars
<1>2. SameObject
  BY <1>0 DEF AddFinalizer, CheckReclaim, Resolve, PersistSpot, apiVars, SameObject,
     ScheduledMachines
<1>3. Always'
  BY <1>0, <1>1, <1>2 DEF Always, SameObject, Live, Skew, Taken
<1>. USE DEF Bound, Reading, Removing, Calls, CreateCalls, DeleteCalls
<1>4. CASE Return(r)
  BY <1>0, <1>3, <1>4, ReturnFields, UnboundOrder
<1>. USE DEF Ordered, Present, Copied, Staged, Removed, Requested, Created, Reported
<1>5. CASE CheckReclaim(r)
  <2>1. sm.nodeRef /\ At(r, "check_reclaim") /\ sm.exists /\ Held /\ Held'
    BY <1>5 DEF CheckReclaim, At, Monotone
  <2>2. CASE node.up /\ node.reclaim
    <3>1. rec'[r].pc = "emergency_phase" /\ rec'[r].flow = "emergency"
      BY <1>0, <1>5, <2>2, GotoInFields DEF CheckReclaim
    <3>. QED BY <1>1, <1>2, <1>3, <2>1, <2>2, <3>1 DEF SameObject, Always, Live
  <2>3. CASE ~(node.up /\ node.reclaim)
    <3>1. rec'[r].pc = "resolve" /\ rec'[r].obj = rec[r].obj
      BY <1>0, <1>5, <2>3, GotoFields DEF CheckReclaim
    <3>. QED BY <1>0, <1>1, <1>2, <1>3, <2>1, <2>3, <3>1 DEF SameObject, Always, Live, At, Obj
  <2>. QED BY <2>2, <2>3
<1>6. CASE Resolve(r)
  <2>1. /\ rec'[r].pc = "persist_spot" /\ rec'[r].obj.phase = rec[r].obj.phase
        /\ rec'[r].obj.reason = rec[r].obj.reason /\ rec'[r].obj.age = rec[r].obj.age
    BY <1>6, ResolveFields
  <2>2. At(r, "resolve") /\ sm.exists /\ Held'
    BY <1>6 DEF Resolve, At, Monotone
  <2>. QED BY <1>1, <1>2, <1>3, <2>1, <2>2 DEF SameObject, Always, Live, At, Obj
<1>7. CASE PersistSpot(r)
  <2>1. At(r, "persist_spot") /\ sm.exists /\ Held'
    BY <1>7 DEF PersistSpot, At, Monotone
  <2>2. rec'[r].pc = "dispatch" /\ rec'[r].obj = rec[r].obj
    BY <1>0, <1>7, <2>1, GotoFields DEF PersistSpot
  <2>. QED BY <1>1, <1>2, <1>3, <2>1, <2>2 DEF SameObject, Always, Live, At, Obj
<1>. QED BY <1>4, <1>5, <1>6, <1>7 DEF AddFinalizer

\* The phase handlers branch on a copy whose phase is the API server's.
LEMMA HandlerOrder ==
    ASSUME TypeOK, NEW r \in Replicas, Ordered(r),
           \/ HandlePendingPhase(r) \/ HandleActivePhase(r) \/ HandleShuttingDownPhase(r)
           \/ HandleInactivePhase(r) \/ HandleDisabledPhase(r)
           \/ HandleEmergencyRemovePhase(r) \/ HandleTerminatedPhase(r) \/ HandleErrorPhase(r)
    PROVE  Ordered(r)'
<1>0. RecType /\ Always
  BY AlwaysOrder DEF TypeOK, RecType
<1>1. At(r, "dispatch") /\ UNCHANGED <<sm, capi, node, hist>>
  BY DEF HandlePendingPhase, HandleActivePhase, HandleShuttingDownPhase, HandleInactivePhase,
     HandleDisabledPhase, HandleEmergencyRemovePhase, HandleTerminatedPhase, HandleErrorPhase,
     Dispatch, apiVars
<1>2. Always'
  BY <1>0, <1>1 DEF Always, Live, Skew, Taken
<1>. USE DEF Bound, Reading, Removing, Calls, CreateCalls, DeleteCalls
<1>3. CASE Return(r)
  BY <1>0, <1>2, <1>3, ReturnFields, UnboundOrder
<1>4. /\ sm.exists /\ Held /\ Held' /\ Obj(r).phase = sm.phase /\ Obj(r).reason = sm.reason
      /\ Obj(r).age = sm.age /\ (sm.phase = "EmergencyRemove" => ~Live("machine"))
  BY <1>1 DEF At, Ordered, Present, Copied, Requested, Held
<1>. USE DEF Ordered, Present, Copied, Staged, Removed, Requested, Created, Reported
<1>5. ASSUME NEW to, NEW why, GotoPhase(r, to, why), Moves(sm.phase, to), to # "Active",
             sm.phase \in RunningPhases => to \notin {"Inactive", "Terminated"}
      PROVE  Ordered(r)'
  <2>1. rec'[r].pc = "update_phase" /\ rec'[r].to = to
    BY <1>0, <1>5, GotoPhaseFields
  <2>. QED BY <1>1, <1>2, <1>4, <1>5, <2>1 DEF Always, Live
<1>6. CASE GotoIn(r, "none", "create_bootstrap") /\ sm.phase = "Pending"
  <2>1. rec'[r].pc = "create_bootstrap"
    BY <1>0, <1>6, GotoInFields
  <2>. QED BY <1>1, <1>2, <1>4, <1>6, <2>1 DEF Always, Live
<1>7. CASE GotoIn(r, "none", "enrich")
  <2>1. rec'[r].pc = "enrich"
    BY <1>0, <1>7, GotoInFields
  <2>. QED BY <1>1, <1>2, <1>4, <2>1 DEF Always, Live
<1>8. CASE GotoIn(r, "shutdown", "drain") /\ sm.phase = "ShuttingDown" /\ GracePeriodElapsed(Obj(r))
  <2>1. rec'[r].pc = "drain" /\ rec'[r].flow = "shutdown"
    BY <1>0, <1>8, GotoInFields
  <2>2. Waited'
    BY <1>0, <1>1, <1>4, <1>8 DEF GracePeriodElapsed, Waited, Always, Skew
  <2>. QED BY <1>1, <1>2, <1>4, <1>8, <2>1, <2>2 DEF Always, Live
<1>. USE DEF Dispatch, Moves, RunningPhases
<1>9. CASE HandlePendingPhase(r)
  BY <1>4, <1>5, <1>6, <1>9 DEF HandlePendingPhase
<1>10. CASE HandleActivePhase(r)
  BY <1>4, <1>5, <1>7, <1>10 DEF HandleActivePhase
<1>11. CASE HandleShuttingDownPhase(r)
  BY <1>3, <1>4, <1>8, <1>11 DEF HandleShuttingDownPhase
<1>12. CASE HandleInactivePhase(r) \/ HandleDisabledPhase(r) \/ HandleEmergencyRemovePhase(r)
  BY <1>3, <1>4, <1>5, <1>12
     DEF HandleInactivePhase, HandleDisabledPhase, HandleEmergencyRemovePhase
<1>13. CASE HandleTerminatedPhase(r) \/ HandleErrorPhase(r)
  BY <1>3, <1>13 DEF HandleTerminatedPhase, HandleErrorPhase
<1>. QED BY <1>9, <1>10, <1>11, <1>12, <1>13

\* Enrichment and the creation.
LEMMA CreateOrder ==
    ASSUME TypeOK, NEW r \in Replicas, Ordered(r), Monotone,
           Enrich(r) \/ CreateBootstrap(r) \/ CreateInfra(r) \/ CreateMachine(r)
    PROVE  Ordered(r)'
<1>0. /\ RecType /\ Always /\ sm \in ScheduledMachines /\ hist \in Histories
      /\ capi \in [Kinds -> {"none", "live", "terminating"}]
  BY AlwaysOrder DEF TypeOK, RecType
<1>. USE DEF Bound, Reading, Removing, Calls, CreateCalls, DeleteCalls, Kinds
<1>1. CASE Enrich(r)
  <2>1. Always'
    BY <1>0, <1>1 DEF Enrich, Always, Live, ScheduledMachines, Skew, Taken
  <2>. QED BY <1>0, <1>1, <2>1, ReturnFields, UnboundOrder DEF Enrich
<1>. USE DEF Ordered, Present, Copied, Staged, Removed, Requested, Created, Reported
<1>2. ASSUME rec[r].pc \in CreateCalls, UNCHANGED <<sm, node>>
      PROVE  sm.exists /\ Held' /\ sm.phase = "Pending" /\ sm' = sm /\ Taken'
  BY <1>0, <1>2 DEF Held, Taken
<1>3. CASE CreateBootstrap(r)
  <2>1. rec'[r].pc = "create_infra" /\ Skew'
    BY <1>0, <1>3, GotoFields DEF CreateBootstrap, Always, Skew
  <2>. QED BY <1>2, <1>3, <2>1 DEF CreateBootstrap, At
<1>4. CASE CreateInfra(r)
  <2>1. rec'[r].pc = "create_machine" /\ Skew'
    BY <1>0, <1>4, GotoFields DEF CreateInfra, Always, Skew
  <2>. QED BY <1>2, <1>4, <2>1 DEF CreateInfra, At
<1>5. CASE CreateMachine(r)
  <2>1. rec'[r].pc = "update_phase" /\ rec'[r].to \in {"Active", "Error"}
    BY <1>0, <1>5, GotoPhaseFields DEF CreateMachine
  <2>2. hist'.skewed = hist.skewed /\ (hist'.adopted <=> capi["machine"] = "terminating")
    BY <1>0, <1>5 DEF CreateMachine, Histories
  <2>3. Live("machine")' \/ hist'.adopted
    BY <1>0, <1>5, <2>2 DEF CreateMachine, CreateEffect, Live
  <2>4. Skew' /\ sm' = sm
    BY <1>0, <1>5, <2>2 DEF CreateMachine, Always, Skew
  <2>. QED BY <1>2, <1>5, <2>1, <2>3, <2>4 DEF CreateMachine, At, Moves, RunningPhases
<1>. QED BY <1>1, <1>3, <1>4, <1>5

\* The removal, the finalizer and what follows a removal.
LEMMA RemoveOrder ==
    ASSUME TypeOK, NEW r \in Replicas, Ordered(r), Monotone, FinalizerHeld,
           \/ Drain(r) \/ DeleteMachine(r) \/ DeleteBootstrap(r) \/ DeleteInfra(r)
           \/ RemoveFinalizer(r)
    PROVE  Ordered(r)'
<1>0. /\ RecType /\ Always /\ capi \in [Kinds -> {"none", "live", "terminating"}]
      /\ hist \in Histories
  BY AlwaysOrder DEF TypeOK, RecType
<1>. USE DEF Bound, Reading, Removing, Calls, CreateCalls, DeleteCalls, Kinds
<1>1. CASE RemoveFinalizer(r)
  <2>1. sm.deleting
    BY <1>1 DEF RemoveFinalizer, At, FinalizerHeld, RecHeld
  <2>2. Always'
    BY <1>0, <1>1, <2>1, ConstAssumption
       DEF RemoveFinalizer, Always, Gone, NewMachine, Live, Skew, Taken
  <2>. QED BY <1>0, <1>1, <2>2, ReturnFields, UnboundOrder DEF RemoveFinalizer
<1>2. ASSUME ~RemoveFinalizer(r)
      PROVE  /\ rec[r].pc \in Removing /\ sm' = sm /\ node' = node /\ sm.exists /\ Held'
             /\ hist'.forced = hist.forced /\ hist'.skewed = hist.skewed
             /\ hist'.adopted = hist.adopted
  BY <1>0, <1>2 DEF Drain, DeleteMachine, DeleteBootstrap, DeleteInfra, At, apiVars, Ordered,
     Present, Held, Histories
<1>3. ASSUME NEW k \in Kinds, DeleteEffect(k)
      PROVE  ~Live(k)' /\ \A j \in Kinds : Live(j)' => Live(j)
  BY <1>0, <1>3 DEF DeleteEffect, Live
<1>8. ASSUME ~RemoveFinalizer(r)
      PROVE  (Skew /\ Taken)' /\ (Waited => Waited')
  BY <1>0, <1>2, <1>8 DEF Always, Skew, Taken, Waited
<1>. USE DEF Ordered, Present, Copied, Staged, Removed, Requested, Created, Reported
<1>4. CASE Drain(r)
  <2>1. /\ rec'[r].pc = "delete_machine" /\ rec'[r].flow = rec[r].flow /\ capi' = capi
        /\ ~RemoveFinalizer(r)
    BY <1>0, <1>4, GotoFields DEF Drain, apiVars, RemoveFinalizer, At
  <2>. QED BY <1>2, <1>8, <1>0, <2>1 DEF Always, Live
<1>5. CASE DeleteMachine(r)
  <2>1. rec'[r].pc = "delete_bootstrap" /\ rec'[r].flow = rec[r].flow /\ ~RemoveFinalizer(r)
    BY <1>0, <1>5, GotoFields DEF DeleteMachine, RemoveFinalizer, At
  <2>. QED BY <1>2, <1>8, <1>3, <1>5, <2>1 DEF DeleteMachine
<1>6. CASE DeleteBootstrap(r)
  <2>1. rec'[r].pc = "delete_infra" /\ rec'[r].flow = rec[r].flow /\ ~RemoveFinalizer(r)
    BY <1>0, <1>6, GotoFields DEF DeleteBootstrap, RemoveFinalizer, At
  <2>2. ~Live("machine")
    BY <1>6 DEF DeleteBootstrap, At
  <2>. QED BY <1>2, <1>8, <1>3, <1>6, <2>1, <2>2 DEF DeleteBootstrap
<1>7. CASE DeleteInfra(r)
  <2>1. ~RemoveFinalizer(r) /\ \A k \in Kinds : ~Live(k)'
    BY <1>3, <1>7 DEF DeleteInfra, RemoveFinalizer, At
  <2>2. CASE Goto(r, "remove_finalizer")
    <3>1. rec'[r].pc = "remove_finalizer"
      BY <1>0, <2>2, GotoFields
    <3>. QED BY <1>2, <1>8, <2>1, <3>1
  <2>3. CASE Goto(r, "disable_schedule") /\ rec[r].flow = "emergency"
    <3>1. rec'[r].pc = "disable_schedule"
      BY <1>0, <2>3, GotoFields
    <3>. QED BY <1>2, <1>8, <2>1, <2>3, <3>1
  <2>4. CASE rec[r].flow = "kill" /\ GotoPhase(r, "Terminated", "Other")
    <3>1. rec'[r].pc = "update_phase" /\ rec'[r].to = "Terminated"
      BY <1>0, <2>4, GotoPhaseFields
    <3>. QED BY <1>2, <1>8, <2>1, <3>1 DEF Moves
  <2>5. CASE rec[r].flow = "shutdown" /\ GotoPhase(r, "Inactive", "Other")
    <3>1. rec'[r].pc = "update_phase" /\ rec'[r].to = "Inactive"
      BY <1>0, <2>5, GotoPhaseFields
    <3>. QED BY <1>2, <1>8, <2>1, <2>5, <3>1 DEF Moves
  <2>. QED BY <1>7, <2>2, <2>3, <2>4, <2>5 DEF DeleteInfra, AfterRemoval
<1>. QED BY <1>1, <1>4, <1>5, <1>6, <1>7

\* A status write changes the phase, and nothing else the order is about.
LEMMA PhasePatchFields ==
    ASSUME sm \in ScheduledMachines, sm.exists, NEW phase, NEW reason, PhasePatch(phase, reason)
    PROVE  /\ sm'.age \in Nat
           /\ sm'.exists /\ sm'.phase = phase /\ sm'.nodeRef = sm.nodeRef
           /\ sm'.enabled = sm.enabled /\ sm'.killSwitch = sm.killSwitch
           /\ sm'.deleting = sm.deleting /\ sm'.finalizer = sm.finalizer
<1>. DEFINE age == IF reason = "GracePeriod" THEN 0 ELSE Grace
<1>1. sm' = [sm EXCEPT !.phase = phase, !.reason = reason, !.age = age]
  BY DEF PhasePatch
<1>2. age \in Nat
  BY ConstAssumption
<1>. HIDE DEF age
<1>. QED BY <1>1, <1>2 DEF ScheduledMachines

\* It keeps the history, but for what it ends.
LEMMA PhasePatchHistory ==
    ASSUME hist \in Histories, sm.exists, NEW phase, NEW reason, PhasePatch(phase, reason)
    PROVE  /\ hist'.ejected = hist.ejected /\ hist'.forced = hist.forced
           /\ hist'.adopted => hist.adopted /\ phase = "Active"
           /\ hist.adopted /\ phase = "Active" => hist'.adopted
  BY DEF PhasePatch, Histories

\* The status writes and the rest of the emergency removal.
LEMMA PhaseOrder ==
    ASSUME TypeOK, NEW r \in Replicas, Ordered(r), Monotone,
           \/ UpdatePhase(r) \/ EmergencyPhase(r) \/ DisableSchedule(r) \/ ClearAnnotations(r)
    PROVE  Ordered(r)'
<1>0. /\ RecType /\ Always /\ sm \in ScheduledMachines /\ hist \in Histories
      /\ node \in [up : BOOLEAN, reclaim : BOOLEAN]
  BY AlwaysOrder DEF TypeOK, RecType
<1>. USE DEF Bound, Reading, Removing, Calls, CreateCalls, DeleteCalls, Kinds
<1>1. sm.exists /\ Held /\ Held' /\ capi' = capi
  BY DEF UpdatePhase, EmergencyPhase, DisableSchedule, ClearAnnotations, At, Ordered, Present,
     Monotone
<1>2. CASE UpdatePhase(r)
  <2>1. Moves(sm.phase, rec[r].to)
    BY <1>2 DEF UpdatePhase, At, Ordered, Reported
  <2>2. sm'.phase = rec[r].to /\ sm'.phase # "EmergencyRemove"
    BY <1>0, <1>1, <1>2, <2>1, PhasePatchFields DEF UpdatePhase, Moves
  <2>3. sm'.age \in Nat /\ (hist'.adopted => rec[r].to = "Active")
    BY <1>0, <1>1, <1>2, PhasePatchFields, PhasePatchHistory DEF UpdatePhase
  <2>4. Always'
    BY <1>0, <1>1, <2>2, <2>3 DEF Always, Skew, Taken
  <2>. QED BY <1>0, <1>2, <2>4, ReturnFields, UnboundOrder DEF UpdatePhase
<1>. USE DEF Ordered, Present, Copied, Staged, Removed, Requested, Created, Reported
<1>3. CASE EmergencyPhase(r)
  <2>1. /\ rec'[r].pc = "drain" /\ rec'[r].flow = rec[r].flow
        /\ rec[r].pc = "emergency_phase" /\ node' = node
    BY <1>0, <1>1, <1>3, GotoFields DEF EmergencyPhase, At
  <2>2. sm'.exists /\ sm'.phase = "EmergencyRemove" /\ sm'.nodeRef = sm.nodeRef
    BY <1>0, <1>1, <1>3, PhasePatchFields DEF EmergencyPhase
  <2>3. sm'.age \in Nat /\ ~hist'.adopted
    BY <1>0, <1>1, <1>3, PhasePatchFields, PhasePatchHistory DEF EmergencyPhase
  <2>4. (Skew /\ Taken)'
    BY <2>3 DEF Skew, Taken
  <2>. QED BY <1>0, <1>1, <2>1, <2>2, <2>4 DEF Live, Always
<1>4. CASE DisableSchedule(r)
  <2>1. rec'[r].pc = "clear_annotations" /\ rec[r].pc = "disable_schedule" /\ node' = node
    BY <1>0, <1>1, <1>4, GotoFields DEF DisableSchedule, At
  <2>2. sm'.exists /\ sm'.phase = sm.phase
    BY <1>0, <1>1, <1>4 DEF DisableSchedule, ScheduledMachines
  <2>3. (Skew /\ Taken)' /\ hist' = hist
    BY <1>0, <1>1, <1>4 DEF DisableSchedule, ScheduledMachines, Always, Skew, Taken
  <2>. QED BY <1>0, <1>1, <2>1, <2>2, <2>3 DEF Live, Always
<1>5. CASE ClearAnnotations(r)
  <2>1. /\ rec'[r].pc = "update_phase" /\ rec'[r].to = "Disabled"
        /\ rec[r].pc = "clear_annotations" /\ sm' = sm
    BY <1>0, <1>5, GotoPhaseFields DEF ClearAnnotations, At
  <2>2. (Skew /\ Taken)' /\ hist' = hist
    BY <1>0, <1>5 DEF ClearAnnotations, Always, Skew, Taken
  <2>. QED BY <1>0, <1>1, <2>1, <2>2 DEF Live, Always, Moves, RunningPhases
<1>. QED BY <1>2, <1>3, <1>4, <1>5

\* A fault.
LEMMA FaultOrder ==
    ASSUME TypeOK, NEW r \in Replicas, Ordered(r),
           CallFails(r) \/ CleanupTimesOut(r) \/ Crash(r)
    PROVE  Ordered(r)'
<1>0. /\ RecType /\ Always /\ hist \in Histories
  BY AlwaysOrder DEF TypeOK, RecType
<1>1. UNCHANGED <<sm, capi, node>>
  BY DEF CallFails, CleanupTimesOut, Crash, apiVars
<1>7. hist'.skewed = hist.skewed /\ hist'.adopted = hist.adopted
  BY <1>0 DEF CallFails, CleanupTimesOut, Crash, CutOff, Histories
<1>2. Always'
  BY <1>0, <1>1, <1>7 DEF Always, Live, Skew, Taken
<1>. USE DEF Bound, Reading, Removing, Calls, CreateCalls, DeleteCalls
<1>3. CASE Return(r)
  BY <1>0, <1>2, <1>3, ReturnFields, UnboundOrder
<1>. USE DEF Ordered, Present, Copied, Staged, Removed, Requested, Created, Reported
<1>4. CASE ErrorPhaseCall(r) /\ GotoPhase(r, "Error", "Other")
  <2>1. rec'[r].pc = "update_phase" /\ rec'[r].to = "Error"
    BY <1>0, <1>4, GotoPhaseFields
  <2>2. sm.exists /\ Held' /\ sm.phase \in {"Pending", "ShuttingDown"}
    BY <1>1, <1>4 DEF ErrorPhaseCall, Held
  <2>. QED BY <1>1, <1>2, <2>1, <2>2 DEF Always, Moves
<1>5. CASE At(r, "clear_annotations") /\ GotoPhase(r, "Disabled", "Other")
  <2>1. rec'[r].pc = "update_phase" /\ rec'[r].to = "Disabled"
    BY <1>0, <1>5, GotoPhaseFields
  <2>2. sm.exists /\ Held' /\ sm.phase = "EmergencyRemove" /\ ~Live("machine")
    BY <1>1, <1>5 DEF At, Held
  <2>. QED BY <1>1, <1>2, <2>1, <2>2 DEF Always, Moves, Live, RunningPhases
<1>6. CASE /\ CleanupTimesOut(r) /\ Goto(r, "remove_finalizer")
           /\ hist' = [hist EXCEPT !.forced = TRUE]
  <2>1. rec'[r].pc = "remove_finalizer" /\ hist'.forced
    BY <1>0, <1>6, GotoFields
  <2>2. sm.exists /\ Held'
    BY <1>1, <1>6 DEF CleanupTimesOut, Held
  <2>. QED BY <1>1, <1>2, <2>1, <2>2 DEF Always
<1>. QED BY <1>3, <1>4, <1>5, <1>6 DEF CallFails, CleanupTimesOut, Crash

LEMMA OrderStep ==
    ASSUME Alone, TypeOK, FinalizerHeld, Order, [Next]_vars
    PROVE  Order'
<1>. SUFFICES ASSUME NEW r \in Replicas PROVE Ordered(r)'
  BY DEF Order
<1>0. Ordered(r) /\ Monotone
  BY HeldStays DEF Order
<1>1. CASE Environment \/ (\E q \in Replicas : WatchDeliver(q)) \/ UNCHANGED vars
  BY <1>0, <1>1, EnvironmentOrder
<1>2. CASE ReconcileStep(r)
  BY <1>0, <1>2, StartOrder, ReadOrder, HandlerOrder, CreateOrder, RemoveOrder, PhaseOrder
     DEF ReconcileStep
<1>3. CASE CallFails(r) \/ CleanupTimesOut(r) \/ Crash(r)
  BY <1>0, <1>3, FaultOrder
<1>. QED BY <1>1, <1>2, <1>3 DEF Next, Replica, Alone, Single

LEMMA OrderInit ==
    ASSUME Init PROVE Order
<1>. SUFFICES ASSUME NEW r \in Replicas PROVE Ordered(r)
  BY DEF Order
<1>1. /\ rec[r].pc = "idle" /\ sm = NewMachine /\ \A k \in Kinds : capi[k] = "none"
      /\ ~hist.adopted
  BY DEF Init, Idle
<1>2. Skew /\ Taken
  BY <1>1, ConstAssumption DEF Skew, Taken, NewMachine
<1>. QED BY <1>1, <1>2 DEF Ordered, Present, Copied, Staged, Removed, Requested, Created, Reported,
            Live, Bound, Reading, Removing, Calls, CreateCalls, DeleteCalls, Kinds

\* For one replica on a fresh cache, whatever faults it meets and whatever the user and
\* the provider do: each call is made in its phase, and each phase is written after what
\* it stands for.
THEOREM OrderHolds ==
    ASSUME Alone PROVE Spec => []Order
<1>1. Init => Order
  BY OrderInit
<1>2. TypeOK /\ FinalizerHeld /\ Order /\ [Next]_vars => Order'
  BY OrderStep
<1>. QED BY <1>1, <1>2, TypeCorrect, FinalizerHeldHolds, PTL DEF Spec

\* The steps that change the CAPI objects, by who makes them.
LEMMA CapiChanges ==
    ASSUME [Next]_vars
    PROVE  \/ capi' = capi
           \/ \E r \in Replicas : \/ CreateBootstrap(r) \/ CreateInfra(r) \/ CreateMachine(r)
                                  \/ DeleteMachine(r) \/ DeleteBootstrap(r) \/ DeleteInfra(r)
           \/ CapiFinishes \/ GarbageCollect
<1>1. ASSUME NEW r \in Replicas, ReconcileStep(r)
      PROVE  \/ capi' = capi
             \/ CreateBootstrap(r) \/ CreateInfra(r) \/ CreateMachine(r)
             \/ DeleteMachine(r) \/ DeleteBootstrap(r) \/ DeleteInfra(r)
  BY <1>1 DEF ReconcileStep, StartDeletion, StartAddFinalizer, StartKillSwitch, StartInner,
     Dequeue, AddFinalizer, RemoveFinalizer, CheckReclaim, Resolve, PersistSpot,
     HandlePendingPhase, HandleActivePhase, HandleShuttingDownPhase, HandleInactivePhase,
     HandleDisabledPhase, HandleEmergencyRemovePhase, HandleTerminatedPhase, HandleErrorPhase,
     Dispatch, Enrich, Drain, UpdatePhase, EmergencyPhase, DisableSchedule,
     ClearAnnotations, apiVars
<1>2. ASSUME NEW r \in Replicas,
             CallFails(r) \/ CleanupTimesOut(r) \/ Crash(r) \/ WatchDeliver(r)
      PROVE  capi' = capi
  BY <1>2 DEF CallFails, CleanupTimesOut, Crash, WatchDeliver, apiVars
<1>3. ASSUME Environment \/ UNCHANGED vars
      PROVE  capi' = capi \/ CapiFinishes \/ GarbageCollect
  BY <1>3 DEF Environment, LeaseMoves, UserEnables, UserDisables, UserDeletes,
     UserSetsKillSwitch, UserEdit, ProviderFlips, Tick, ClockStepsBack, ClockMoves, NodeJoins,
     NodeLeaves,
     AgentRequestsReclaim, apiVars, vars
<1>. QED BY <1>1, <1>2, <1>3 DEF Next, Replica

\* The steps that change the phase or remove the object.
LEMMA PhaseChanges ==
    ASSUME TypeOK, [Next]_vars
    PROVE  \/ sm'.exists = sm.exists /\ sm'.phase = sm.phase
           \/ \E r \in Replicas : UpdatePhase(r) \/ EmergencyPhase(r) \/ RemoveFinalizer(r)
           \/ UserDeletes
<1>0. sm \in ScheduledMachines
  BY DEF TypeOK
<1>1. ASSUME NEW r \in Replicas, ReconcileStep(r),
             ~UpdatePhase(r), ~EmergencyPhase(r), ~RemoveFinalizer(r)
      PROVE  sm'.exists = sm.exists /\ sm'.phase = sm.phase
  <2>1. CASE AddFinalizer(r) \/ PersistSpot(r) \/ Enrich(r) \/ DisableSchedule(r)
    BY <1>0, <2>1 DEF AddFinalizer, PersistSpot, Enrich, DisableSchedule, ScheduledMachines
  <2>. QED BY <1>1, <2>1, ObjectUntouched DEF ReconcileStep
<1>2. ASSUME NEW r \in Replicas,
             CallFails(r) \/ CleanupTimesOut(r) \/ Crash(r) \/ WatchDeliver(r)
      PROVE  sm' = sm
  BY <1>2 DEF CallFails, CleanupTimesOut, Crash, WatchDeliver, apiVars
<1>3. ASSUME Tick \/ ClockStepsBack
      PROVE  sm'.exists = sm.exists /\ sm'.phase = sm.phase
  BY <1>0, <1>3, ClockStep, ShiftedFields DEF ClockMoves
<1>4. ASSUME Environment \/ UNCHANGED vars, ~UserDeletes
      PROVE  sm'.exists = sm.exists /\ sm'.phase = sm.phase
  BY <1>0, <1>3, <1>4 DEF Environment, LeaseMoves, UserEnables, UserDisables,
     UserSetsKillSwitch, UserEdit, ProviderFlips, NodeJoins, NodeLeaves,
     AgentRequestsReclaim, GarbageCollect, CapiFinishes, apiVars, vars, ScheduledMachines
<1>. QED BY <1>1, <1>2, <1>4 DEF Next, Replica

\* The steps that change the history, and the parts of it they leave alone.
LEMMA HistChanges ==
    ASSUME [Next]_vars
    PROVE  \/ hist' = hist
           \/ \E r \in Replicas : \/ CreateMachine(r) \/ DeleteMachine(r)
                                  \/ UpdatePhase(r) \/ EmergencyPhase(r)
                                  \/ CallFails(r) \/ CleanupTimesOut(r) \/ Crash(r)
           \/ UserEnables \/ ClockStepsBack
<1>1. ASSUME NEW r \in Replicas, ReconcileStep(r)
      PROVE  \/ hist' = hist
             \/ CreateMachine(r) \/ DeleteMachine(r) \/ UpdatePhase(r) \/ EmergencyPhase(r)
  BY <1>1 DEF ReconcileStep, StartDeletion, StartAddFinalizer, StartKillSwitch, StartInner,
     Dequeue, AddFinalizer, RemoveFinalizer, CheckReclaim, Resolve, PersistSpot,
     HandlePendingPhase, HandleActivePhase, HandleShuttingDownPhase, HandleInactivePhase,
     HandleDisabledPhase, HandleEmergencyRemovePhase, HandleTerminatedPhase, HandleErrorPhase,
     Dispatch, Enrich, CreateBootstrap, CreateInfra, Drain, DeleteBootstrap, DeleteInfra,
     DisableSchedule, ClearAnnotations
<1>2. ASSUME NEW r \in Replicas, WatchDeliver(r) PROVE hist' = hist
  BY <1>2 DEF WatchDeliver
<1>3. ASSUME Environment \/ UNCHANGED vars
      PROVE  hist' = hist \/ UserEnables \/ ClockStepsBack
  BY <1>3 DEF Environment, LeaseMoves, UserDisables, UserDeletes, UserSetsKillSwitch,
     ProviderFlips, Tick, NodeJoins, NodeLeaves, AgentRequestsReclaim, GarbageCollect,
     CapiFinishes, vars
<1>. QED BY <1>1, <1>2, <1>3 DEF Next, Replica

LEMMA HistFields ==
    ASSUME TypeOK, Order, [Next]_vars
    PROVE  /\ \/ hist'.ejected = hist.ejected
              \/ UserEnables \/ \E r \in Replicas : DeleteMachine(r)
           /\ \/ hist'.adopted = hist.adopted
              \/ \E r \in Replicas : CreateMachine(r) \/ UpdatePhase(r) \/ EmergencyPhase(r)
           /\ \/ hist.cut => hist'.cut
              \/ \E r \in Replicas : UpdatePhase(r) \/ EmergencyPhase(r)
<1>0. hist \in Histories
  BY DEF TypeOK
<1>1. ASSUME NEW r \in Replicas, UpdatePhase(r) \/ EmergencyPhase(r)
      PROVE  hist'.ejected = hist.ejected
  BY <1>0, <1>1, PhasePatchHistory
     DEF UpdatePhase, EmergencyPhase, At, Order, Ordered, Present, Bound, Calls
<1>2. ASSUME NEW r \in Replicas, CreateMachine(r)
      PROVE  hist'.ejected = hist.ejected /\ hist'.cut = hist.cut
  BY <1>0, <1>2 DEF CreateMachine, Histories
<1>3. ASSUME NEW r \in Replicas, DeleteMachine(r)
      PROVE  hist'.adopted = hist.adopted /\ hist'.cut = hist.cut
  BY <1>0, <1>3 DEF DeleteMachine, Histories
<1>4. ASSUME NEW r \in Replicas, CallFails(r) \/ CleanupTimesOut(r) \/ Crash(r)
      PROVE  /\ hist'.ejected = hist.ejected /\ hist'.adopted = hist.adopted
             /\ hist.cut => hist'.cut
  BY <1>0, <1>4 DEF CallFails, CleanupTimesOut, Crash, CutOff, Histories
<1>5. UserEnables => hist'.adopted = hist.adopted /\ hist'.cut = hist.cut
  BY <1>0 DEF UserEnables, Histories
<1>6. ClockStepsBack =>
        hist'.ejected = hist.ejected /\ hist'.adopted = hist.adopted /\ hist'.cut = hist.cut
  BY <1>0 DEF ClockStepsBack, Histories
<1>. QED BY <1>1, <1>2, <1>3, <1>4, <1>5, <1>6, HistChanges

\* handle_shutting_down_phase: a Machine is deleted at the end of its schedule only after
\* the grace period that is on record, for any grace period, unless the clock was set back
\* since; for one replica on a fresh cache.
THEOREM GraceRespectedHolds ==
    ASSUME Alone PROVE Spec => GraceRespected
<1>1. TypeOK /\ Order =>
        \A r \in Replicas : (/\ At(r, "delete_machine") /\ rec[r].flow = "shutdown"
                             /\ sm.reason = "GracePeriod") => (sm.age >= Grace \/ hist.skewed)
  BY DEF Order, Ordered, Staged, At, Removing, DeleteCalls, Waited
<1>2. TypeOK /\ Order /\ [Next]_vars =>
        [\A r \in Replicas :
         (/\ At(r, "delete_machine") /\ rec[r].flow = "shutdown"
          /\ capi["machine"] = "live" /\ capi'["machine"] # "live"
          /\ sm.phase = "ShuttingDown" /\ sm.reason = "GracePeriod")
         => (sm.age >= Grace \/ hist.skewed)]_vars
  BY <1>1
<1>. QED BY <1>2, TypeCorrect, OrderHolds, PTL DEF Spec, GraceRespected

\* handle_deletion: the finalizer of a running machine goes only after its three CAPI
\* objects, unless a cleanup timeout forced it.
THEOREM CleanupBeforeFinalizerHolds ==
    ASSUME Alone PROVE Spec => CleanupBeforeFinalizer
<1>. DEFINE P == (sm.exists /\ ~sm'.exists /\ sm.phase \in RunningPhases /\ ~hist.forced)
                   => \A k \in Kinds : capi[k] # "live"
<1>1. TypeOK /\ FinalizerHeld /\ Order /\ [Next]_vars => P
  <2>. SUFFICES ASSUME TypeOK, FinalizerHeld, Order, [Next]_vars PROVE P
    OBVIOUS
  <2>0. sm \in ScheduledMachines
    BY DEF TypeOK
  <2>1. CASE UserDeletes
    <3>1. sm.finalizer => sm'.exists
      BY <2>0, <2>1 DEF UserDeletes, UserEdit, ScheduledMachines
    <3>. QED BY <2>1, <3>1 DEF UserDeletes, UserEdit, FinalizerHeld, Held
  <2>2. ASSUME NEW r \in Replicas, RemoveFinalizer(r) PROVE P
    BY <2>2 DEF RemoveFinalizer, At, Order, Ordered, Removed, Live
  <2>3. ASSUME NEW r \in Replicas, UpdatePhase(r) \/ EmergencyPhase(r) PROVE P
    BY <2>0, <2>3, PhasePatchFields DEF UpdatePhase, EmergencyPhase
  <2>. QED BY <2>1, <2>2, <2>3, PhaseChanges
<1>2. TypeOK /\ FinalizerHeld /\ Order /\ [Next]_vars => [P]_vars
  BY <1>1
<1>. QED BY <1>2, TypeCorrect, FinalizerHeldHolds, OrderHolds, PTL DEF Spec, CleanupBeforeFinalizer

\* The steps that change the Node.
LEMMA NodeChanges ==
    ASSUME [Next]_vars
    PROVE  \/ node' = node
           \/ NodeJoins \/ NodeLeaves \/ AgentRequestsReclaim \/ CapiFinishes
           \/ \E r \in Replicas : ClearAnnotations(r)
<1>. USE DEF apiVars, envVars
<1>1. ASSUME NEW r \in Replicas, ReconcileStep(r), ~ClearAnnotations(r) PROVE node' = node
  BY <1>1 DEF ReconcileStep, StartDeletion, StartAddFinalizer, StartKillSwitch, StartInner,
     Dequeue, AddFinalizer, RemoveFinalizer, CheckReclaim, Resolve, PersistSpot,
     HandlePendingPhase, HandleActivePhase, HandleShuttingDownPhase, HandleInactivePhase,
     HandleDisabledPhase, HandleEmergencyRemovePhase, HandleTerminatedPhase, HandleErrorPhase,
     Dispatch, Enrich, CreateBootstrap, CreateInfra, CreateMachine, Drain, DeleteMachine,
     DeleteBootstrap, DeleteInfra, UpdatePhase, EmergencyPhase, DisableSchedule
<1>2. ASSUME NEW r \in Replicas,
             CallFails(r) \/ CleanupTimesOut(r) \/ Crash(r) \/ WatchDeliver(r)
      PROVE  node' = node
  BY <1>2 DEF CallFails, CleanupTimesOut, Crash, WatchDeliver
<1>3. ASSUME LeaseMoves \/ UserEnables \/ UserDisables \/ UserDeletes
             \/ (\E on \in BOOLEAN : UserSetsKillSwitch(on))
             \/ ProviderFlips \/ Tick \/ ClockStepsBack \/ GarbageCollect \/ UNCHANGED vars
      PROVE  node' = node
  BY <1>3 DEF LeaseMoves, UserEnables, UserDisables, UserDeletes, UserSetsKillSwitch, UserEdit,
     ProviderFlips, Tick, ClockStepsBack, ClockMoves, GarbageCollect, vars
<1>. QED BY <1>1, <1>2, <1>3 DEF Next, Environment, Replica

\* What others do leaves a reconcile where it is.
LEMMA OthersRec ==
    ASSUME TypeOK, NEW r \in Replicas,
           Environment \/ UNCHANGED vars \/ \E q \in Replicas : WatchDeliver(q)
    PROVE  /\ rec'[r].pc = rec[r].pc /\ rec'[r].flow = rec[r].flow /\ rec'[r].to = rec[r].to
           /\ rec'[r].obj.enabled = rec[r].obj.enabled
<1>0. rec \in [Replicas -> Reconciles] /\ rec[r].obj \in ScheduledMachines
  BY DEF TypeOK, Reconciles
<1>1. CASE Tick \/ ClockStepsBack
  <2>1. PICK d \in Int : rec'[r] = [rec[r] EXCEPT !.obj = Shifted(rec[r].obj, d)]
    BY <1>1, ClockStep DEF ClockMoves
  <2>. QED BY <1>0, <2>1, ShiftedFields DEF Reconciles
<1>2. CASE rec' = rec
  BY <1>2
<1>. QED BY <1>1, <1>2 DEF Environment, LeaseMoves, UserEnables, UserDisables, UserDeletes,
         UserSetsKillSwitch, UserEdit, ProviderFlips, NodeJoins, NodeLeaves,
         AgentRequestsReclaim, GarbageCollect, CapiFinishes, WatchDeliver, vars

\* The request and what the operator has done about it, for one replica.
Withdrawal ==
    /\ node.reclaim => node.up
    /\ \A r \in Replicas : rec[r].pc \in Bound => Held
    /\ \A r \in Replicas : At(r, "clear_annotations") => (sm.enabled => ~hist.ejected)

LEMMA WithdrawalStep ==
    ASSUME Single, TypeOK, FinalizerHeld, Withdrawal, [Next]_vars
    PROVE  Withdrawal'
<1>0. /\ RecType /\ sm \in ScheduledMachines /\ node \in [up : BOOLEAN, reclaim : BOOLEAN]
      /\ hist \in Histories
  BY DEF TypeOK, RecType
<1>. USE DEF apiVars, envVars
<1>1. (node.reclaim => node.up)'
  BY <1>0, NodeChanges DEF Withdrawal, NodeJoins, NodeLeaves, AgentRequestsReclaim, CapiFinishes,
     ClearAnnotations
<1>2. ASSUME NEW r \in Replicas
      PROVE  (At(r, "clear_annotations") => (sm.enabled => ~hist.ejected))'
  <2>1. CASE ReconcileStep(r)
    <3>1. CASE DisableSchedule(r)
      <4>1. rec'[r].pc = "clear_annotations" => sm' = [sm EXCEPT !.enabled = FALSE]
        BY <1>0, <3>1, ReturnFields DEF DisableSchedule
      <4>. QED BY <1>0, <4>1 DEF At, ScheduledMachines
    <3>2. CASE rec'[r].pc # "clear_annotations"
      BY <3>2 DEF At
    <3>3. CASE \/ CheckReclaim(r) \/ PersistSpot(r) \/ EmergencyPhase(r) \/ Drain(r)
               \/ StartAddFinalizer(r) \/ CreateBootstrap(r) \/ CreateInfra(r)
               \/ DeleteMachine(r) \/ DeleteBootstrap(r)
      BY <1>0, <3>2, <3>3, GotoFields, GotoInFields, ReturnFields
         DEF CheckReclaim, PersistSpot, EmergencyPhase, Drain, StartAddFinalizer, CreateBootstrap,
             CreateInfra, DeleteMachine, DeleteBootstrap
    <3>4. CASE DeleteInfra(r)
      BY <1>0, <3>2, <3>4, GotoFields, GotoPhaseFields DEF DeleteInfra, AfterRemoval
    <3>5. CASE StartInner(r) \/ Resolve(r)
      <4>1. Resolve(r) => rec'[r].pc = "persist_spot"
        BY ResolveFields
      <4>2. StartInner(r) => rec'[r].pc \in {"check_reclaim", "resolve"}
        BY <1>0 DEF StartInner, BeginInner, RecType, Idle
      <4>. QED BY <3>2, <3>5, <4>1, <4>2
    <3>6. CASE Return(r) \/ \E to, why : GotoPhase(r, to, why)
      BY <1>0, <3>2, <3>6, ReturnFields, GotoPhaseFields
    <3>7. CASE \E flow, call : GotoIn(r, flow, call) /\ call # "clear_annotations"
      BY <1>0, <3>2, <3>7, GotoInFields
    <3>. QED BY <2>1, <3>1, <3>3, <3>4, <3>5, <3>6, <3>7
             DEF ReconcileStep, StartDeletion, StartKillSwitch, AddFinalizer, RemoveFinalizer,
                 HandlePendingPhase, HandleActivePhase, HandleShuttingDownPhase,
                 HandleInactivePhase, HandleDisabledPhase, HandleEmergencyRemovePhase,
                 HandleTerminatedPhase, HandleErrorPhase, Enrich, CreateMachine, UpdatePhase,
                 ClearAnnotations
  <2>2. CASE CallFails(r) \/ CleanupTimesOut(r) \/ Crash(r)
    <3>1. rec'[r].pc # "clear_annotations"
      BY <1>0, <2>2, GotoFields, GotoPhaseFields, ReturnFields
         DEF CallFails, CleanupTimesOut, Crash
    <3>. QED BY <3>1 DEF At
  <2>3. CASE Environment \/ UNCHANGED vars \/ \E q \in Replicas : WatchDeliver(q)
    <3>1. rec'[r].pc = rec[r].pc
      BY <2>3, OthersRec
    <3>2. CASE UserEnables
      BY <1>0, <3>2 DEF UserEnables, Histories
    <3>3. CASE UserDeletes
      <4>1. At(r, "clear_annotations") => sm.finalizer
        BY <3>3 DEF UserDeletes, UserEdit, Withdrawal, At, Held, Bound, Calls
      <4>2. sm.finalizer => sm'.enabled = sm.enabled
        BY <1>0, <3>3 DEF UserDeletes, UserEdit, ScheduledMachines
      <4>. QED BY <3>1, <3>3, <4>1, <4>2 DEF UserDeletes, Withdrawal, At
    <3>5. CASE Tick \/ ClockStepsBack
      <4>1. sm'.enabled = sm.enabled
        BY <1>0, <3>5, ClockStep, ShiftedFields DEF ClockMoves
      <4>2. hist'.ejected = hist.ejected
        BY <1>0, <3>5 DEF Tick, ClockStepsBack, Histories
      <4>. QED BY <3>1, <4>1, <4>2 DEF Withdrawal, At
    <3>4. ASSUME ~UserEnables, ~UserDeletes, ~Tick, ~ClockStepsBack
          PROVE  (sm'.enabled => sm.enabled) /\ hist' = hist
      BY <1>0, <2>3, <3>4 DEF Environment, LeaseMoves, UserDisables,
         UserSetsKillSwitch, UserEdit, ProviderFlips, NodeJoins, NodeLeaves,
         AgentRequestsReclaim, GarbageCollect, CapiFinishes, WatchDeliver, vars, ScheduledMachines
    <3>. QED BY <3>1, <3>2, <3>3, <3>4, <3>5 DEF Withdrawal, At
  <2>. QED BY <2>1, <2>2, <2>3 DEF Next, Replica, Single
<1>3. ASSUME NEW r \in Replicas
      PROVE  (rec[r].pc \in Bound => Held)'
  <2>0. Monotone /\ (Cached(r).finalizer => Held) /\ (Cached(r).deleting => sm.deleting)
    BY HeldStays DEF Cached, FinalizerHeld, StoreHeld, Held
  <2>1. CASE rec[r].pc \in Bound
    BY <2>0, <2>1 DEF Withdrawal, Monotone
  <2>. USE DEF Bound, Calls, CreateCalls, DeleteCalls
  <2>2. CASE StartDeletion(r) \/ StartKillSwitch(r) \/ StartInner(r)
    BY <2>0, <2>2 DEF StartDeletion, StartKillSwitch, StartInner, Monotone, Held
  <2>3. CASE StartAddFinalizer(r) \/ AddFinalizer(r)
    BY <1>0, <2>3, GotoFields, ReturnFields DEF StartAddFinalizer, AddFinalizer
  <2>4. CASE ReconcileStep(r)
    BY <2>1, <2>2, <2>3, <2>4
       DEF ReconcileStep, RemoveFinalizer, CheckReclaim, Resolve, PersistSpot,
       HandlePendingPhase, HandleActivePhase, HandleShuttingDownPhase, HandleInactivePhase,
       HandleDisabledPhase, HandleEmergencyRemovePhase, HandleTerminatedPhase, HandleErrorPhase,
       Dispatch, Enrich, CreateBootstrap, CreateInfra, CreateMachine, Drain, DeleteMachine,
       DeleteBootstrap, DeleteInfra, UpdatePhase, EmergencyPhase, DisableSchedule,
       ClearAnnotations, At
  <2>5. CASE CallFails(r) \/ CleanupTimesOut(r) \/ Crash(r)
    BY <1>0, <2>1, <2>5, ReturnFields DEF CallFails, ErrorPhaseCall, CleanupTimesOut, Crash, At
  <2>6. CASE Environment \/ UNCHANGED vars \/ \E q \in Replicas : WatchDeliver(q)
    <3>1. rec'[r].pc = rec[r].pc
      BY <2>6, OthersRec
    <3>. QED BY <2>1, <3>1
  <2>. QED BY <2>4, <2>5, <2>6 DEF Next, Replica, Single
<1>. QED BY <1>1, <1>2, <1>3 DEF Withdrawal

\* handle_emergency_remove: the request is withdrawn from a live Node only after the schedule
\* is disabled, for one replica, whatever its cache holds and whatever faults it meets.
THEOREM DisabledBeforeClearedHolds ==
    ASSUME Single PROVE Spec => DisabledBeforeCleared
<1>. DEFINE P == (node.reclaim /\ node'.up /\ ~node'.reclaim /\ sm.enabled) => ~hist.ejected
<1>1. Init => Withdrawal
  <2>. SUFFICES ASSUME Init PROVE Withdrawal
    OBVIOUS
  <2>1. \A r \in Replicas : rec[r].pc = "idle"
    BY DEF Init, Idle
  <2>. QED BY <2>1 DEF Init, Withdrawal, At, Bound, Calls, CreateCalls, DeleteCalls
<1>2. TypeOK /\ FinalizerHeld /\ Withdrawal /\ [Next]_vars => Withdrawal'
  BY WithdrawalStep
<1>3. TypeOK /\ Withdrawal /\ [Next]_vars => [P]_vars
  <2>. SUFFICES ASSUME TypeOK, Withdrawal, [Next]_vars PROVE P
    OBVIOUS
  <2>. QED BY NodeChanges DEF TypeOK, Withdrawal, NodeJoins, NodeLeaves, AgentRequestsReclaim,
              CapiFinishes, ClearAnnotations
<1>. QED BY <1>1, <1>2, <1>3, TypeCorrect, FinalizerHeldHolds, PTL DEF Spec, DisabledBeforeCleared

\* Every step of one replica on a fresh cache is a step of the phase contract or leaves phase
\* and Machine alone.
LEMMA ContractStep ==
    ASSUME Alone, TypeOK, FinalizerHeld, Order, [Next]_vars
    PROVE  [Contract!Next]_(Contract!vars)
<1>0. /\ sm \in ScheduledMachines /\ sm.phase \in Phases
      /\ capi \in [Kinds -> {"none", "live", "terminating"}] /\ hist \in Histories
  BY DEF TypeOK, ScheduledMachines
<1>. USE DEF Order, Ordered, Present, Staged, Bound, Removing, Calls, CreateCalls, DeleteCalls, At
<1>. USE DEF Contract!Next, Contract!vars, Contract!Provision, Contract!Unprovision, Contract!To
<1>1. ASSUME NEW r \in Replicas, CreateMachine(r)
      PROVE  Contract!Provision
  <2>1. sm' = sm /\ sm.exists /\ sm.phase = "Pending"
    BY <1>1 DEF CreateMachine
  <2>2. hist'.adopted <=> capi["machine"] = "terminating"
    BY <1>0, <1>1 DEF CreateMachine, Histories
  <2>3. capi'["machine"] = (IF capi["machine"] = "none" THEN "live" ELSE capi["machine"])
    BY <1>0, <1>1 DEF CreateMachine, CreateEffect, Kinds
  <2>. QED BY <1>0, <2>1, <2>2, <2>3 DEF Kinds
<1>2. ASSUME NEW r \in Replicas, DeleteMachine(r)
      PROVE  Contract!Unprovision \/ UNCHANGED Contract!vars
  <2>1. hist'.adopted = hist.adopted
    BY <1>0, <1>2 DEF DeleteMachine, Histories
  <2>. QED BY <1>0, <1>2, <2>1 DEF DeleteMachine, DeleteEffect, Kinds, RunningPhases
<1>3. CASE GarbageCollect
  BY <1>0, <1>3 DEF GarbageCollect, DeleteEffect, Kinds
<1>4. ASSUME NEW r \in Replicas,
             CreateBootstrap(r) \/ CreateInfra(r) \/ DeleteBootstrap(r) \/ DeleteInfra(r)
      PROVE  UNCHANGED Contract!vars
  BY <1>0, <1>4 DEF CreateBootstrap, CreateInfra, DeleteBootstrap, DeleteInfra, CreateEffect,
     DeleteEffect, Kinds
<1>5. CapiFinishes => UNCHANGED Contract!vars
  BY <1>0 DEF CapiFinishes, Kinds
<1>. USE DEF Contract!Activate, Contract!FinishShutdown, Contract!BeginShutdown, Contract!Park,
         Contract!Resume, Contract!Fail, Contract!Kill, Contract!Reclaim,
         Contract!FinishReclaim, Contract!Delete
<1>6. ASSUME NEW r \in Replicas, UpdatePhase(r) PROVE [Contract!Next]_(Contract!vars)
  <2>1. /\ sm.exists /\ Moves(sm.phase, rec[r].to) /\ capi' = capi
        /\ sm'.exists /\ sm'.phase = rec[r].to
    BY <1>0, <1>6, PhasePatchFields DEF UpdatePhase, Reported
  <2>2. /\ rec[r].to = "Active" => capi["machine"] = "live" \/ hist.adopted
        /\ (sm.phase \in RunningPhases /\ rec[r].to \in {"Inactive", "Terminated"})
             \/ (sm.phase = "EmergencyRemove" /\ rec[r].to = "Disabled")
             => capi["machine"] # "live"
    BY <1>6 DEF UpdatePhase, Created, Reported, Live, Kinds
  <2>3. hist'.adopted <=> hist.adopted /\ rec[r].to = "Active"
    BY <1>0, <1>6, <2>1, PhasePatchHistory DEF UpdatePhase
  <2>4. hist'.adopted \in BOOLEAN /\ hist.adopted \in BOOLEAN
    BY <1>0, <1>6, <2>1 DEF UpdatePhase, PhasePatch, Histories
  <2>5. hist'.adopted = (hist.adopted /\ rec[r].to = "Active")
    BY <2>3, <2>4, Zenon
  <2>6. rec[r].to = sm.phase => hist'.adopted = hist.adopted
    <3>1. rec[r].to = sm.phase => sm.phase = "Terminated"
      BY <2>1 DEF Moves
    <3>2. sm.phase = "Terminated" => ~hist.adopted
      BY <2>1 DEF Taken
    <3>3. rec[r].to = sm.phase => ~hist.adopted /\ ~hist'.adopted
      BY <2>3, <3>1, <3>2
    <3>. QED BY <2>4, <3>3, Zenon
  <2>. HIDE DEF Order
  <2>. QED BY <1>0, <2>1, <2>2, <2>5, <2>6 DEF Moves, RunningPhases, Phases
<1>7. ASSUME NEW r \in Replicas, EmergencyPhase(r) PROVE [Contract!Next]_(Contract!vars)
  <2>1. /\ sm.exists /\ capi' = capi /\ sm'.exists /\ sm'.phase = "EmergencyRemove"
    BY <1>0, <1>7, PhasePatchFields DEF EmergencyPhase
  <2>2. ~hist'.adopted /\ hist'.adopted \in BOOLEAN /\ hist.adopted \in BOOLEAN
    BY <1>0, <1>7, <2>1, PhasePatchHistory DEF EmergencyPhase, PhasePatch, Histories
  <2>3. hist'.adopted = (hist.adopted /\ "EmergencyRemove" = "Active")
    <3>1. ~(hist.adopted /\ "EmergencyRemove" = "Active")
      OBVIOUS
    <3>. QED BY <2>2, <3>1, Zenon
  <2>4. sm.phase = "EmergencyRemove" => hist'.adopted = hist.adopted
    <3>1. sm.phase = "EmergencyRemove" => ~hist.adopted
      BY <1>7, <2>1 DEF Taken
    <3>. QED BY <2>2, <3>1, Zenon
  <2>. HIDE DEF Order
  <2>. QED BY <1>0, <2>1, <2>3, <2>4 DEF Phases
<1>8. ASSUME NEW r \in Replicas, RemoveFinalizer(r) PROVE Contract!Delete
  <2>1. sm.exists /\ ~sm'.exists /\ capi' = capi /\ hist' = hist
    BY <1>8 DEF RemoveFinalizer, FinalizerHeld, RecHeld, Gone, NewMachine
  <2>. QED BY <1>0, <2>1 DEF Phases
<1>9. ASSUME UserDeletes PROVE [Contract!Next]_(Contract!vars)
  <2>1. /\ sm.exists /\ capi' = capi /\ hist' = hist
        /\ (sm'.exists /\ sm'.phase = sm.phase) \/ ~sm'.exists
    BY <1>0, <1>9 DEF UserDeletes, UserEdit, Gone, NewMachine, ScheduledMachines
  <2>. QED BY <1>0, <2>1 DEF Phases
<1>10. ASSUME capi' = capi, hist'.adopted = hist.adopted, sm'.exists = sm.exists, sm'.phase = sm.phase
       PROVE  UNCHANGED Contract!vars
  BY <1>10
<1>. QED BY <1>1, <1>2, <1>3, <1>4, <1>5, <1>6, <1>7, <1>8, <1>9, <1>10,
            CapiChanges, PhaseChanges, HistFields

\* The reconciler implements the state machine drawn at the head of scheduled_machine.rs, for
\* one replica on a fresh cache, whether a deleted Machine goes at once or is torn down first.
THEOREM ImplementsContractHolds ==
    ASSUME Alone PROVE Spec => ImplementsContract
<1>1. Init => Contract!Init
  BY DEF Init, Contract!Init, NewMachine, Kinds
<1>2. TypeOK /\ FinalizerHeld /\ Order /\ [Next]_vars => [Contract!Next]_(Contract!vars)
  BY ContractStep
<1>. QED BY <1>1, <1>2, TypeCorrect, FinalizerHeldHolds, OrderHolds, PTL
         DEF Spec, ImplementsContract, Contract!Spec

\* How a reconcile comes to its creating, reading, removing and failing calls.
LEMMA NextCall ==
    ASSUME TypeOK, NEW r \in Replicas, ReconcileStep(r)
    PROVE  /\ rec'[r].pc \in CreateCalls =>
                 rec[r].pc \in CreateCalls \/ (At(r, "dispatch") /\ Obj(r).enabled)
           /\ rec'[r].pc \in Reading =>
                 \/ StartInner(r)
                 \/ rec[r].pc \in Reading /\ rec'[r].obj.enabled = rec[r].obj.enabled
           /\ (rec'[r].pc \in Removing /\ rec'[r].flow = "kill") =>
                 \/ StartKillSwitch(r)
                 \/ rec[r].flow = "kill" /\ rec[r].pc \in Removing \cup {"emergency_phase"}
           /\ (rec'[r].pc = "update_phase" /\ rec'[r].to = "Error") => faults' # faults
<1>0. RecType /\ faults \in Nat
  BY ConstAssumption DEF TypeOK, RecType
<1>. USE DEF Reading, Removing, CreateCalls, DeleteCalls, At
<1>1. CASE Return(r)
  BY <1>0, <1>1, ReturnFields
<1>2. CASE \E to, why : GotoPhase(r, to, why) /\ to # "Error"
  BY <1>0, <1>2, GotoPhaseFields
<1>3. CASE StartDeletion(r) \/ StartAddFinalizer(r) \/ StartKillSwitch(r)
  BY <1>0, <1>2, <1>3, GotoFields, GotoInFields
     DEF StartDeletion, StartAddFinalizer, StartKillSwitch
<1>4. CASE StartInner(r)
  <2>1. rec'[r].pc \in {"check_reclaim", "resolve"}
    BY <1>0, <1>4 DEF StartInner, BeginInner, RecType, Idle
  <2>. QED BY <1>4, <2>1
<1>5. CASE CheckReclaim(r) \/ PersistSpot(r)
  BY <1>0, <1>1, <1>5, GotoFields, GotoInFields DEF CheckReclaim, PersistSpot
<1>6. CASE Resolve(r)
  BY <1>6, ResolveFields DEF Resolve
<1>7. CASE \/ HandlePendingPhase(r) \/ HandleActivePhase(r) \/ HandleShuttingDownPhase(r)
           \/ HandleInactivePhase(r) \/ HandleDisabledPhase(r)
           \/ HandleEmergencyRemovePhase(r) \/ HandleTerminatedPhase(r) \/ HandleErrorPhase(r)
  BY <1>0, <1>1, <1>2, <1>7, GotoInFields
     DEF HandlePendingPhase, HandleActivePhase, HandleShuttingDownPhase, HandleInactivePhase,
         HandleDisabledPhase, HandleEmergencyRemovePhase, HandleTerminatedPhase,
         HandleErrorPhase, Dispatch
<1>8. CASE CreateBootstrap(r) \/ CreateInfra(r)
  BY <1>0, <1>8, GotoFields DEF CreateBootstrap, CreateInfra
<1>9. CASE CreateMachine(r)
  BY <1>0, <1>9, GotoPhaseFields DEF CreateMachine, Fault
<1>10. CASE \/ Drain(r) \/ DeleteMachine(r) \/ DeleteBootstrap(r)
            \/ EmergencyPhase(r) \/ DisableSchedule(r)
  BY <1>0, <1>1, <1>10, GotoFields
     DEF Drain, DeleteMachine, DeleteBootstrap, EmergencyPhase, DisableSchedule
<1>11. CASE DeleteInfra(r)
  BY <1>0, <1>2, <1>11, GotoFields DEF DeleteInfra, AfterRemoval
<1>. QED BY <1>1, <1>2, <1>3, <1>4, <1>5, <1>6, <1>7, <1>8, <1>9, <1>10, <1>11
         DEF ReconcileStep, AddFinalizer, RemoveFinalizer, Enrich, UpdatePhase, ClearAnnotations

\* The switches of the object: who turns them.
LEMMA SwitchChanges ==
    ASSUME TypeOK, FinalizerHeld, Order, [Next]_vars
    PROVE  /\ ~sm.exists => ~sm'.exists
           /\ sm'.exists /\ sm'.enabled => sm.enabled \/ UserEnables
           /\ sm.killSwitch /\ sm'.exists => sm'.killSwitch \/ UserSetsKillSwitch(FALSE)
           /\ sm'.exists /\ sm.deleting => sm'.deleting
<1>0. sm \in ScheduledMachines /\ Monotone
  BY HeldStays DEF TypeOK
<1>. USE DEF Order, Ordered, Present, Bound, Calls, At, Monotone
<1>1. CASE \E r \in Replicas : AddFinalizer(r) \/ PersistSpot(r) \/ Enrich(r) \/ DisableSchedule(r)
  BY <1>0, <1>1 DEF AddFinalizer, PersistSpot, Enrich, DisableSchedule, ScheduledMachines
<1>2. CASE \E r \in Replicas : UpdatePhase(r) \/ EmergencyPhase(r)
  BY <1>0, <1>2, PhasePatchFields DEF UpdatePhase, EmergencyPhase
<1>3. CASE \E r \in Replicas : RemoveFinalizer(r)
  <2>1. ~sm'.exists
    BY <1>3 DEF RemoveFinalizer, FinalizerHeld, RecHeld, Gone, NewMachine
  <2>. QED BY <2>1
<1>4. CASE UserDeletes
  <2>1. ~sm'.exists \/ (sm'.enabled = sm.enabled /\ sm'.killSwitch = sm.killSwitch)
    BY <1>0, <1>4 DEF UserDeletes, UserEdit, Gone, NewMachine, ScheduledMachines
  <2>. QED BY <1>0, <1>4, <2>1 DEF UserDeletes, UserEdit
<1>5. CASE UserEnables \/ UserDisables \/ \E on \in BOOLEAN : UserSetsKillSwitch(on)
  BY <1>0, <1>5 DEF UserEnables, UserDisables, UserSetsKillSwitch, UserEdit, ScheduledMachines
<1>6. CASE Tick \/ ClockStepsBack
  <2>1. PICK d \in Int : sm' = Shifted(sm, d)
    BY <1>6, ClockStep DEF ClockMoves
  <2>2. /\ sm'.exists = sm.exists /\ sm'.enabled = sm.enabled
        /\ sm'.killSwitch = sm.killSwitch /\ sm'.deleting = sm.deleting
    BY <1>0, <2>1, ShiftedFields
  <2>. QED BY <2>2
<1>7. CASE sm' = sm
  BY <1>7
<1>8. ASSUME NEW r \in Replicas, Replica(r),
             ~(AddFinalizer(r) \/ PersistSpot(r) \/ Enrich(r) \/ DisableSchedule(r)),
             ~(UpdatePhase(r) \/ EmergencyPhase(r)), ~RemoveFinalizer(r)
      PROVE  sm' = sm
  BY <1>8, ObjectUntouched
     DEF Replica, ReconcileStep, CallFails, CleanupTimesOut, Crash, WatchDeliver, apiVars
<1>. QED BY <1>1, <1>2, <1>3, <1>4, <1>5, <1>6, <1>7, <1>8
         DEF Next, Environment, LeaseMoves, ProviderFlips, NodeJoins, NodeLeaves,
             AgentRequestsReclaim, GarbageCollect, CapiFinishes, apiVars, vars

\* While phase Active stands for a Machine of its own, that Machine is there or a removal for
\* the kill switch is about to report Terminated.
Running ==
    (sm.exists /\ ~sm.deleting /\ sm.phase = "Active" /\ ~hist.adopted /\ ~hist.cut)
    => Live("machine") \/ \E r \in Replicas : Killing(r)

\* A removal for the kill switch goes on, reports, or is cut off.
LEMMA KillingStep ==
    ASSUME Alone, TypeOK, Order, [Next]_vars, NEW r \in Replicas, Killing(r), sm.phase = "Active"
    PROVE  Killing(r)' \/ hist'.cut \/ (UpdatePhase(r) /\ rec[r].to = "Terminated")
<1>0. RecType /\ hist \in Histories
  BY DEF TypeOK, RecType
<1>. USE DEF Killing, DeleteCalls, At
<1>1. CASE ReconcileStep(r)
  <2>1. CASE DeleteMachine(r) \/ DeleteBootstrap(r)
    BY <1>0, <2>1, GotoFields DEF DeleteMachine, DeleteBootstrap
  <2>2. CASE DeleteInfra(r)
    BY <1>0, <2>2, GotoPhaseFields DEF DeleteInfra, AfterRemoval
  <2>3. CASE UpdatePhase(r)
    BY <2>3 DEF UpdatePhase
  <2>. QED BY <1>1, <2>1, <2>2, <2>3
       DEF ReconcileStep, StartDeletion, StartAddFinalizer, StartKillSwitch, StartInner,
       Dequeue, AddFinalizer, RemoveFinalizer, CheckReclaim, Resolve, PersistSpot,
       HandlePendingPhase, HandleActivePhase, HandleShuttingDownPhase, HandleInactivePhase,
       HandleDisabledPhase, HandleEmergencyRemovePhase, HandleTerminatedPhase, HandleErrorPhase,
       Dispatch, Enrich, CreateBootstrap, CreateInfra, CreateMachine, Drain, EmergencyPhase,
       DisableSchedule, ClearAnnotations
<1>2. CASE CallFails(r) \/ Crash(r)
  <2>1. CutOff(r)
    BY <1>2 DEF CallFails, Crash
  <2>2. hist' = [hist EXCEPT !.cut = hist.cut \/ (Killing(r) /\ sm.phase = "Active")]
    BY <2>1 DEF CutOff
  <2>3. hist'.cut = (hist.cut \/ (Killing(r) /\ sm.phase = "Active"))
    BY <1>0, <2>2 DEF Histories
  <2>. HIDE DEF Killing
  <2>. QED BY <2>3
<1>3. CASE CleanupTimesOut(r)
  BY <1>3 DEF CleanupTimesOut
<1>4. CASE Environment \/ UNCHANGED vars \/ \E q \in Replicas : WatchDeliver(q)
  BY <1>4, OthersRec
<1>. QED BY <1>1, <1>2, <1>3, <1>4 DEF Next, Replica, Alone, Single

LEMMA RunningStep ==
    ASSUME Alone, TypeOK, FinalizerHeld, Order, Running, [Next]_vars
    PROVE  Running'
<1>0. /\ sm \in ScheduledMachines /\ capi \in [Kinds -> {"none", "live", "terminating"}]
      /\ RecType /\ hist \in Histories
  BY DEF TypeOK, RecType
<1>. SUFFICES ASSUME sm'.exists, ~sm'.deleting, sm'.phase = "Active",
                     ~hist'.adopted, ~hist'.cut
              PROVE  Live("machine")' \/ \E r \in Replicas : Killing(r)'
  BY DEF Running
<1>. USE DEF Order, Ordered
<1>1. sm.exists /\ ~sm.deleting
  BY SwitchChanges
<1>2. ASSUME NEW r \in Replicas, UpdatePhase(r) PROVE Live("machine")'
  <2>1. rec[r].to = "Active" /\ capi' = capi
    BY <1>0, <1>1, <1>2, PhasePatchFields DEF UpdatePhase
  <2>2. ~hist.adopted
    BY <1>0, <1>1, <1>2, <2>1, PhasePatchHistory DEF UpdatePhase
  <2>. QED BY <1>2, <2>1, <2>2 DEF UpdatePhase, At, Created, Live
<1>3. ASSUME NEW r \in Replicas, EmergencyPhase(r) PROVE FALSE
  BY <1>0, <1>1, <1>3, PhasePatchFields DEF EmergencyPhase
<1>4. ASSUME NEW r \in Replicas, RemoveFinalizer(r) PROVE FALSE
  BY <1>1, <1>4 DEF RemoveFinalizer, At, FinalizerHeld, RecHeld
<1>5. ASSUME UserDeletes PROVE FALSE
  BY <1>0, <1>5 DEF UserDeletes, UserEdit, Gone, NewMachine, ScheduledMachines
<1>6. CASE sm'.phase = sm.phase /\ \A r \in Replicas : ~UpdatePhase(r)
  <2>1. ASSUME NEW r \in Replicas PROVE ~CreateMachine(r)
    BY <1>6 DEF CreateMachine, At, Staged, CreateCalls
  <2>2. ~hist.adopted /\ ~hist.cut
    BY <1>3, <1>6, <2>1, HistFields
  <2>3. Live("machine") \/ \E r \in Replicas : Killing(r)
    BY <1>1, <1>6, <2>2 DEF Running
  <2>4. ASSUME NEW r \in Replicas, Killing(r) PROVE Killing(r)'
    BY <1>6, <2>4, KillingStep
  <2>5. CASE Live("machine")
    <3>1. ASSUME NEW r \in Replicas, DeleteMachine(r) PROVE Killing(r)
      <4>1. rec[r].pc \in DeleteCalls /\ rec[r].pc \in Removing /\ sm.phase = "Active"
        BY <1>6, <3>1 DEF DeleteMachine, At, Removing, DeleteCalls
      <4>. QED BY <1>1, <4>1 DEF Staged, FinalizerHeld, RecHeld, Killing
    <3>2. CASE \E r \in Replicas : DeleteMachine(r)
      BY <2>4, <3>1, <3>2
    <3>3. CASE ~\E r \in Replicas : DeleteMachine(r)
      BY <1>0, <1>1, <2>1, <2>5, <3>3, CapiChanges
         DEF Live, CreateBootstrap, CreateInfra, DeleteBootstrap, DeleteInfra, CreateEffect,
             DeleteEffect, CapiFinishes, GarbageCollect, Kinds
    <3>. QED BY <3>2, <3>3
  <2>. QED BY <2>3, <2>4, <2>5
<1>. QED BY <1>2, <1>3, <1>4, <1>5, <1>6, PhaseChanges

\* handle_active_phase: between reconciles, phase Active of an object that is not being deleted
\* means that its Machine is there and not being torn down, for one replica on a fresh cache,
\* with the two exceptions the property names: a terminating Machine taken for the new one,
\* and a removal for the kill switch that was cut off.
THEOREM ActiveMeansMachineHolds ==
    ASSUME Alone PROVE Spec => []ActiveMeansMachine
<1>1. Init => Running
  BY DEF Init, NewMachine, Running
<1>2. TypeOK /\ FinalizerHeld /\ Order /\ Running /\ [Next]_vars => Running'
  BY RunningStep
<1>3. Running => ActiveMeansMachine
  BY DEF Running, ActiveMeansMachine, Live, Killing, At, DeleteCalls
<1>. QED BY <1>1, <1>2, <1>3, TypeCorrect, FinalizerHeldHolds, OrderHolds, PTL DEF Spec

\* Until the first fault: a Machine runs only in the phases that stand for one, or while a
\* reconcile is about to report or to remove it ...
Accounted(r) ==
    /\ Live("machine") =>
         \/ ~sm.exists \/ sm.phase \in RunningPhases
         \/ sm.phase = "Pending" /\ rec[r].pc = "update_phase" /\ rec[r].to = "Active"
         \/ sm.phase = "EmergencyRemove" /\ rec[r].pc \in {"drain", "delete_machine"}
    /\ rec[r].pc = "update_phase" => rec[r].to # "Error"

\* ... and after an ejection nobody works on an enabled copy, and the schedule is disabled
\* or about to be.
Disabling(r) ==
    /\ rec[r].flow = "emergency"
    /\ rec[r].pc \in {"delete_bootstrap", "delete_infra", "disable_schedule"}
Barred(r) ==
    hist.ejected =>
        /\ rec[r].pc \notin CreateCalls
        /\ rec[r].pc \in Reading => ~Obj(r).enabled
        /\ ~sm.exists \/ ~sm.enabled \/ Disabling(r)

Faultless == faults = 0 => \A r \in Replicas : Accounted(r) /\ Barred(r)

\* Without a fault a replica takes the steps of its reconcile only.
LEMMA NoFaultStep ==
    ASSUME TypeOK, Single, [Next]_vars, faults' = 0, NEW r \in Replicas
    PROVE  /\ faults = 0
           /\ \/ ReconcileStep(r)
              \/ Environment \/ UNCHANGED vars \/ \E q \in Replicas : WatchDeliver(q)
<1>0. faults \in Nat
  BY ConstAssumption DEF TypeOK
<1>1. faults' = faults \/ faults' = faults + 1
  <2>1. ASSUME NEW q \in Replicas, ReconcileStep(q), ~CreateMachine(q) PROVE faults' = faults
    BY <2>1 DEF ReconcileStep, StartDeletion, StartAddFinalizer, StartKillSwitch, StartInner,
       Dequeue, AddFinalizer, RemoveFinalizer, CheckReclaim, Resolve, PersistSpot,
       HandlePendingPhase, HandleActivePhase, HandleShuttingDownPhase, HandleInactivePhase,
       HandleDisabledPhase, HandleEmergencyRemovePhase, HandleTerminatedPhase,
       HandleErrorPhase, Dispatch, Enrich, CreateBootstrap, CreateInfra, Drain, DeleteMachine,
       DeleteBootstrap, DeleteInfra, UpdatePhase, EmergencyPhase, DisableSchedule,
       ClearAnnotations, NoFault
  <2>2. ASSUME NEW q \in Replicas,
               \/ CreateMachine(q) \/ CallFails(q) \/ CleanupTimesOut(q) \/ Crash(q)
               \/ WatchDeliver(q)
        PROVE  faults' = faults \/ faults' = faults + 1
    BY <2>2 DEF CreateMachine, CallFails, CleanupTimesOut, Crash, WatchDeliver, Fault, NoFault
  <2>3. ASSUME Environment \/ UNCHANGED vars PROVE faults' = faults \/ faults' = faults + 1
    BY <2>3 DEF Environment, LeaseMoves, UserEnables, UserDisables, UserDeletes,
       UserSetsKillSwitch, UserEdit, ProviderFlips, Tick, ClockStepsBack, NodeJoins, NodeLeaves,
       AgentRequestsReclaim, GarbageCollect, CapiFinishes, Fault, NoFault, vars
  <2>. QED BY <2>1, <2>2, <2>3 DEF Next, Replica
<1>2. faults = 0
  BY <1>0, <1>1
<1>3. ASSUME CallFails(r) \/ CleanupTimesOut(r) \/ Crash(r) PROVE FALSE
  BY <1>2, <1>3 DEF CallFails, CleanupTimesOut, Crash, Fault
<1>. QED BY <1>2, <1>3 DEF Next, Replica, Single

LEMMA AccountedStep ==
    ASSUME Alone, TypeOK, FinalizerHeld, Order, [Next]_vars, faults' = 0,
           NEW r \in Replicas, Accounted(r)
    PROVE  Accounted(r)'
<1>0. /\ sm \in ScheduledMachines /\ capi \in [Kinds -> {"none", "live", "terminating"}]
      /\ RecType /\ Ordered(r) /\ Single
  BY DEF TypeOK, RecType, Order, Alone
<1>1. /\ faults = 0
      /\ \/ ReconcileStep(r)
         \/ Environment \/ UNCHANGED vars \/ \E q \in Replicas : WatchDeliver(q)
  BY <1>0, NoFaultStep
<1>2. (rec[r].pc = "update_phase" => rec[r].to # "Error")'
  BY <1>1, NextCall, OthersRec DEF Accounted
<1>3. ASSUME Live("machine")'
      PROVE  (\/ ~sm.exists \/ sm.phase \in RunningPhases
              \/ sm.phase = "Pending" /\ rec[r].pc = "update_phase" /\ rec[r].to = "Active"
              \/ sm.phase = "EmergencyRemove" /\ rec[r].pc \in {"drain", "delete_machine"})'
  <2>. USE DEF Ordered, Present, Bound, Calls, CreateCalls, At
  <2>1. CASE CreateMachine(r)
    <3>1. sm' = sm /\ sm.phase = "Pending"
      BY <1>0, <2>1 DEF CreateMachine, Staged
    <3>2. rec'[r].pc = "update_phase" /\ rec'[r].to = "Active"
      BY <1>0, <1>1, <2>1, GotoPhaseFields DEF CreateMachine, Fault
    <3>. QED BY <3>1, <3>2
  <2>2. CASE ~CreateMachine(r)
    <3>1. Live("machine") /\ ~DeleteMachine(r)
      BY <1>0, <1>3, <2>2, CapiChanges
         DEF Live, CreateBootstrap, CreateInfra, DeleteMachine, DeleteBootstrap, DeleteInfra,
             CreateEffect, DeleteEffect, CapiFinishes, GarbageCollect, Kinds, Single
    <3>2. CASE ~sm.exists
      BY <3>2, SwitchChanges
    <3>3. CASE UpdatePhase(r)
      <4>1. sm.exists /\ sm'.exists /\ sm'.phase = rec[r].to /\ Moves(sm.phase, rec[r].to)
        BY <1>0, <3>3, PhasePatchFields DEF UpdatePhase, Reported
      <4>. QED BY <1>0, <3>1, <3>3, <4>1
               DEF UpdatePhase, Accounted, Reported, Moves, RunningPhases
    <3>4. CASE EmergencyPhase(r)
      <4>1. sm.exists /\ sm'.phase = "EmergencyRemove" /\ rec'[r].pc = "drain"
        BY <1>0, <3>4, PhasePatchFields, GotoFields DEF EmergencyPhase
      <4>. QED BY <4>1
    <3>5. CASE RemoveFinalizer(r)
      BY <3>5 DEF RemoveFinalizer, FinalizerHeld, RecHeld, Gone, NewMachine
    <3>6. CASE UserDeletes
      <4>1. ~sm'.exists \/ sm'.phase = sm.phase
        BY <1>0, <3>6 DEF UserDeletes, UserEdit, Gone, NewMachine, ScheduledMachines
      <4>2. rec' = rec /\ sm.exists
        BY <3>6 DEF UserDeletes, UserEdit
      <4>. QED BY <3>1, <4>1, <4>2 DEF Accounted
    <3>7. CASE sm.exists /\ sm'.phase = sm.phase /\ ~UpdatePhase(r) /\ ~RemoveFinalizer(r)
      <4>1. CASE ReconcileStep(r)
        <5>1. CASE Drain(r)
          BY <1>0, <3>1, <3>7, <5>1, GotoFields DEF Drain, Accounted
        <5>2. CASE sm.phase \in RunningPhases
          BY <3>7, <5>2
        <5>3. CASE rec[r].pc \in {"update_phase", "drain", "delete_machine"}
          BY <3>1, <3>7, <4>1, <5>1, <5>3
             DEF ReconcileStep, StartDeletion, StartAddFinalizer, StartKillSwitch, StartInner,
             Dequeue, AddFinalizer, RemoveFinalizer, CheckReclaim, Resolve, PersistSpot,
             HandlePendingPhase, HandleActivePhase, HandleShuttingDownPhase, HandleInactivePhase,
             HandleDisabledPhase, HandleEmergencyRemovePhase, HandleTerminatedPhase,
             HandleErrorPhase, Dispatch, Enrich, CreateBootstrap, CreateInfra, CreateMachine,
             DeleteBootstrap, DeleteInfra, EmergencyPhase, DisableSchedule, ClearAnnotations
        <5>. QED BY <3>1, <3>7, <5>2, <5>3 DEF Accounted
      <4>2. CASE Environment \/ UNCHANGED vars \/ \E q \in Replicas : WatchDeliver(q)
        BY <3>1, <3>7, <4>2, OthersRec DEF Accounted
      <4>. QED BY <1>1, <4>1, <4>2
    <3>. QED BY <1>0, <3>2, <3>3, <3>4, <3>5, <3>6, <3>7, PhaseChanges DEF Single
  <2>. QED BY <2>1, <2>2
<1>. QED BY <1>2, <1>3 DEF Accounted

LEMMA BarredStep ==
    ASSUME Alone, TypeOK, FinalizerHeld, Order, [Next]_vars, faults' = 0,
           NEW r \in Replicas, Barred(r)
    PROVE  Barred(r)'
<1>0. /\ sm \in ScheduledMachines /\ RecType /\ Ordered(r) /\ Single
      /\ hist \in Histories
  BY DEF TypeOK, RecType, Order, Alone
<1>1. /\ faults = 0
      /\ \/ ReconcileStep(r)
         \/ Environment \/ UNCHANGED vars \/ \E q \in Replicas : WatchDeliver(q)
  BY <1>0, NoFaultStep
<1>. SUFFICES ASSUME hist'.ejected
              PROVE  /\ rec'[r].pc \notin CreateCalls
                     /\ rec'[r].pc \in Reading => ~rec'[r].obj.enabled
                     /\ ~sm'.exists \/ ~sm'.enabled \/ Disabling(r)'
  BY DEF Barred, Obj
<1>. USE DEF Disabling, Reading, CreateCalls, DeleteCalls, At
<1>2. CASE DeleteMachine(r)
  <2>1. rec'[r].pc = "delete_bootstrap" /\ rec'[r].flow = rec[r].flow /\ sm' = sm
    BY <1>0, <1>2, GotoFields DEF DeleteMachine
  <2>2. rec[r].flow = "emergency" \/ hist.ejected
    BY <1>0, <1>2 DEF DeleteMachine, Histories
  <2>. QED BY <1>2, <2>1, <2>2 DEF Barred, DeleteMachine
<1>3. ASSUME ~DeleteMachine(r) PROVE hist.ejected /\ ~UserEnables
  <2>1. ~UserEnables
    BY <1>0 DEF UserEnables, Histories
  <2>. QED BY <1>0, <1>3, <2>1, HistFields DEF Single
<1>4. CASE ~DeleteMachine(r) /\ ReconcileStep(r)
  <2>0. hist.ejected /\ (sm'.exists => sm.exists) /\ (sm'.exists /\ sm'.enabled => sm.enabled)
    BY <1>3, <1>4, SwitchChanges
  <2>1. rec'[r].pc \notin CreateCalls
    BY <1>4, <2>0, NextCall DEF Barred
  <2>2. ASSUME rec'[r].pc \in Reading PROVE ~rec'[r].obj.enabled
    <3>1. CASE StartInner(r)
      <4>1. rec'[r].obj = sm /\ sm.exists /\ rec[r].pc = "idle"
        BY <1>0, <3>1 DEF StartInner, BeginInner, Dequeue, Cached, Alone, RecType, Idle
      <4>. QED BY <2>0, <4>1 DEF Barred
    <3>. QED BY <1>4, <2>0, <2>2, <3>1, NextCall DEF Barred, Obj
  <2>3. ASSUME sm'.exists, sm'.enabled PROVE Disabling(r)'
    <3>1. Disabling(r) /\ sm.exists
      BY <2>0, <2>3 DEF Barred
    <3>2. CASE DeleteBootstrap(r)
      BY <1>0, <3>1, <3>2, GotoFields DEF DeleteBootstrap
    <3>3. CASE DeleteInfra(r)
      BY <1>0, <3>1, <3>3, GotoFields DEF DeleteInfra, AfterRemoval
    <3>4. CASE DisableSchedule(r)
      BY <1>0, <2>3, <3>1, <3>4 DEF DisableSchedule, ScheduledMachines
    <3>. QED BY <1>4, <3>1, <3>2, <3>3, <3>4
       DEF ReconcileStep, StartDeletion, StartAddFinalizer, StartKillSwitch, StartInner,
       Dequeue, AddFinalizer, RemoveFinalizer, CheckReclaim, Resolve, PersistSpot,
       HandlePendingPhase, HandleActivePhase, HandleShuttingDownPhase, HandleInactivePhase,
       HandleDisabledPhase, HandleEmergencyRemovePhase, HandleTerminatedPhase, HandleErrorPhase,
       Dispatch, Enrich, CreateBootstrap, CreateInfra, CreateMachine, Drain, UpdatePhase,
       EmergencyPhase, ClearAnnotations
  <2>. QED BY <2>1, <2>2, <2>3
<1>5. CASE /\ ~DeleteMachine(r)
           /\ Environment \/ UNCHANGED vars \/ \E q \in Replicas : WatchDeliver(q)
  <2>0. hist.ejected /\ (sm'.exists => sm.exists) /\ (sm'.exists /\ sm'.enabled => sm.enabled)
    BY <1>3, <1>5, SwitchChanges
  <2>. QED BY <1>5, <2>0, OthersRec DEF Barred, Obj
<1>. QED BY <1>1, <1>2, <1>4, <1>5

\* Until its first fault, one replica on a fresh cache leaves no Machine unaccounted for and
\* brings none back after an ejection.
THEOREM FaultlessHolds ==
    ASSUME Alone PROVE Spec => []Faultless
<1>1. Init => Faultless
  <2>. SUFFICES ASSUME Init, NEW r \in Replicas PROVE Accounted(r) /\ Barred(r)
    BY DEF Faultless
  <2>1. rec[r].pc = "idle" /\ capi["machine"] = "none" /\ ~hist.ejected
    BY DEF Init, Idle, Kinds
  <2>. QED BY <2>1 DEF Accounted, Barred, Live
<1>2. TypeOK /\ FinalizerHeld /\ Order /\ Faultless /\ [Next]_vars => Faultless'
  <2>. SUFFICES ASSUME TypeOK, FinalizerHeld, Order, Faultless, [Next]_vars, faults' = 0,
                       NEW r \in Replicas
                PROVE  Accounted(r)' /\ Barred(r)'
    BY DEF Faultless
  <2>1. Accounted(r) /\ Barred(r)
    BY NoFaultStep DEF Faultless, Alone
  <2>. QED BY <2>1, AccountedStep, BarredStep
<1>. QED BY <1>1, <1>2, TypeCorrect, FinalizerHeldHolds, OrderHolds, PTL DEF Spec

\* The phase handlers: until the first fault, between two reconciles, no Machine runs for an
\* object in phase Inactive, Disabled or Terminated; one replica on a fresh cache.
THEOREM ParkedMeansNoMachineHolds ==
    ASSUME Alone PROVE Spec => []ParkedMeansNoMachine
<1>1. TypeOK /\ Faultless => ParkedMeansNoMachine
  BY ConstAssumption
     DEF Faultless, Accounted, ParkedMeansNoMachine, ParkedPhases, RunningPhases, At, Live
<1>. QED BY <1>1, TypeCorrect, FaultlessHolds, PTL

\* handle_emergency_remove: a Machine that was ejected at its node's request is not created
\* again before the user re-enables the schedule; one replica on a fresh cache, until the first
\* fault.
THEOREM NoRejoinAfterReclaimHolds ==
    ASSUME Alone PROVE Spec => NoRejoinAfterReclaim
<1>. DEFINE P == (capi["machine"] # "live" /\ capi'["machine"] = "live" /\ faults' = 0)
                   => ~hist.ejected
<1>1. TypeOK /\ Faultless /\ [Next]_vars => [P]_vars
  <2>. SUFFICES ASSUME TypeOK, Faultless, [Next]_vars, faults' = 0 PROVE P
    OBVIOUS
  <2>0. faults = 0 /\ capi \in [Kinds -> {"none", "live", "terminating"}]
    BY ConstAssumption, NoFaultStep DEF TypeOK, Alone
  <2>1. ASSUME NEW r \in Replicas, CreateMachine(r) PROVE P
    BY <2>0, <2>1 DEF CreateMachine, Faultless, Barred, At, CreateCalls
  <2>. QED BY <2>0, <2>1, CapiChanges
           DEF CreateBootstrap, CreateInfra, DeleteMachine, DeleteBootstrap, DeleteInfra,
               CreateEffect, DeleteEffect, CapiFinishes, GarbageCollect, Kinds
<1>. QED BY <1>1, TypeCorrect, FaultlessHolds, PTL DEF Spec, NoRejoinAfterReclaim
=============================================================================
