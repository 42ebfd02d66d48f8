# 5-Spot: TLA+ models, checks and proofs

5-Spot is a Kubernetes operator. A `ScheduledMachine` object says "this physical
machine belongs to this cluster while that schedule is active"; the operator
creates a Cluster API (CAPI) Machine when the window opens, drains and deletes it
when the window closes, and gives the host back in a hurry when its owner starts
using it. Paths below are relative to the repository; `sm.rs` is
`src/reconcilers/scheduled_machine.rs` and `helpers.rs` is
`src/reconcilers/helpers.rs`.

## 1. Inventory

| Component | State | Operations | Interacts with |
|---|---|---|---|
| ScheduledMachine reconciler (`sm.rs`, `helpers.rs`) | `spec`, `status` (phase, one condition, nodeRef, spotSchedule, appliedNodeTaints), finalizer; the CAPI bootstrap, infrastructure and Machine objects; leader flag and retry counts in `Context` | `reconcile_guarded`, `reconcile_inner`, eight phase handlers, `handle_deletion`, `handle_kill_switch`, `handle_emergency_remove`, `add_machine_to_cluster`, `remove_machine_from_cluster`, `error_policy` | API server, CAPI, provider objects, Node annotations |
| Schedule resolution (`spot_schedule.rs`) | `status.spotSchedule.active` (hold-last-state) | `resolve_spot_schedule`, `verdict_from_status`, `compose_should_be_active` | provider objects |
| Node taints (`helpers.rs` 3255-3652) | Node taints, applied-taints annotation, `status.appliedNodeTaints` | `diff_node_taints`, `apply_node_taints`, `reconcile_node_taints` | Node on the child cluster, admins |
| Child-cluster clients (`child_client.rs`, `child_watch.rs`) | client cache (LRU, capped), one Node-watch task per entry | `resolve`, `build_or_get_cached`, `on_child_resolved`, `on_child_evicted` | kubeconfig Secrets, concurrent reconciles |
| Wiring (`main.rs`) | leader flag, watch caches, work queue, requeue timers | lease task, watch mappers, index reflector loop | kube-rs runtime, reconciler |
| Provider watches (`spot_schedule_watch.rs`) | reverse index (two maps), one watch task per provider kind, a bounded channel | `register`, `deregister`, `sync_watchers`, `emit_refs_for_provider` | reflector, work queue |
| Reclaim agent (`reclaim_agent.rs`, `bin/reclaim_agent.rs`, `netlink_proc.rs`) | armed configuration, ConfigMap watch, subscription and its receive thread | `already_requested`, `run_config_watcher`, `run_scanner`, `run_netlink_scanner`, `annotate_node` | ConfigMap and label written by the reconciler, host processes |
| Kata config agent (`kata_config_agent.rs`, `bin/kata_config_agent.rs`) | drop-in on the host, recorded hash, opt-in label | `reconcile_once`, `sync_content`, `restart_if_needed`, `clear_optin` | annotations written by the reconciler, host service |
| Providers (`providers/`) | `status.active` with its generation, the requeue | `is_active_at`, `next_transition`, `reconcile` | read by schedule resolution |
| Reclaim pacing (`loop_protection.rs`, `error_policy`) | reclaim history per object, retry count per object | `record_emergency_reclaim_event`, `compute_backoff_secs` | emergency reclaim |
| CRD types, metrics, health, labels, developer tools | none the control flow reads back | | |

### What is hard here

* **A reconcile is a sequence of API calls on a cached copy.** Between two calls the
  user edits, the schedule flips, the process dies or the lease moves. The copy was
  old when the reconcile began and gets older.
* **Partial failure.** Creation is three POSTs, removal three DELETEs, the emergency
  reclaim seven steps; any of them can fail or be cut short, and the retry starts
  from whatever was left.
* **External teardown.** CAPI keeps a deleted Machine for a while and takes the Node,
  with the annotations on it, when it goes.
* **Ownership by record.** Which taints are the operator's is known only from what it
  recorded, in another object and in another call than the one that wrote them.
* **Two locks.** The client cache and the table of watch tasks are changed one after
  the other, by several reconciles at once.

* **Streams that disagree.** The controller's own watch, the reflector that feeds the
  provider index, and the per-kind provider watches are separate; a gap in one swallows
  deletions, and an event can be looked up before the object it concerns is indexed.
* **Two programs and one Node.** The agents and the controller talk through labels and
  annotations that each reads at one moment and overwrites at a later one.
* **Clocks and boundaries.** Provider windows wrap over midnight and the week, in zones
  whose offset changes; the reclaim history is pruned by age and capped by length.

`PROJECT.json` lists each hazard with its line and the properties that watch it.

### What makes it correct

No CAPI object without the finalizer; no finalizer removed before the cleanup; the
grace period is honoured; the phase tells the truth about the Machine; deletion and
kill switch always end; a reclaimed host does not rejoin by itself; a schedule that
stays active (inactive) ends with (without) a Machine; the operator changes only taints
the spec asked for, records its own, and converges; the client cache sees rotations, keeps what was
used last, and agrees with the watchers; a change of a provider reaches every object that
refers to it; a reclaim request is made for a matching process, on the right Node, and
once; the Kata drop-in converges without restarting its service for ever; the published
schedule value is right until the provider looks again; the rapid-reclaim warning counts
right and no back-off exceeds its cap.

## 2. Modules

| Module | What it is |
|---|---|
| `MachineLifecycle` | one ScheduledMachine: replicas, user, provider, CAPI, node agent, faults |
| `PhaseContract` | abstract specification: what a phase promises about the Machine |
| `NodeTaints` | one Node's taints: spec, Node, record, annotation, admins, faults |
| `ChildClients` | client cache, its LRU order, the watch hooks, rotating Secrets |
| `OperatorQueue` | how a change reaches the reconciler: watches, reverse index, tasks, channel, queue, timers, leader |
| `ReclaimAgent` | the reclaim trigger of one Node: projection, DaemonSet, agent, processes |
| `KataConfig` | delivery of the Kata drop-in to one Node: controller, agent, host service |
| `SpotProvider` | a time-based or capital-markets provider: evaluation, next transition, controller |
| `ReclaimPacing` | reclaim history and retry back-off of one object, on a clock |
| `MC...` | what TLC needs beside the constants, one for each of the above but `PhaseContract` |
| `...Proofs` | theorems, one for each of the above but `PhaseContract` |

The modules meet where the code does. The schedule verdict that `MachineLifecycle` reads
is the value `SpotProvider` publishes and `OperatorQueue` carries; the reclaim request
that `MachineLifecycle` serves is what `ReclaimAgent` writes, and `ReclaimPacing` has the
clock of the attempts; `NodeTaints`, `KataConfig` and the projection of `ReclaimAgent` are
the three things the Active handler does to the Node, through a client of `ChildClients`.
Each module keeps of the others only what its own state can see of them.

Operators called `...Unguarded`, `...Early`, `...Late` and the like, marked "Mutant",
are plausible bugs of the definition that follows them. `Next` never reaches them;
they are there to show that each property can fail.

### MachineLifecycle and the code

`sm` is the object on the API server, `store[r]` the copy in the watch cache of
replica r, `rec[r]` the reconcile in flight: `pc` is the API call it makes next, `obj`
the copy it works on. Every call is one action, and the decisions between two calls
belong to the action before them:

* `Dequeue` and the four `Start...` actions are `reconcile_guarded` up to its first
  call: leader guard, deletion branch, finalizer branch, kill switch, reclaim check;
* `CheckReclaim`, `Resolve`, `PersistSpot`, `Dispatch` are `reconcile_inner`, and
  `Handle...Phase` are the phase handlers, each choosing the next call;
* `CreateBootstrap`, `CreateInfra`, `CreateMachine`, `DeleteMachine`,
  `DeleteBootstrap`, `DeleteInfra`, `Drain`, `Enrich`, `UpdatePhase`,
  `EmergencyPhase`, `DisableSchedule`, `ClearAnnotations`, `AddFinalizer`,
  `RemoveFinalizer` are the calls. A 409 on create and a 404 on delete count as
  success, as in the code;
* `CallFails` is an error of any call followed by `error_policy`; best-effort calls go
  on instead. `CleanupTimesOut` is the deletion timeout, which forces the finalizer off
  or retries (`ForceFinalizer`). `Crash` forgets the reconcile, `LeaseMoves` changes the
  leader while a reconcile runs on.

The clock is the age of the one condition that `check_grace_period_elapsed` reads,
saturated at `Grace`; `ClockStepsBack` makes it younger, or puts its start ahead of the
clock (age -1), which the code counts as elapsed. "No status yet" is phase Pending, because
every reader treats the two alike. `hist` is history, read by properties only: `ejected`
(the reclaim deleted the Machine), `forced` (the cleanup timeout let the finalizer go),
`skewed` (the clock was set back since the phase was written), `adopted` (the last creation
took the 409 of a terminating Machine for success) and `cut` (a removal for the kill switch
was cut off while the phase was Active).

### NodeTaints and the code

One action per call of `reconcile_node_taints_best_effort`: `Start` (guards, on the
cached copy), `GetNode` (first read, Ready test, plan, conflict), `RegetNode` (second
read, in `apply_node_taints`), `PatchNode` (the whole list is replaced without a
resourceVersion, the annotation with it), `PatchStatus` (the record). A taint is a
(key, effect) identity and a value. The author of each taint on the Node (`by`), `touched`
(the taints somebody else changed since the first read), `asked` (the values the spec has
ever declared) and `clean` (no fault, no reconcile started from an old record) are history.
The deletion and kill-switch guards of the
function cannot fire, since `reconcile_guarded` branched on the same object before,
and are left out.

### ChildClients and the code

One action per stretch of `build_or_get_cached` that runs without an await or under
one lock: `GetSecret`, `Lookup`, `Insert`, then the three hook calls `EvictOther`,
`EvictSame`, `Spawn`, which take the lock of the watch manager. A client is known by the
resourceVersion of the Secret it was built from. `later` is the order of
the `last_used` stamps: for each entry, the entries used since; two uses at the same
instant are ordered. `peek` and `evict` are called by tests only.

### OperatorQueue and the code

`ownq` and `ixq` are the two streams over ScheduledMachines that each replica has: the
controller's own watch and the reflector of `main.rs`. `Observe` is the reflector loop
with `register`, `deregister` and `sync_watchers` under their locks; `Gap` drops a stream's
events and relists, and since the loop ignores Init and InitDone a deletion in the gap is
lost. `Discover` and `StreamEnds` are the life of a watch task, `Emit` the lookup in the
index and `Send` one send of the list it found, which waits for room in the channel.
`Receive`, `OwnEvent` and `Timer` put an object into the queue, `Begin` takes it out and
copies it, `Reconcile` ends the reconcile and requeues. A standby that dequeues an object
drops it (`await_change`). What a reconcile does is one read of the provider here.

### ReclaimAgent and the code

`Provision`, `PatchLabel`, `PutMap` are `provision_reclaim_agent_best_effort` and what it
calls; `Land`, `Evict`, `Respawn` the DaemonSet; `Start` the check of `already_requested`;
`WatchEvent`, `WatchGap`, `Relist` the ConfigMap watch with its `watch::channel`; `Idle`,
`Wake`, `Scan` the polling detector; `Subscribe`, `Receive`, `Resubscribe` the netlink
detector, whose blocking receive thread lives on when its JoinHandle is dropped
(`orphans`); `Check` and `Annotate` the two calls of `annotate_node`. A configuration is
one command.

### KataConfig and the code

`Deliver`, `Probe`, `Stamp`, `Clear` are `reconcile_kata_config_delivery`; `ReadNode`,
`Fetch`, `Sync`, `Record`, `Restart` the agent's tick with a reference; `Unlink`,
`ClearOptin` the tick without one; `Schedule` the DaemonSet, which follows the label. The
record is patched before the restart, and the restart is decided on the record read at the
start of the tick. A content stands for its hash.

### SpotProvider and the code

`Span` is `parse_day_ranges` and `parse_hour_ranges`, `IsActive` the two `is_active_at`,
`NextTransition` the scan over whole UTC hours up to the horizon, `Reconcile` and
`PatchStatus` the controller before and after its status patch, which always changes the
object (lastTransitionTime) and so triggers its own watch. `Evaluates` says at which
instants `is_active_at` returns a value: a market with a session that does not parse still
does on a holiday and within an earlier session. `Computes` says when the whole scan does.
The requeue is a delay computed before the patch and counted from after it; `late`
(history) is the difference. `error_policy` requeues within the tick. A time zone is two
offsets and the instant of the change.

### ReclaimPacing and the code

`Pruned`, `Capped`, `Recorded`, `Breach` are `loop_protection.rs`; `Backoff` and `Retry` are
`compute_backoff_secs` and `error_policy`. An attempt is one call of
`handle_emergency_remove`: it ends well (`Serve`), fails before it is recorded
(`PhaseFails`) or after (`StepFails`). A due attempt is made within its tick. `log` (all
attempts), `opened` and `failed` (when the open request was made, how often its phase patch
has failed) are history.

## 3. Runs

| Run | Bounds | Checks |
|---|---|---|
| `lifecycle` | 1 replica, every edit, agent, asynchronous teardown, both finalizer modes, 1 fault (a clock set back included), fairness | `GraceRespected`, `CleanupBeforeFinalizer`, `DisabledBeforeCleared`, `NoRejoinAfterReclaim`, `ActiveMeansMachine`, `ParkedMeansNoMachine`, `ImplementsContract`, `DeletionEnds`, `KillSwitchEnds`, `RunsWhenActive`, `ShutsDownWhenInactive` |
| `lifecycle_replicas` | 2 replicas with lagging caches, deletion, 2 faults | `FinalizerFirst` |
| `taints` | 2 identities, 2 values, 4 edits, 1 fault, fairness | `AppliedMeansPresent`, `OursAreRecorded`, `OwnTaintsOnly`, `Converges` |
| `child_clients` | 2 callers, 3 Secrets, room for 2, 4 Secret writes | `LockStep`, `Rotated`, `RecentSurvives` |
| `operator_queue` | 1 replica, 1 object, 3 providers of 2 kinds, room for 1, 2 edits, 1 fault, fairness | `IndexSound`, `IndexTracks`, `NoLostWakeup`, `Settles` |
| `kata_config` | 2 contents, 3 edits, 2 faults, fairness | `CleanBeforeDeschedule`, `RecordedIsLoaded`, `Converges`, `NoRestartLoop` |
| `reclaim_agent` | 2 commands, 2 edits, 1 process start, 1 fault, fairness | `NoOverwrite`, `ArmedTracks`, `OwnNodeOnly`, `BadEditKeepsArmed`, `Provisioned`, `PollDetects`, `NetlinkDetects`, `Exits` |
| `spot_provider` | 6 specifications, days of 4 hours and weeks of 2 days in half-hour ticks, 20 ticks, patches of up to 1 tick, 1 edit, 1 fault, fairness | `Covered`, `RangesWrap`, `Corrects` |
| `reclaim_pacing` | window 4, threshold 3, cap 4, back-off 1 to 5, 9 ticks, 4 requests, 3 faults | `WarnExact`, `ServedInTime` |
| `docs_error_recovers` | no agent, no edit but the schedule's, 1 fault, fairness | `ErrorRecovers`, which the code does not keep (section 4) |
| `docs_active_runs` | the same, asynchronous teardown, no fault | `ActiveRuns`, which the code does not keep |
| `docs_poll_loop` | 1 specification, no edit, no fault | `NotAPollLoop`, which the code does not keep |

The type invariants are not among the invariants of the runs: section 5 proves them.

**Why the bounds are enough.** The lifecycle has one object because reconciles of
different objects share no state but the client cache. A grace period of one tick
separates "not yet" from "over"; edits and flips are unbounded, so windows open and
close any number of times; the teardown of one Machine overlaps the next window. One fault
reaches every "this call failed, everything else
worked" case; two faults let the lease move and a process die in the same history. Two
identities are the least for "this taint is ours and that one is not", two values
for "same identity, other value"; four edits allow declare, admin edit, change, drop.
Three Secrets and room for two make the cache evict, and the fourth write rotates a
Secret after that. Three providers of two kinds let a change of reference keep or change
the watch task; two edits are a change of reference and a change of a provider, in
either order, around one gap, ended stream, lost lease or restart; replicas do not touch
each other's queues, so one is enough. Two contents and three edits allow opt in, change
and opt out with a failure at any two calls. In the agent two commands tell "armed with
the old one" from "armed with the new one". The provider runs for more than one of its
weeks, with windows over midnight and over the week's end, holidays longer than the
horizon, an early close, a change of offset in the middle, in a zone of whole hours and in
a half-hour zone, and a calendar of which only some days parse. The cap of the reclaim
history is reached by four attempts within the window and the window is left again by
tick nine; three failures take the retry count past the point where the cap of the back-off
applies.

**Fairness.** A reconcile goes on and is started again: every handler requeues with a
timer and `error_policy` requeues after an error, with a capped delay. Watches deliver and
reconnect in the end. Time passes, and the provider's patch ends; CAPI and the garbage collector finish what they began.
For taints, the Active requeue and the Node watch restart the taint reconcile. The agents
poll or wait on a timer, the DaemonSet follows the label, a free lease is acquired.
Nothing is assumed of users, admins, host processes, or of faults.

`reclaim_pacing` has no fairness; there a due attempt stops the clock, since an attempt
takes less than a tick.

**Deadlock** is checked for the client cache, the provider and the reclaim agent. In the
other runs an object that is gone, edits that are used up or the end of the modelled time
rightly end a behaviour.

## 4. Where documentation and code differ

`docs_error_recovers`: the text says "Error → Pending (after retry backoff, up to 5 min
max)" (machine-lifecycle.md:163), and the header of sm.rs says the same (line 19). No
handler leaves phase Error; one failed creation parks the object for good.

`docs_active_runs`: the text says of phase Active "Machine is running in cluster"
(machine-lifecycle.md:37). CAPI tears Machines down asynchronously (helpers.rs:1646); a
window that opens meanwhile creates the Machine again, takes the 409 of the old one for
success (helpers.rs:1574) and reports Active. Then the old Machine goes, `handle_active_phase`
only logs that there is none (sm.rs:985), and nothing re-creates it while the window lasts.

`docs_poll_loop`: the headers of both providers say "Event-driven, single timed requeue (not
a poll loop)", "requeues exactly once at that boundary" and "There is no fixed polling
interval" (time_based.rs:12-17, capital_markets.rs:12-19). Every status patch carries the
current time as the condition's lastTransitionTime (time_based.rs:178) and the controller
watches the object without a filter, so each reconcile starts the next one.

Limits found with the same models. Each is a condition, or a history variable, of a
property that holds:

* *Lifecycle.* `ActiveMeansMachine` and `RunsWhenActive` hold with asynchronous teardown but
  for two cases. One is that of `docs_active_runs` (`adopted`), which `PhaseContract` allows
  as well. The other is a removal for the kill switch that fails or is cut off after the
  Machine's deletion, when the switch is then taken back: the phase is still Active and
  nothing re-creates the Machine (`cut`). After an interrupted creation the object can be
  Terminated or Inactive while a Machine runs, and its bootstrap and infrastructure objects,
  which carry no ownerReference, can outlive it; hence `ParkedMeansNoMachine` and
  `ShutsDownWhenInactive` speak of the time before the first fault. The grace period delays
  only reason GracePeriodActive: a disabled machine is drained at the next reconcile
  (sm.rs:908 says otherwise). It is cut short if the clock is set back behind its start:
  a negative elapsed time counts as elapsed (helpers.rs:555-563, `skewed`). A crash between
  the Machine's deletion and the disabling of the schedule lets the host rejoin, since CAPI
  removes the Node with the annotation on it (helpers.rs:2548 says the step is replayed);
  hence `NoRejoinAfterReclaim` speaks of the time before the first fault.
  `handle_terminated_phase` calls Terminated terminal; an emergency reclaim leaves it. With
  caches that lag (`StaleReads`), `GraceRespected` and `CleanupBeforeFinalizer` can fail: the
  decision is made on a copy from before the window reopened, or from before Active.
* *Taints.* An admin's taint that equals a declared one is taken over, recorded as the
  operator's, and removed when the declaration goes. scheduled-machine.md:170 and :193
  promise a conflict and no removal for an admin's taint with the same key and effect, and
  examples/scheduledmachine-tainted.yaml:5-6 says admin taints are left untouched; the code
  reports a conflict only when the values differ. `OwnTaintsOnly` therefore compares with
  what the spec has asked for (`asked`) and not with who wrote the taint. A taint that
  changes between the first read and the patch is judged by the old plan or overwritten; the
  properties hold for all the others (`touched`). The operator's own taint is foreign to it
  if the status patch is lost, or if a reconcile starts from an old copy and the spec changed
  in between (`clean`).
* *Clients.* Hooks of two calls can run in the other order than their inserts, and then
  the watcher keeps the old client until the next rotation (`solo`). A stale insert can
  put an older client over a newer one; the next call notices. A deleted Secret leaves its
  client and its watcher in place. The cache key leaves out the data key of the reference.
* *Queue.* A standby that dequeues an object forgets it, and nothing enqueues it when the
  lease is acquired; it takes an event or the first reconcile's timer. A provider event
  that is looked up before its object is indexed is lost, and the timer repairs it. An
  object deleted in a watch gap stays in the index and keeps a watch task alive
  (`missed`).
* *Reclaim agent.* Every change of the configuration abandons a receive thread, and the
  process cannot end while one waits (`rearmed`). The netlink detector hears each exec
  once: a match lost to a configuration change or a failed call is not found again
  (`dropped`). A ConfigMap deleted while the watch is down leaves the agent armed
  (`missed`). The identity check and the patch are two calls (`raced`).
* *Kata.* A restart that fails after its record is never retried, and a reboot between
  write and record loads a file the record does not name (`lapse`). An opt-in that crosses
  the tear-down can leave the file without a label (`crossed`). The tear-down does not
  restart the service.
* *Providers.* A specification that no longer parses keeps the old status, and one that
  parses now but meets an hour that does not within the scan is not published either. The
  requeue is late by the time the status patch took (`late`). time_based.rs:22-24 bounds the
  delay of a requeue for zones of whole hours; in a zone with a fractional offset, of which
  it says nothing, the value can be wrong for less than an hour before the requeue
  (`WholeHours`). Where the offset itself changes by half an hour (Lord Howe), the cut-short
  hour of that night can fall between two candidates and a window for it is missed; the
  models have no such zone.
* *Pacing.* A replay of a failed emergency flow is recorded again, so the warning counts
  attempts and not flows. The back-off after a failed step is overtaken by the watch event
  of the phase patch. The first failure already waits for the doubled base delay, where
  helpers.rs:2257 says ERROR_REQUEUE_SECS: the count is raised before the delay is computed.

## 5. Proofs

All theorems hold for every value of the constants under the named assumptions of the
modules: there is a replica and `Absent`, `NoKey`, `NoRef` and the reserved strings are
none of the values they stand beside; bounds are naturals, capacities and periods
positive; the fallback requeue of a provider lies within its horizon; the cap of the
reclaim history is at least the threshold; the ends of day and hour ranges are days of the
week and hours of the day (`parse_day_ranges` and `parse_hour_ranges` refuse others).
Hypotheses beyond these are part of the theorem and named below. Every safety property
that a run checks is stated by a theorem.

* **Lifecycle**: `TypeCorrect`, `FinalizerHeldHolds`, `FinalizerFirstHolds`. `FinalizerFirst`
  is not inductive: a creation about to be sent, or decided on a cached copy, breaks it
  later. `FinalizerHeld` adds that every reconcile that may still create works for an
  object that has the finalizer or is being deleted, that a cached copy which shows
  either is right about that however old it is, and that only a reconcile which saw the
  deletion removes the finalizer. The key lemma, `HeldStays`, is that "finalizer or
  deleting" never becomes false. The theorem covers any number of replicas, stale
  caches, crashes and lease changes.
* **Lifecycle of a lone operator**: `Single` says that one replica runs (it may crash and
  restart), `Alone` that it also decides on fresh copies. `OrderHolds` is the inductive
  invariant: for every place of a pass it says what the pass has done so far. The object
  is there and holds its finalizer (`Present`); up to the branch the copy agrees with the
  API server about phase, reason and age (`Copied`); a removal is where its flow may be,
  with the grace period over if it is a shutdown (`Staged`); what it has passed is gone
  (`Removed`); a creation follows from Pending (`Requested`, `Created`); and a phase about to
  be written is one the objects justify (`Reported`). It gives
  * `GraceRespectedHolds` and `CleanupBeforeFinalizerHolds`, with any faults and a clock
    that may be set back at any time;
  * `ImplementsContractHolds`, with asynchronous teardown or without: every step maps to a
    step of `PhaseContract` or a stutter, faults included;
  * `ActiveMeansMachineHolds`, with asynchronous teardown, any faults and any use of the kill
    switch, through `Running`: while Active stands, its Machine is there or a removal for the
    kill switch is under way;
  * `ParkedMeansNoMachineHolds` and `NoRejoinAfterReclaimHolds`, up to the first fault, through
    `FaultlessHolds`: the phase or the pass accounts for each Machine, and after an ejection
    nobody works on an enabled copy.

  `DisabledBeforeClearedHolds` needs `Single` alone: a stale copy cannot hurt, because the
  pass that clears has itself disabled the schedule (`Withdrawal`).

  `Alone` and `Single` are the only hypotheses; the exceptions of section 4 are written in
  the properties. TLC refutes each theorem without its own: a deposed leader goes on with the
  pass it is in; a copy from before the window reopened shuts a machine down too early; a
  Machine that is still terminating answers a create with 409; a kill switch taken back
  after a cut-off removal leaves Active without a Machine; an answer lost on create parks a
  running Machine; a crash between ejection and disabling lets the host rejoin.
* **Taints**: `TaintTypes`, `AppliedIsPresent`, `OnlyOwnTaints`, `OursRecorded`, `OursListed`.
  `AppliedIsPresent` rests on `PlanCurrent`: the plan was made for a list that agrees with
  the Node on every taint nobody else has touched since, and so does the second read.
  `OnlyOwnTaints` adds `Asked`: every declaration and every record, on the API server, in the
  cache and in the reconcile, holds only values the spec has declared. The last two rest on
  `Ledger`: at each step of a
  clean reconcile, what the operator has on the Node is in the record, or in the plan
  about to be applied, or in the record about to be written.
* **Clients**: `LockStepHolds` rests on `LedgerInv`: while one call is in its hooks, the
  task table with that call's remaining hooks applied equals the cache. `RotatedHolds`
  rests on `ReadInv`: versions only grow and a call reads its Secret after it began.
  `RecentSurvivesHolds` rests on `Newest` (nothing was used after the key served last) and
  `Numbered` (a Secret that can be read has a resourceVersion): the victim is older than
  every other entry, so the key served last is one only if it is alone, below capacity.
  `ChildTypes` is type correctness.
* **Queue**: `QueueTypes`, `IndexSoundHolds`, `IndexTracksHolds`, `NoLostWakeupHolds`. The first is proved together
  with `IndexInv` (the two maps agree), because removing an object from the first map
  goes by the second; `WatchInv` adds the watch tasks. `IndexTracks` is inductive by
  itself: it already speaks of the last undelivered event of each stream. `NoLostWakeup`
  is not: the lookup that turns a provider's event into wake-ups goes by the index, which
  the reflector may change under it. `Wakeful` adds that the controller's copy is current
  once its events are delivered, and that an object read through the index, with nothing of
  its own under way, is indexed under the provider it refers to and stays so when the
  reflector lists again.
* **Reclaim agent**: `AgentTypes`, `NoOverwriteHolds`, `OwnNodeOnlyHolds`, `ArmedTracksHolds`,
  `BadEditKeepsArmedHolds`.
  Types need `Subscribed` (a receive thread waits for a command, never for "none").
  `NoOverwrite` is inductive over the types. `OwnInv` adds that an agent about to patch has
  compared the machine id, `ArmedInv` that the channel holds what the watch delivered last.
* **Kata**: `KataTypes`, `CleanBeforeDescheduleHolds`, `RecordedIsLoadedHolds`. `CleanInv`: an
  agent that tears down found no reference and none has come since, it reaches the patch
  of the label with a clean host, and without the label nothing but a tear-down runs.
  `LoadedInv`: a record that is not waiting for its restart is what the service loaded,
  whatever is on the host by now.
* **Providers**: `ProviderTypes`, `CoveredHolds`, `WholeHoursCovered`, `RangesWrapHolds`. The
  argument for `Covered` has an arithmetic half and an inductive half. In a zone whose
  offset changes by whole hours at a whole local hour, if at all (`LocalHours`: every zone of
  whole hours, and those of India, Nepal or Adelaide), `IsActive` is constant within a local
  hour (`SameLocalHour`), and each instant has the local hour of the start or of the end of
  its UTC hour (`Neighbours`). In a zone of whole hours a first flip between two candidates
  would be one at a candidate, so the value found at t0 is right until the requeue, by the
  flip found or by the fallback (`Steady`). Otherwise a flip inside a UTC hour is seen at its
  end, which is the requeue, less than an hour later (`NearlySteady`). `CoverInv` carries that
  from the reconcile over the patch, and past the time the patch took, to the published
  status, and says that generations only lag and that one that does not stands for the
  current specification. `RangesWrap` is
  arithmetic of remainders (`CircleMod`, `RangeWraps`, `SpanWraps`).
* **Pacing**: `PacingTypes`, `WarnExactHolds`, `ServedInTimeHolds`. `PaceInv`: the log is in order, the history is
  its end, all of it recent, and it is shorter than the cap only if everything it lacks
  is older than the window. With the threshold at most the cap, the count over the log
  and the length of the history then agree about the threshold. `ServedInTime` needs
  `WaitInv`, that the next attempt too is due within the bound.

Only model-checked: the liveness properties `DeletionEnds`, `KillSwitchEnds`,
`RunsWhenActive`, `ShutsDownWhenInactive`, `Converges`, `NoRestartLoop`, `Settles`,
`Provisioned`, `PollDetects`, `NetlinkDetects`, `Exits` and `Corrects`. Liveness under
fairness is outside what the prover supports.

## 6. Plan

Done: every component whose control flow has state, as listed in section 2.

Further theorems: what more than one replica still guarantees of the order of calls,
beyond `FinalizerFirst`.

Further modelling: the drain in detail (cordon, pod filter, eviction with 429, timeout) in
place of the one call `Drain`.

## 7. Not modelled

* Input validation and the admission policies: an object that fails validation is rejected
  before the phases matter; `validate_node_taints` is used as the domain of the taint lists.
* The drain pod by pod: the lifecycle sees only that it ends, fails or is cut off, and goes
  on in each case.
* Rendering of the CAPI objects, agent manifests and TOML: data nobody branches on.
* Server-side-apply bookkeeping and managed fields of the API server.
* The data key of a kubeconfig reference: the cache key leaves it out, and the model has
  one data key per Secret.
* What a Node watcher does with an event, and the Machine and Node mappers of `main.rs`:
  they enqueue objects that their timers enqueue as well.
* The second cluster: `check_emergency_reclaim` reads the Node with the management client,
  and the models have one cluster.
* `parse_duration` and sharding: a bounded multiplication, and a test that is fixed for
  an object and an instance.
* The bytes of netlink frames: a frame is heard or lost. `--oneshot` and
  `--skip-host-id-check` of the reclaim agent.
* Metrics, health endpoints, labels, events, CRD generation and the developer tools under
  `src/bin`: no state of the control flow depends on them.
