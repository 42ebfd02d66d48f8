------------------------------ MODULE OperatorQueue ------------------------------
(***************************************************************************)
(* How a change reaches the reconciler: the wiring of main.rs, the reverse *)
(* index and the per-kind watch tasks of spot_schedule_watch.rs, the work  *)
(* queue of the controller, and the leader guard at the head of            *)
(* reconcile_guarded.                                                      *)
(*                                                                         *)
(* Every replica runs all of it.  The controller's own watch and the       *)
(* reflector that feeds the index are two streams over the same objects,   *)
(* and one can be ahead of the other.  What a reconcile does is left to    *)
(* MachineLifecycle; here it reads the provider and remembers the verdict. *)
(***************************************************************************)
EXTENDS Naturals, Sequences, FiniteSets

CONSTANTS
    Replicas,    \* operator processes
    SMs,         \* names of ScheduledMachines
    Providers,   \* provider objects: (gvk, namespace, name)
    Kinds,       \* their GVKs
    KindOf,      \* the GVK of each provider
    NoRef,       \* no provider: the ScheduledMachine does not exist
    Cap,         \* SPOT_SCHEDULE_EVENT_CHANNEL_CAP
    Election,    \* ENABLE_LEADER_ELECTION
    MaxEdits,    \* bound on writes of users and providers
    MaxFaults    \* bound on watch gaps, ended streams, errors, restarts, lost leases

ASSUME QueueAssumption ==
    /\ KindOf \in [Providers -> Kinds]
    /\ NoRef \notin Providers
    /\ Cap \in Nat \ {0}
    /\ Election \in BOOLEAN
    /\ MaxEdits \in Nat /\ MaxFaults \in Nat

VARIABLES
    ref,      \* spec.schedule of each ScheduledMachine
    val,      \* status.active of each provider
    leader,   \* the replicas whose is_leader flag is set
    store,    \* the controller's cache of ScheduledMachines
    ownq,     \* events the controller's own watch has not delivered
    ixq,      \* events the index's reflector has not delivered
    index,    \* ReverseIndex
    watch,    \* the per-kind watch tasks
    due,      \* provider events the tasks have not handled
    sending,  \* references a task has looked up and not sent
    chan,     \* the channel into Controller::reconcile_on
    wake,     \* the controller's scheduler
    run,      \* reconciles in flight: the provider of the copy each works on
    got,      \* the verdict each replica acted on last
    read,     \* history: how that verdict was read
    missed,   \* history: deletions a watch gap swallowed
    edits, faults

cluster == <<ref, val, edits>>
streams == <<store, ownq, ixq, index, watch, due, sending, missed>>
works == <<chan, wake, run, got, read>>
vars == <<cluster, streams, works, leader, faults>>

Refs == Providers \cup {NoRef}
Values == {"absent", "inactive", "active"}

\* refs has an entry for each provider in keys; key is sm_key.
Indexes == [refs : [Providers -> SUBSET SMs], keys : SUBSET Providers,
            key : [SMs -> Refs]]

TypeOK ==
    /\ ref \in [SMs -> Refs]
    /\ val \in [Providers -> Values]
    /\ leader \in SUBSET Replicas
    /\ store \in [Replicas -> [SMs -> Refs]]
    /\ ownq \in [Replicas -> [SMs -> Seq(Refs)]]
    /\ ixq \in [Replicas -> [SMs -> Seq(Refs)]]
    /\ index \in [Replicas -> Indexes]
    /\ watch \in [Replicas -> [Kinds -> {"none", "resolving", "watching"}]]
    /\ due \in [Replicas -> SUBSET Providers]
    /\ sending \in [Replicas -> [Kinds -> SUBSET SMs]]
    /\ chan \in [Replicas -> Seq(SMs)] /\ \A r \in Replicas : Len(chan[r]) <= Cap
    /\ wake \in [Replicas -> [SMs -> {"none", "later", "now"}]]
    /\ run \in [Replicas -> [SMs -> Refs]]
    /\ got \in [Replicas -> [SMs -> Values]]
    /\ read \in [Replicas -> [SMs -> {"no", "early", "indexed"}]]
    /\ missed \in [Replicas -> SUBSET SMs]
    /\ edits \in Nat /\ faults \in Nat

PerSM(x) == [r \in Replicas |-> [s \in SMs |-> x]]
NoIndex == [refs |-> [p \in Providers |-> {}], keys |-> {}, key |-> [s \in SMs |-> NoRef]]

\* A watch begins with a list of what is there.
Listing == [s \in SMs |-> IF ref[s] = NoRef THEN <<>> ELSE <<ref[s]>>]

\* The operator starts on a cluster that may already hold objects.
Init ==
    /\ ref \in [SMs -> Refs]
    /\ val = [p \in Providers |-> "inactive"]
    /\ leader = IF Election THEN {} ELSE Replicas
    /\ store = PerSM(NoRef)
    /\ ownq = [r \in Replicas |-> Listing] /\ ixq = ownq
    /\ index = [r \in Replicas |-> NoIndex]
    /\ watch = [r \in Replicas |-> [k \in Kinds |-> "none"]]
    /\ due = [r \in Replicas |-> {}]
    /\ sending = [r \in Replicas |-> [k \in Kinds |-> {}]]
    /\ chan = [r \in Replicas |-> <<>>]
    /\ wake = PerSM("none") /\ run = PerSM(NoRef)
    /\ got = PerSM("absent") /\ read = PerSM("no")
    /\ missed = [r \in Replicas |-> {}]
    /\ edits = 0 /\ faults = 0

Fault == faults < MaxFaults /\ faults' = faults + 1

---------------------------------------------------------------------------
(* Users and providers *)

\* Create, point at another provider, or delete; both streams carry the event.
EditSM(s, p) ==
    /\ edits < MaxEdits /\ edits' = edits + 1
    /\ p # ref[s]
    /\ ref' = [ref EXCEPT ![s] = p]
    /\ ownq' = [r \in Replicas |-> [ownq[r] EXCEPT ![s] = Append(@, p)]]
    /\ ixq' = [r \in Replicas |-> [ixq[r] EXCEPT ![s] = Append(@, p)]]
    /\ missed' = [r \in Replicas |-> missed[r] \ {s}]
    /\ UNCHANGED <<val, store, index, watch, due, sending, works, leader, faults>>

\* Only a task that watches the kind sees the event; one that starts later lists.
EditProvider(p, v) ==
    /\ edits < MaxEdits /\ edits' = edits + 1
    /\ v # val[p]
    /\ val' = [val EXCEPT ![p] = v]
    /\ due' = [r \in Replicas |-> IF watch[r][KindOf[p]] = "watching" THEN due[r] \cup {p}
                                                                      ELSE due[r]]
    /\ UNCHANGED <<ref, store, ownq, ixq, index, watch, sending, missed, works, leader, faults>>

---------------------------------------------------------------------------
(* The index and its watch tasks *)

\* Mutant: an entry that became empty stays.
RemoveFromRefsKeep(ix, s, p) == [ix EXCEPT !.refs[p] = @ \ {s}]

RemoveFromRefs(ix, s, p) ==
    LET left == ix.refs[p] \ {s}
    IN  [ix EXCEPT !.refs[p] = left, !.keys = IF left = {} THEN @ \ {p} ELSE @]

Registered(ix, s, p) ==
    LET old == ix.key[s]
        cleared == IF old \in Providers /\ old # p THEN RemoveFromRefs(ix, s, old) ELSE ix
    IN  [cleared EXCEPT !.key[s] = p, !.refs[p] = @ \cup {s}, !.keys = @ \cup {p}]

Deregistered(ix, s) ==
    LET old == ix.key[s]
    IN  IF old = NoRef THEN ix ELSE RemoveFromRefs([ix EXCEPT !.key[s] = NoRef], s, old)

ReferencedKinds(ix) == {KindOf[p] : p \in ix.keys}

\* Abort the tasks of kinds no longer referenced, spawn those of new ones.
SyncWatchers(r, ix) ==
    LET desired == ReferencedKinds(ix)
    IN  /\ watch' = [watch EXCEPT ![r] = [k \in Kinds |->
               IF k \notin desired THEN "none"
               ELSE IF watch[r][k] = "none" THEN "resolving" ELSE watch[r][k]]]
        /\ due' = [due EXCEPT ![r] = {p \in due[r] : KindOf[p] \in desired}]
        /\ sending' = [sending EXCEPT ![r] = [k \in Kinds |->
               IF k \in desired THEN sending[r][k] ELSE {}]]

\* Mutant: deletions are ignored.
AppliedOnly(ix, s, p) == IF p = NoRef THEN ix ELSE Registered(ix, s, p)

Applied(ix, s, p) == IF p = NoRef THEN Deregistered(ix, s) ELSE Registered(ix, s, p)

\* observe_scheduled_machine, or forget_scheduled_machine for a deletion.
Observe(r, s) ==
    /\ ixq[r][s] # <<>>
    /\ ixq' = [ixq EXCEPT ![r][s] = Tail(@)]
    /\ LET ix == Applied(index[r], s, Head(ixq[r][s]))
       IN  index' = [index EXCEPT ![r] = ix] /\ SyncWatchers(r, ix)
    /\ UNCHANGED <<cluster, store, ownq, missed, works, leader, faults>>

\* The reflector lists again: Init and InitDone are ignored, so what was deleted
\* since its last event is never forgotten.
Gap(r) ==
    /\ Fault
    /\ ixq' = [ixq EXCEPT ![r] = Listing]
    /\ missed' = [missed EXCEPT ![r] =
           @ \cup {s \in SMs : ref[s] = NoRef /\ index[r].key[s] # NoRef}]
    /\ UNCHANGED <<cluster, store, ownq, index, watch, due, sending, works, leader>>

OfKind(k) == {p \in Providers : KindOf[p] = k}

\* Mutant: the objects of the list are not passed on.
ListedSkipped(r, k) == due[r] \ OfKind(k)

\* InitApply of everything there; what was deleted in between is not mentioned.
Listed(r, k) == (due[r] \ OfKind(k)) \cup {p \in OfKind(k) : val[p] # "absent"}

\* pinned_kind succeeds; until then the task retries.
Discover(r, k) ==
    /\ watch[r][k] = "resolving"
    /\ watch' = [watch EXCEPT ![r][k] = "watching"]
    /\ due' = [due EXCEPT ![r] = Listed(r, k)]
    /\ UNCHANGED <<cluster, store, ownq, ixq, index, sending, missed, works, leader, faults>>

\* The stream of a task ends, or reconnects and lists again.
StreamEnds(r, k) ==
    /\ Fault
    /\ watch[r][k] = "watching" /\ sending[r][k] = {}
    /\ \/ watch' = [watch EXCEPT ![r][k] = "resolving"] /\ due' = [due EXCEPT ![r] = @ \ OfKind(k)]
       \/ due' = [due EXCEPT ![r] = Listed(r, k)] /\ UNCHANGED watch
    /\ UNCHANGED <<cluster, store, ownq, ixq, index, sending, missed, works, leader>>

\* emit_refs_for_provider: look the object up, then send one reference at a time,
\* waiting while the channel is full.
Emit(r, p) ==
    /\ p \in due[r] /\ sending[r][KindOf[p]] = {}
    /\ due' = [due EXCEPT ![r] = @ \ {p}]
    /\ sending' = [sending EXCEPT ![r][KindOf[p]] = index[r].refs[p]]
    /\ UNCHANGED <<cluster, store, ownq, ixq, index, watch, missed, works, leader, faults>>

Room(r) == Len(chan[r]) < Cap

Send(r, k, s) ==
    /\ s \in sending[r][k] /\ Room(r)
    /\ chan' = [chan EXCEPT ![r] = Append(@, s)]
    /\ sending' = [sending EXCEPT ![r][k] = @ \ {s}]
    /\ UNCHANGED <<cluster, store, ownq, ixq, index, watch, due, missed,
                   wake, run, got, read, leader, faults>>

---------------------------------------------------------------------------
(* The controller: one scheduled entry for an object, the earlier one wins *)

Wake(r, s) == wake' = [wake EXCEPT ![r][s] = "now"]

\* The controller's own watch: the cache, then the queue; a deletion wakes nobody.
OwnEvent(r, s) ==
    /\ ownq[r][s] # <<>>
    /\ ownq' = [ownq EXCEPT ![r][s] = Tail(@)]
    /\ store' = [store EXCEPT ![r][s] = Head(ownq[r][s])]
    /\ IF Head(ownq[r][s]) = NoRef THEN UNCHANGED wake ELSE Wake(r, s)
    /\ UNCHANGED <<cluster, ixq, index, watch, due, sending, missed,
                   chan, run, got, read, leader, faults>>

Receive(r) ==
    /\ chan[r] # <<>>
    /\ chan' = [chan EXCEPT ![r] = Tail(@)]
    /\ Wake(r, Head(chan[r]))
    /\ UNCHANGED <<cluster, streams, run, got, read, leader, faults>>

Timer(r, s) ==
    /\ wake[r][s] = "later"
    /\ Wake(r, s)
    /\ UNCHANGED <<cluster, streams, chan, run, got, read, leader, faults>>

\* An object that is gone from the cache is dropped, a standby drops every object
\* (await_change), and one that is being reconciled waits.
Begin(r, s) ==
    /\ wake[r][s] = "now" /\ run[r][s] = NoRef
    /\ wake' = [wake EXCEPT ![r][s] = "none"]
    /\ \/ /\ r \in leader
          /\ run' = [run EXCEPT ![r][s] = store[r][s]]
          /\ UNCHANGED read
       \/ /\ r \notin leader
          /\ read' = [read EXCEPT ![r][s] = "no"]
          /\ UNCHANGED run
    /\ UNCHANGED <<cluster, streams, chan, got, leader, faults>>

\* Mutant: await_change in place of a timer.
RequeueNever(r, s) == UNCHANGED wake

\* Action::requeue, of the phase handlers and of error_policy.
Requeue(r, s) == wake' = [wake EXCEPT ![r][s] = IF @ = "none" THEN "later" ELSE @]

\* The verdict is held while the provider is not there.
Reconcile(r, s) ==
    /\ run[r][s] # NoRef
    /\ LET p == run[r][s]
       IN  /\ got' = IF val[p] = "absent" THEN got ELSE [got EXCEPT ![r][s] = val[p]]
           /\ read' = [read EXCEPT ![r][s] =
                  IF index[r].key[s] = p /\ ixq[r][s] = <<>> THEN "indexed" ELSE "early"]
    /\ run' = [run EXCEPT ![r][s] = NoRef]
    /\ Requeue(r, s)
    /\ UNCHANGED <<cluster, streams, chan, leader, faults>>

ReconcileFails(r, s) ==
    /\ Fault
    /\ run[r][s] # NoRef
    /\ run' = [run EXCEPT ![r][s] = NoRef]
    /\ read' = [read EXCEPT ![r][s] = "early"]
    /\ Requeue(r, s)
    /\ UNCHANGED <<cluster, streams, chan, got, leader>>

---------------------------------------------------------------------------
(* Leadership and restarts *)

Acquire(r) ==
    /\ Election /\ leader = {}
    /\ leader' = {r}
    /\ UNCHANGED <<cluster, streams, works, faults>>

Lose(r) ==
    /\ Fault /\ Election /\ r \in leader
    /\ leader' = leader \ {r}
    /\ UNCHANGED <<cluster, streams, works>>

\* Everything is rebuilt from the initial lists.
Restart(r) ==
    /\ Fault
    /\ leader' = IF Election THEN leader \ {r} ELSE leader
    /\ store' = [store EXCEPT ![r] = [s \in SMs |-> NoRef]]
    /\ ownq' = [ownq EXCEPT ![r] = Listing]
    /\ ixq' = [ixq EXCEPT ![r] = Listing]
    /\ index' = [index EXCEPT ![r] = NoIndex]
    /\ watch' = [watch EXCEPT ![r] = [k \in Kinds |-> "none"]]
    /\ due' = [due EXCEPT ![r] = {}]
    /\ sending' = [sending EXCEPT ![r] = [k \in Kinds |-> {}]]
    /\ missed' = [missed EXCEPT ![r] = {}]
    /\ chan' = [chan EXCEPT ![r] = <<>>]
    /\ wake' = [wake EXCEPT ![r] = [s \in SMs |-> "none"]]
    /\ run' = [run EXCEPT ![r] = [s \in SMs |-> NoRef]]
    /\ read' = [read EXCEPT ![r] = [s \in SMs |-> "no"]]
    /\ UNCHANGED <<cluster, got>>

---------------------------------------------------------------------------

Work(r) ==
    \/ \E s \in SMs : \/ Observe(r, s) \/ OwnEvent(r, s) \/ Timer(r, s)
                      \/ Begin(r, s) \/ Reconcile(r, s)
    \/ \E k \in Kinds : Discover(r, k)
    \/ \E p \in Providers : Emit(r, p)
    \/ \E k \in Kinds, s \in SMs : Send(r, k, s)
    \/ Receive(r)
    \/ Acquire(r)

Next ==
    \/ \E s \in SMs, p \in Refs : EditSM(s, p)
    \/ \E p \in Providers, v \in Values : EditProvider(p, v)
    \/ \E r \in Replicas :
          \/ Work(r) \/ Gap(r) \/ Lose(r) \/ Restart(r)
          \/ \E k \in Kinds : StreamEnds(r, k)
          \/ \E s \in SMs : ReconcileFails(r, s)

\* The runtime goes on: streams deliver, tasks run, timers fire, a free lease is
\* taken.  Nothing is assumed of edits and faults.
Fairness ==
    \A r \in Replicas :
        /\ \A s \in SMs : /\ WF_vars(Observe(r, s)) /\ WF_vars(OwnEvent(r, s))
                          /\ WF_vars(Timer(r, s)) /\ WF_vars(Begin(r, s))
                          /\ WF_vars(Reconcile(r, s))
                          /\ \A k \in Kinds : WF_vars(Send(r, k, s))
        /\ \A k \in Kinds : WF_vars(Discover(r, k))
        /\ \A p \in Providers : WF_vars(Emit(r, p))
        /\ WF_vars(Receive(r)) /\ WF_vars(Acquire(r))

Spec == Init /\ [][Next]_vars /\ Fairness

---------------------------------------------------------------------------
(* Properties *)

\* The two maps of ReverseIndex agree, no entry of refs is empty, and there is a
\* watch task for exactly the kinds that are referenced: after any order of
\* creations, changes of reference, deletions and relists.
IndexSound ==
    \A r \in Replicas : LET ix == index[r] IN
        /\ \A p \in Providers : /\ ix.refs[p] = {s \in SMs : ix.key[s] = p}
                                /\ p \in ix.keys <=> ix.refs[p] # {}
        /\ \A k \in Kinds : watch[r][k] # "none" <=> k \in ReferencedKinds(ix)

\* What the index says once its events are delivered is what the cluster says,
\* unless a watch gap swallowed a deletion: nothing else leaves an object or its
\* watch task behind.
Delivered(r, s) == IF ixq[r][s] = <<>> THEN index[r].key[s] ELSE ixq[r][s][Len(ixq[r][s])]

IndexTracks ==
    \A r \in Replicas, s \in SMs :
        IF s \in missed[r] THEN ref[s] = NoRef ELSE Delivered(r, s) = ref[s]

\* A change of a provider is on its way to every object that was indexed when its
\* provider was last read (watch latency, module header of spot_schedule_watch.rs):
\* as an event, as a reference not yet sent, in the channel, or in the queue.
OnItsWay(r, s, p) ==
    \/ wake[r][s] = "now" \/ run[r][s] # NoRef
    \/ ownq[r][s] # <<>>
    \/ \E i \in 1..Len(chan[r]) : chan[r][i] = s
    \/ s \in sending[r][KindOf[p]]
    \/ p \in due[r]
    \/ watch[r][KindOf[p]] # "watching"

NoLostWakeup ==
    \A r \in Replicas, s \in SMs : \A p \in Providers :
        (/\ ref[s] = p /\ read[r][s] = "indexed"
         /\ val[p] # "absent" /\ got[r][s] # val[p]) => OnItsWay(r, s, p)

\* Every object the leader has reconciled once ends up with the verdict of its
\* provider, whatever was lost before: the requeue timer is what guarantees it.
Matches(r, s) == ref[s] # NoRef /\ val[ref[s]] # "absent" => got[r][s] = val[ref[s]]

Settles ==
    \A r \in Replicas, s \in SMs :
        <>[](r \in leader /\ read[r][s] # "no" => Matches(r, s))

=============================================================================
