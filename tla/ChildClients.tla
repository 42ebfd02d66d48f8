------------------------------ MODULE ChildClients ------------------------------
(***************************************************************************)
(* The cache of child-cluster clients (child_client.rs) and the Node       *)
(* watchers that follow it (child_watch.rs).  Reconciles of different      *)
(* ScheduledMachines run at once and share both.  The cache's map and the  *)
(* manager's map have a lock each; the hooks that carry a change from one  *)
(* to the other run after the first lock is released and before the second *)
(* is taken, so those of two reconciles can overtake each other.           *)
(*                                                                         *)
(* A client is known by the resourceVersion of the Secret it was built     *)
(* from, 0 standing for none.  Every reference to a Secret names the same  *)
(* data key here: the cache key leaves the data key out.                   *)
(***************************************************************************)
EXTENDS Naturals, FiniteSets

CONSTANTS
    Workers,     \* reconciles that can run at once
    Secrets,     \* kubeconfig Secrets: (namespace, name) pairs
    NoKey,       \* the key of a worker that is not resolving
    Cap,         \* CHILD_CLIENT_CACHE_CAP
    MaxVersion   \* bound on the writes to Secrets

ASSUME CacheAssumption ==
    /\ NoKey \notin Secrets
    /\ Cap \in Nat \ {0}
    /\ MaxVersion \in Nat

VARIABLES
    secret,   \* the Secrets on the management cluster
    rv,       \* the resourceVersion given out last
    cache,    \* ChildClientCache::inner
    later,    \* last_used as an order: the entries used since an entry was
    tasks,    \* ChildNodeWatchManager::tasks
    work,     \* the calls of resolve in flight
    solo,     \* history: no two calls ran their hooks at once
    latest    \* history: the key the cache served last

vars == <<secret, rv, cache, later, tasks, work, solo, latest>>

Clients == 0..MaxVersion

\* version: resourceVersion, 0 before the Secret exists; good: the data parses.
SecretStates == [live : BOOLEAN, version : Clients, good : BOOLEAN]

HookSteps == {"evict_other", "evict_same", "spawn"}

\* read: the Secret as this call got it; since: its version when the call began,
\* kept until the lookup.
Calls == [pc : {"idle", "get", "lookup", "insert"} \cup HookSteps,
          key : Secrets \cup {NoKey}, read : SecretStates, since : Clients,
          other : SUBSET Secrets, replaced : BOOLEAN]

TypeOK ==
    /\ secret \in [Secrets -> SecretStates]
    /\ rv \in Clients
    /\ cache \in [Secrets -> Clients]
    /\ later \in [Secrets -> SUBSET Secrets]
    /\ tasks \in [Secrets -> Clients]
    /\ work \in [Workers -> Calls]
    /\ solo \in BOOLEAN
    /\ latest \in SUBSET Secrets

NoSecret == [live |-> FALSE, version |-> 0, good |-> FALSE]

Idle == [pc |-> "idle", key |-> NoKey, read |-> NoSecret, since |-> 0,
         other |-> {}, replaced |-> FALSE]

Init ==
    /\ secret = [s \in Secrets |-> NoSecret]
    /\ rv = 0
    /\ cache = [s \in Secrets |-> 0]
    /\ later = [s \in Secrets |-> {}]
    /\ tasks = cache
    /\ work = [w \in Workers |-> Idle]
    /\ solo = TRUE
    /\ latest = {}

---------------------------------------------------------------------------
(* resolve *)

At(w, pc) == work[w].pc = pc
Key(w) == work[w].key
Goto(w, pc) == work' = [work EXCEPT ![w].pc = pc]
Return(w) == work' = [work EXCEPT ![w] = Idle]

Cached == {s \in Secrets : cache[s] # 0}

\* s is used now, and the entries in out are gone.
Used(s, out) ==
    /\ later' = [k \in Secrets |-> IF k \in Cached \ (out \cup {s}) THEN later[k] \cup {s} ELSE {}]
    /\ latest' = {s}

Resolve(w, s) ==
    /\ At(w, "idle")
    /\ work' = [work EXCEPT ![w] = [Idle EXCEPT !.pc = "get", !.key = s,
                                                !.since = secret[s].version]]
    /\ UNCHANGED <<secret, rv, cache, later, tasks, solo, latest>>

\* GET the Secret.  If there is none, or the call fails, resolve ends: with an
\* error, or with the management client for an auto-discovered name that is not
\* there.  An entry and a watcher this key may have are left alone.
GetSecret(w) ==
    /\ At(w, "get")
    /\ \/ Return(w)
       \/ /\ secret[Key(w)].live
          /\ work' = [work EXCEPT ![w] = [@ EXCEPT !.pc = "lookup", !.read = secret[Key(w)]]]
    /\ UNCHANGED <<secret, rv, cache, later, tasks, solo, latest>>

\* Mutant: any cached client will do.
HitAny(w) == cache[Key(w)] # 0

\* A hit needs the resourceVersion just read.
Hit(w) == cache[Key(w)] = work[w].read.version

\* Mutant: a hit does not count as a use.
ServeUncounted(w) == latest' = {Key(w)} /\ UNCHANGED later

Serve(w) == Used(Key(w), {})

Lookup(w) ==
    /\ At(w, "lookup")
    /\ \/ Hit(w) /\ Serve(w) /\ Return(w)
       \/ /\ ~Hit(w) /\ UNCHANGED <<later, latest>>
          /\ work' = [work EXCEPT ![w] = [@ EXCEPT !.pc = "insert", !.since = 0]]
    /\ UNCHANGED <<secret, rv, cache, tasks, solo>>

\* At capacity a new key evicts the least recently used one.
Evicted(w) ==
    {s \in Cached : /\ Cardinality(Cached) >= Cap
                    /\ Key(w) \notin Cached
                    /\ Cached \ {s} \subseteq later[s]}

\* Build the client, insert it under the lock, and note which hooks to run.
\* A kubeconfig that does not parse ends the call and leaves the old entry.
Insert(w) ==
    LET out == Evicted(w) IN
    /\ At(w, "insert")
    /\ \/ /\ ~work[w].read.good
          /\ Return(w)
          /\ UNCHANGED <<cache, later, solo, latest>>
       \/ /\ work[w].read.good
          /\ cache' = [s \in Secrets |-> IF s = Key(w) THEN work[w].read.version
                                         ELSE IF s \in out THEN 0 ELSE cache[s]]
          /\ Used(Key(w), out)
          /\ solo' = (solo /\ \A v \in Workers \ {w} : work[v].pc \notin HookSteps)
          /\ work' = [work EXCEPT ![w] = [@ EXCEPT !.pc = "evict_other", !.other = out,
                                                   !.replaced = Key(w) \in Cached]]
    /\ UNCHANGED <<secret, rv, tasks>>

\* Mutant: the watcher of an evicted key runs on.
AbortedNone(w) == tasks

\* on_child_evicted of the evicted key.
Aborted(w) == [s \in Secrets |-> IF s \in work[w].other THEN 0 ELSE tasks[s]]

EvictOther(w) ==
    /\ At(w, "evict_other")
    /\ tasks' = Aborted(w)
    /\ Goto(w, "evict_same")
    /\ UNCHANGED <<secret, rv, cache, later, solo, latest>>

\* on_child_evicted of this key, when its entry was replaced.
EvictSame(w) ==
    /\ At(w, "evict_same")
    /\ tasks' = IF work[w].replaced THEN [tasks EXCEPT ![Key(w)] = 0] ELSE tasks
    /\ Goto(w, "spawn")
    /\ UNCHANGED <<secret, rv, cache, later, solo, latest>>

\* on_child_resolved: abort what is there, watch with the new client.
Spawn(w) ==
    /\ At(w, "spawn")
    /\ tasks' = [tasks EXCEPT ![Key(w)] = work[w].read.version]
    /\ Return(w)
    /\ UNCHANGED <<secret, rv, cache, later, solo, latest>>

Step(w) == \/ GetSecret(w) \/ Lookup(w) \/ Insert(w)
           \/ EvictOther(w) \/ EvictSame(w) \/ Spawn(w)

---------------------------------------------------------------------------
(* The management cluster *)

\* CAPI creates or rotates the kubeconfig.
Rotate(s, good) ==
    /\ rv < MaxVersion
    /\ rv' = rv + 1
    /\ secret' = [secret EXCEPT ![s] = [live |-> TRUE, version |-> rv + 1, good |-> good]]
    /\ UNCHANGED <<cache, later, tasks, work, solo, latest>>

Delete(s) ==
    /\ secret[s].live
    /\ secret' = [secret EXCEPT ![s].live = FALSE]
    /\ UNCHANGED <<rv, cache, later, tasks, work, solo, latest>>

Next == \/ \E w \in Workers : Step(w) \/ \E s \in Secrets : Resolve(w, s)
        \/ \E s \in Secrets : Delete(s) \/ \E good \in BOOLEAN : Rotate(s, good)

Spec == Init /\ [][Next]_vars

---------------------------------------------------------------------------
(* Properties *)

\* "Start / cancel per-child Node watchers in lock-step with the client cache":
\* when no hook is outstanding each cached key, and no other, has a watcher, and
\* it uses the cached client.  As long as the hooks of two calls never overlap.
LockStep ==
    (solo /\ \A w \in Workers : work[w].pc \notin HookSteps) => tasks = cache

\* "Rotations take effect on the next reconcile": a call that is served from the
\* cache gets a client no older than the Secret was when the call began.
Rotated ==
    [][\A w \in Workers : (At(w, "lookup") /\ work'[w].pc = "idle")
                          => cache[Key(w)] >= work[w].since]_vars

\* The key the cache served last survives an eviction.
RecentSurvives ==
    [][Cap > 1 => \A s \in latest : cache[s] # 0 => cache'[s] # 0]_vars
=============================================================================
