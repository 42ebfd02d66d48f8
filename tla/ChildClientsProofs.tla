--------------------------- MODULE ChildClientsProofs ---------------------------
(***************************************************************************)
(* ChildClients, for any number of reconciles and Secrets and any capacity.*)
(***************************************************************************)
EXTENDS ChildClients, FiniteSetTheorems, TLAPS

(* The hooks as a ledger between the two maps *)

InHooks(w) == work[w].pc \in HookSteps

\* What the watchers will be when call w has run the hooks it still owes.
Settled(w) ==
    [s \in Secrets |->
        IF s = Key(w) THEN work[w].read.version
        ELSE IF At(w, "evict_other") /\ s \in work[w].other THEN 0
        ELSE tasks[s]]

\* While hooks never overlapped: at most one call owes hooks, and once it has run
\* them, or if none does, the watchers are the cache.
LedgerInv ==
    solo =>
      /\ \A v, w \in Workers : InHooks(v) /\ InHooks(w) => v = w
      /\ \A w \in Workers : InHooks(w) => Key(w) \in Secrets /\ Settled(w) = cache
      /\ (\A w \in Workers : ~InHooks(w)) => tasks = cache

Shape ==
    /\ cache \in [Secrets -> Clients]
    /\ tasks \in [Secrets -> Clients]
    /\ work \in [Workers -> Calls]
    /\ \A w \in Workers : work[w].pc # "idle" => Key(w) \in Secrets
    /\ secret \in [Secrets -> SecretStates]
    /\ rv \in Clients

LEMMA IdleCall == Idle \in Calls /\ Idle.pc = "idle" /\ Idle.key = NoKey
BY CacheAssumption DEF Idle, Calls, NoSecret, SecretStates, Clients

\* A call that has moved on, to a record of the same shape.
LEMMA WorkStep ==
    ASSUME Shape, NEW w \in Workers, NEW call \in Calls,
           call.pc # "idle" => call.key \in Secrets,
           work' = [work EXCEPT ![w] = call],
           cache' \in [Secrets -> Clients], tasks' \in [Secrets -> Clients],
           UNCHANGED <<secret, rv>>
    PROVE  Shape'
BY DEF Shape, Key

LEMMA ShapeStep ==
    ASSUME Shape, [Next]_vars PROVE Shape'
<1> Shape
  OBVIOUS
<1> USE DEF At
<1>0. ASSUME NEW w \in Workers
      PROVE  /\ work[w] \in Calls
             /\ work[w].pc # "idle" => Key(w) \in Secrets /\ secret[Key(w)] \in SecretStates
             /\ work[w].read.version \in Clients
             /\ work[w] = [work[w] EXCEPT !.key = Key(w)]
  BY DEF Shape, Key, Calls, SecretStates
<1>a. 0 \in Clients
  BY CacheAssumption DEF Clients
<1>b. cache \in [Secrets -> Clients] /\ tasks \in [Secrets -> Clients]
  BY DEF Shape
<1>1. ASSUME NEW w \in Workers, NEW s \in Secrets, Resolve(w, s) PROVE Shape'
  <2> DEFINE call == [Idle EXCEPT !.pc = "get", !.key = s, !.since = secret[s].version]
  <2>1. call \in Calls /\ call.key = s
    BY IdleCall DEF Calls, SecretStates, Shape
  <2>2. work' = [work EXCEPT ![w] = call] /\ UNCHANGED <<secret, rv, cache, tasks>>
    BY <1>1 DEF Resolve
  <2> HIDE DEF call
  <2> QED BY <1>b, <2>1, <2>2, WorkStep
<1>2. ASSUME NEW w \in Workers, Return(w), UNCHANGED <<secret, rv>>,
             cache' \in [Secrets -> Clients], tasks' \in [Secrets -> Clients]
      PROVE  Shape'
  BY <1>2, IdleCall, WorkStep DEF Return
<1>3. ASSUME NEW w \in Workers, NEW pc \in {"evict_same", "spawn"}, Goto(w, pc),
             work[w].pc # "idle", UNCHANGED <<secret, rv, cache>>,
             tasks' \in [Secrets -> Clients]
      PROVE  Shape'
  <2> DEFINE call == [work[w] EXCEPT !.pc = pc]
  <2>1. call \in Calls /\ call.key = Key(w)
    BY <1>0, <1>3 DEF Calls, HookSteps, Key
  <2>2. work' = [work EXCEPT ![w] = call]
    BY <1>3 DEF Goto
  <2> HIDE DEF call
  <2> QED BY <1>0, <1>3, <1>b, <2>1, <2>2, WorkStep
<1>4. ASSUME NEW w \in Workers, GetSecret(w) PROVE Shape'
  <2>1. CASE Return(w)
    BY <1>2, <1>4, <1>b, <2>1 DEF GetSecret
  <2>2. CASE work' = [work EXCEPT ![w] = [@ EXCEPT !.pc = "lookup", !.read = secret[Key(w)]]]
    <3> DEFINE call == [work[w] EXCEPT !.pc = "lookup", !.read = secret[Key(w)]]
    <3>1. call \in Calls /\ call.key = Key(w)
      BY <1>0, <1>4 DEF Calls, GetSecret, Key
    <3>2. work' = [work EXCEPT ![w] = call]
      BY <2>2
    <3> HIDE DEF call
    <3> QED BY <1>0, <1>4, <1>b, <3>1, <3>2, WorkStep DEF GetSecret
  <2> QED BY <1>4, <2>1, <2>2 DEF GetSecret
<1>5. ASSUME NEW w \in Workers, Lookup(w) PROVE Shape'
  <2>1. CASE Return(w)
    BY <1>2, <1>5, <1>b, <2>1 DEF Lookup
  <2>2. CASE work' = [work EXCEPT ![w] = [@ EXCEPT !.pc = "insert", !.since = 0]]
    <3> DEFINE call == [work[w] EXCEPT !.pc = "insert", !.since = 0]
    <3>1. call \in Calls /\ call.key = Key(w)
      BY <1>0, <1>a DEF Calls, Key
    <3>2. work' = [work EXCEPT ![w] = call]
      BY <2>2
    <3> HIDE DEF call
    <3> QED BY <1>0, <1>5, <1>b, <3>1, <3>2, WorkStep DEF Lookup
  <2> QED BY <1>5, <2>1, <2>2 DEF Lookup
<1>6. ASSUME NEW w \in Workers, Insert(w) PROVE Shape'
  <2>1. CASE Return(w) /\ UNCHANGED cache
    BY <1>2, <1>6, <1>b, <2>1 DEF Insert
  <2>2. CASE /\ work' = [work EXCEPT ![w] =
                           [@ EXCEPT !.pc = "evict_other", !.other = Evicted(w),
                                     !.replaced = Key(w) \in Cached]]
             /\ cache' = [s \in Secrets |-> IF s = Key(w) THEN work[w].read.version
                                            ELSE IF s \in Evicted(w) THEN 0 ELSE cache[s]]
    <3> DEFINE call == [work[w] EXCEPT !.pc = "evict_other", !.other = Evicted(w),
                                       !.replaced = Key(w) \in Cached]
    <3>0. Evicted(w) \in SUBSET Secrets /\ (Key(w) \in Cached) \in BOOLEAN
      BY DEF Evicted, Cached
    <3>1. call \in Calls /\ call.key = Key(w)
      BY <1>0, <3>0 DEF Calls, Key, HookSteps
    <3>2. work' = [work EXCEPT ![w] = call]
      BY <2>2
    <3>3. cache' \in [Secrets -> Clients]
      BY <1>0, <1>a, <1>b, <2>2
    <3> HIDE DEF call
    <3> QED BY <1>0, <1>6, <1>b, <3>1, <3>2, <3>3, WorkStep DEF Insert
  <2> QED BY <1>6, <2>1, <2>2 DEF Insert
<1>7. ASSUME NEW w \in Workers, EvictOther(w) PROVE Shape'
  BY <1>3, <1>7, <1>a, <1>b DEF EvictOther, Aborted
<1>8. ASSUME NEW w \in Workers, EvictSame(w) PROVE Shape'
  BY <1>3, <1>8, <1>a, <1>b DEF EvictSame
<1>9. ASSUME NEW w \in Workers, Spawn(w) PROVE Shape'
  BY <1>0, <1>2, <1>9, <1>b DEF Spawn
<1>10. ASSUME NEW s \in Secrets, NEW good \in BOOLEAN, Rotate(s, good) PROVE Shape'
  <2>1. rv' \in Clients /\ rv' = rv + 1
    BY <1>10, CacheAssumption DEF Rotate, Clients, Shape
  <2>2. [live |-> TRUE, version |-> rv', good |-> good] \in SecretStates
    BY <2>1 DEF SecretStates
  <2> QED BY <1>10, <2>1, <2>2 DEF Rotate, Shape, Key
<1>11. ASSUME NEW s \in Secrets, Delete(s) PROVE Shape'
  BY <1>11 DEF Delete, Shape, SecretStates, Key
<1>12. CASE UNCHANGED vars
  BY <1>12 DEF vars, Shape, Key
<1> QED BY <1>1, <1>4, <1>5, <1>6, <1>7, <1>8, <1>9, <1>10, <1>11, <1>12 DEF Next, Step

\* A step of a call that owes no hooks, to a state where it owes none.
LEMMA NoHooks ==
    ASSUME Shape, LedgerInv, NEW w \in Workers, NEW call \in Calls,
           work' = [work EXCEPT ![w] = call],
           work[w].pc \notin HookSteps, call.pc \notin HookSteps,
           UNCHANGED <<cache, tasks, solo>>
    PROVE  LedgerInv'
<1>1. \A v \in Workers : v # w => work'[v] = work[v]
  BY DEF Shape
<1>2. work'[w] = call
  BY DEF Shape
<1>3. \A v \in Workers : InHooks(v)' <=> InHooks(v)
  BY <1>1, <1>2 DEF InHooks
<1>4. \A v \in Workers : InHooks(v) => Settled(v)' = Settled(v) /\ Key(v)' = Key(v)
  BY <1>1 DEF InHooks, Settled, Key, At
<1> QED BY <1>3, <1>4 DEF LedgerInv

LEMMA LedgerInvStep ==
    ASSUME Shape, LedgerInv, [Next]_vars PROVE LedgerInv'
<1> USE DEF At
<1>0. ASSUME NEW w \in Workers
      PROVE  /\ work[w] \in Calls
             /\ work[w].pc # "idle" => Key(w) \in Secrets
  BY DEF Shape
<1>1. ASSUME NEW w \in Workers, Return(w), work[w].pc \notin HookSteps,
             UNCHANGED <<cache, tasks, solo>>
      PROVE  LedgerInv'
  BY <1>1, IdleCall, NoHooks DEF Return, HookSteps
<1>2. ASSUME NEW w \in Workers, NEW s \in Secrets, Resolve(w, s) PROVE LedgerInv'
  <2> DEFINE call == [Idle EXCEPT !.pc = "get", !.key = s, !.since = secret[s].version]
  <2>1. call \in Calls /\ call.pc = "get"
    BY IdleCall DEF Calls, SecretStates, Shape
  <2> QED BY <1>2, <2>1, NoHooks DEF Resolve, HookSteps
<1>3. ASSUME NEW w \in Workers, GetSecret(w) PROVE LedgerInv'
  <2>1. CASE Return(w)
    BY <1>1, <1>3, <2>1 DEF GetSecret, HookSteps
  <2>2. CASE work' = [work EXCEPT ![w] = [@ EXCEPT !.pc = "lookup", !.read = secret[Key(w)]]]
    <3> DEFINE call == [work[w] EXCEPT !.pc = "lookup", !.read = secret[Key(w)]]
    <3>1. call \in Calls /\ call.pc = "lookup"
      BY <1>0, <1>3 DEF Calls, GetSecret, Shape
    <3> QED BY <1>3, <2>2, <3>1, NoHooks DEF GetSecret, HookSteps
  <2> QED BY <1>3, <2>1, <2>2 DEF GetSecret
<1>4. ASSUME NEW w \in Workers, Lookup(w) PROVE LedgerInv'
  <2>1. CASE Return(w)
    BY <1>1, <1>4, <2>1 DEF Lookup, HookSteps
  <2>2. CASE work' = [work EXCEPT ![w] = [@ EXCEPT !.pc = "insert", !.since = 0]]
    <3> DEFINE call == [work[w] EXCEPT !.pc = "insert", !.since = 0]
    <3>1. 0 \in Clients
      BY CacheAssumption DEF Clients
    <3>2. call \in Calls /\ call.pc = "insert"
      BY <1>0, <3>1 DEF Calls
    <3> QED BY <1>4, <2>2, <3>2, NoHooks DEF Lookup, HookSteps
  <2> QED BY <1>4, <2>1, <2>2 DEF Lookup
<1>5. ASSUME NEW w \in Workers, Insert(w) PROVE LedgerInv'
  <2>1. CASE Return(w) /\ UNCHANGED <<cache, solo>>
    BY <1>1, <1>5, <2>1 DEF Insert, HookSteps
  <2>2. CASE /\ work' = [work EXCEPT ![w] =
                           [@ EXCEPT !.pc = "evict_other", !.other = Evicted(w),
                                     !.replaced = Key(w) \in Cached]]
             /\ cache' = [s \in Secrets |-> IF s = Key(w) THEN work[w].read.version
                                            ELSE IF s \in Evicted(w) THEN 0 ELSE cache[s]]
             /\ solo' = (solo /\ \A v \in Workers \ {w} : work[v].pc \notin HookSteps)
    <3> SUFFICES ASSUME solo' PROVE LedgerInv'
      BY DEF LedgerInv
    <3>1. \A v \in Workers : ~InHooks(v)
      BY <1>5, <2>2 DEF InHooks, Insert, HookSteps
    <3>2. tasks = cache /\ tasks' = tasks
      BY <1>5, <2>2, <3>1 DEF LedgerInv, Insert
    <3>3. \A v \in Workers : v # w => ~InHooks(v)'
      BY <2>2, <3>1 DEF InHooks, Shape
    <3>4. /\ work'[w].pc = "evict_other" /\ work'[w].key = work[w].key
          /\ work'[w].read = work[w].read /\ work'[w].other = Evicted(w)
      BY <1>0, <2>2 DEF Calls, Shape
    <3>5. Settled(w)' = cache'
      BY <2>2, <3>2, <3>4 DEF Settled, Key
    <3>6. InHooks(w)' /\ Key(w)' \in Secrets
      BY <1>0, <1>5, <3>4 DEF InHooks, HookSteps, Key, Insert
    <3> QED BY <3>3, <3>5, <3>6 DEF LedgerInv
  <2> QED BY <1>5, <2>1, <2>2 DEF Insert
<1>6. ASSUME NEW w \in Workers, NEW pc \in HookSteps, Goto(w, pc), InHooks(w),
             UNCHANGED <<cache, solo>>, solo => Settled(w)' = Settled(w)
      PROVE  LedgerInv'
  <2> SUFFICES ASSUME solo PROVE LedgerInv'
    BY <1>6 DEF LedgerInv
  <2>1. work'[w].pc = pc /\ Key(w)' = Key(w)
    BY <1>0, <1>6 DEF Goto, Calls, Key, Shape
  <2>2. \A v \in Workers : v # w => ~InHooks(v)
    BY <1>6 DEF LedgerInv
  <2>3. \A v \in Workers : v # w => ~InHooks(v)'
    BY <1>6, <2>2 DEF InHooks, Goto, Shape
  <2> QED BY <1>6, <2>1, <2>3 DEF LedgerInv, InHooks
<1>7. ASSUME NEW w \in Workers, EvictOther(w) PROVE LedgerInv'
  <2>1. /\ work'[w].pc = "evict_same" /\ work'[w].key = work[w].key
        /\ work'[w].read = work[w].read
    BY <1>0, <1>7 DEF EvictOther, Goto, Calls, Shape
  <2>2. Settled(w)' = Settled(w)
    BY <1>7, <2>1 DEF EvictOther, Settled, Aborted, Key
  <2> QED BY <1>6, <1>7, <2>2 DEF EvictOther, InHooks, HookSteps
<1>8. ASSUME NEW w \in Workers, EvictSame(w) PROVE LedgerInv'
  <2>1. /\ work'[w].pc = "spawn" /\ work'[w].key = work[w].key
        /\ work'[w].read = work[w].read
    BY <1>0, <1>8 DEF EvictSame, Goto, Calls, Shape
  <2>2. \A s \in Secrets : s # Key(w) => tasks'[s] = tasks[s]
    BY <1>8 DEF EvictSame, Shape
  <2>3. Settled(w)' = Settled(w)
    BY <1>8, <2>1, <2>2 DEF EvictSame, Settled, Key
  <2> QED BY <1>6, <1>8, <2>3 DEF EvictSame, InHooks, HookSteps
<1>9. ASSUME NEW w \in Workers, Spawn(w) PROVE LedgerInv'
  <2> SUFFICES ASSUME solo PROVE LedgerInv'
    BY <1>9 DEF LedgerInv, Spawn
  <2>1. InHooks(w) /\ Settled(w) = cache
    BY <1>9 DEF Spawn, InHooks, HookSteps, LedgerInv
  <2>2. tasks' = Settled(w)
    BY <1>0, <1>9 DEF Spawn, Settled, Shape
  <2>3. \A v \in Workers : ~InHooks(v)'
    BY <1>9, <2>1, IdleCall DEF InHooks, LedgerInv, Spawn, Return, HookSteps, Shape
  <2> QED BY <1>9, <2>1, <2>2, <2>3 DEF LedgerInv, Spawn
<1>10. CASE UNCHANGED <<cache, tasks, work, solo>>
  BY <1>10 DEF LedgerInv, InHooks, Settled, Key
<1> QED BY <1>2, <1>3, <1>4, <1>5, <1>7, <1>8, <1>9, <1>10
           DEF Next, Step, Rotate, Delete, vars

LEMMA ShapeInit == Init => Shape /\ \A w \in Workers : work[w].pc = "idle"
<1> SUFFICES ASSUME Init PROVE Shape /\ \A w \in Workers : work[w].pc = "idle"
  OBVIOUS
<1>1. 0 \in Clients /\ NoSecret \in SecretStates
  BY CacheAssumption DEF Clients, NoSecret, SecretStates
<1>2. \A w \in Workers : work[w].pc = "idle"
  BY IdleCall DEF Init
<1>3. Shape
  BY <1>1, <1>2, IdleCall DEF Init, Shape
<1> QED BY <1>2, <1>3

LEMMA HistoryStep ==
    ASSUME Shape, solo \in BOOLEAN, latest \in SUBSET Secrets, [Next]_vars
    PROVE  solo' \in BOOLEAN /\ latest' \in SUBSET Secrets
<1>1. ASSUME NEW w \in Workers, work[w].pc # "idle" PROVE Key(w) \in Secrets
  BY <1>1 DEF Shape
<1>2. ASSUME NEW w \in Workers, Lookup(w) PROVE solo' \in BOOLEAN /\ latest' \in SUBSET Secrets
  BY <1>1, <1>2 DEF Lookup, At, Serve, Used
<1>3. ASSUME NEW w \in Workers, Insert(w) PROVE solo' \in BOOLEAN /\ latest' \in SUBSET Secrets
  <2>1. Key(w) \in Secrets
    BY <1>1, <1>3 DEF Insert, At
  <2>2. latest' \in SUBSET Secrets
    BY <1>3, <2>1 DEF Insert, Used
  <2>3. solo' \in BOOLEAN
    BY <1>3 DEF Insert
  <2> QED BY <2>2, <2>3
<1>4. CASE UNCHANGED <<solo, latest>>
  BY <1>4
<1> QED BY <1>2, <1>3, <1>4
        DEF Next, Step, Resolve, GetSecret, EvictOther, EvictSame, Spawn, Rotate, Delete, vars

LEMMA OrderStep ==
    ASSUME Shape, later \in [Secrets -> SUBSET Secrets], [Next]_vars
    PROVE  later' \in [Secrets -> SUBSET Secrets]
<1>1. ASSUME NEW s \in Secrets, NEW out, Used(s, out) PROVE later' \in [Secrets -> SUBSET Secrets]
  BY <1>1 DEF Used
<1>2. ASSUME NEW w \in Workers, work[w].pc # "idle" PROVE Key(w) \in Secrets
  BY <1>2 DEF Shape
<1>3. ASSUME NEW w \in Workers, Lookup(w) PROVE later' \in [Secrets -> SUBSET Secrets]
  BY <1>1, <1>2, <1>3 DEF Lookup, At, Serve
<1>4. ASSUME NEW w \in Workers, Insert(w) PROVE later' \in [Secrets -> SUBSET Secrets]
  BY <1>1, <1>2, <1>4 DEF Insert, At
<1>5. CASE UNCHANGED later
  BY <1>5
<1> QED BY <1>3, <1>4, <1>5
        DEF Next, Step, Resolve, GetSecret, EvictOther, EvictSame, Spawn, Rotate, Delete, vars

\* Type correctness of the cache and its use order, the watch tasks, the Secrets and the
\* calls of build_or_get_cached in flight.
THEOREM ChildTypes == Spec => []TypeOK
<1> DEFINE Types == /\ Shape /\ solo \in BOOLEAN /\ latest \in SUBSET Secrets
                    /\ later \in [Secrets -> SUBSET Secrets]
<1>1. Init => Types
  BY ShapeInit DEF Init
<1>2. Types /\ [Next]_vars => Types'
  BY ShapeStep, HistoryStep, OrderStep
<1>3. Types => TypeOK
  BY DEF Shape, TypeOK
<1> QED BY <1>1, <1>2, <1>3, PTL DEF Spec

\* As long as hooks never overlap, a key has a watcher exactly when it has a
\* cached client, and the watcher uses that client.
THEOREM LockStepHolds == Spec => []LockStep
<1>1. Init => Shape /\ LedgerInv
  BY ShapeInit DEF Init, LedgerInv, InHooks, HookSteps
<1>2. LedgerInv => LockStep
  BY DEF LedgerInv, LockStep, InHooks
<1> QED BY <1>1, <1>2, ShapeStep, LedgerInvStep, PTL DEF Spec
---------------------------------------------------------------------------
(* Rotations *)

\* Versions only grow, and a call read its Secret no earlier than it began.
ReadInv ==
    /\ \A s \in Secrets : secret[s].version <= rv
    /\ \A w \in Workers :
         /\ At(w, "get") => work[w].since <= secret[Key(w)].version
         /\ At(w, "lookup") => work[w].since <= work[w].read.version

LEMMA ReadInvStep ==
    ASSUME Shape, ReadInv, [Next]_vars PROVE ReadInv'
<1>0. /\ MaxVersion \in Nat /\ rv \in Nat
      /\ \A s \in Secrets : secret[s].version \in Nat /\ secret[s].version <= rv
  BY CacheAssumption DEF Shape, SecretStates, Clients, ReadInv
<1>1. ASSUME NEW w \in Workers
      PROVE  /\ work[w].since \in Nat /\ work[w].read.version \in Nat
             /\ work[w].pc # "idle" => Key(w) \in Secrets
             /\ At(w, "get") => work[w].since <= secret[Key(w)].version
             /\ At(w, "lookup") => work[w].since <= work[w].read.version
  BY CacheAssumption DEF Shape, Calls, SecretStates, Clients, ReadInv
\* A call that moves to a place where nothing is asked of it.
<1>2. ASSUME NEW w \in Workers, NEW call, call.pc \notin {"get", "lookup"},
             work' = [work EXCEPT ![w] = call], UNCHANGED <<secret, rv>>
      PROVE  ReadInv'
  <2>1. work'[w].pc = call.pc /\ \A v \in Workers \ {w} : work'[v] = work[v]
    BY <1>2 DEF Shape
  <2> QED BY <1>0, <1>1, <1>2, <2>1 DEF ReadInv, At, Key
<1>3. ASSUME NEW w \in Workers, NEW s \in Secrets, Resolve(w, s) PROVE ReadInv'
  <2>1. /\ work'[w].pc = "get" /\ work'[w].key = s /\ work'[w].since = secret[s].version
        /\ \A v \in Workers \ {w} : work'[v] = work[v]
    BY <1>3 DEF Resolve, Shape, Idle
  <2>2. UNCHANGED <<secret, rv>>
    BY <1>3 DEF Resolve
  <2> QED BY <1>0, <1>1, <2>1, <2>2 DEF ReadInv, At, Key
<1>4. ASSUME NEW w \in Workers, GetSecret(w) PROVE ReadInv'
  <2>1. CASE Return(w)
    BY <1>2, <1>4, <2>1 DEF GetSecret, Return, Idle
  <2>2. CASE work' = [work EXCEPT ![w] = [@ EXCEPT !.pc = "lookup", !.read = secret[Key(w)]]]
    <3>1. /\ work'[w].pc = "lookup" /\ work'[w].read = secret[Key(w)] /\ work'[w].since = work[w].since
          /\ \A v \in Workers \ {w} : work'[v] = work[v]
      BY <2>2 DEF Shape, Calls
    <3>2. UNCHANGED <<secret, rv>> /\ At(w, "get")
      BY <1>4 DEF GetSecret
    <3> QED BY <1>0, <1>1, <3>1, <3>2 DEF ReadInv, At, Key
  <2> QED BY <1>4, <2>1, <2>2 DEF GetSecret
<1>5. ASSUME NEW w \in Workers, Lookup(w) \/ Insert(w) \/ EvictOther(w) \/ EvictSame(w) \/ Spawn(w)
      PROVE  ReadInv'
  <2>1. UNCHANGED <<secret, rv>>
    BY <1>5 DEF Lookup, Insert, EvictOther, EvictSame, Spawn
  <2>2. PICK call : work' = [work EXCEPT ![w] = call] /\ call.pc \notin {"get", "lookup"}
    <3>0. work[w] \in Calls
      BY DEF Shape
    <3>1. CASE Return(w)
      BY <3>1, IdleCall DEF Return
    <3>2. CASE Goto(w, "evict_same") \/ Goto(w, "spawn")
      <4>1. CASE Goto(w, "evict_same")
        <5>1. work' = [work EXCEPT ![w] = [work[w] EXCEPT !.pc = "evict_same"]]
          BY <4>1 DEF Goto
        <5>2. [work[w] EXCEPT !.pc = "evict_same"].pc = "evict_same"
          BY <3>0 DEF Calls
        <5> QED BY <5>1, <5>2
      <4>2. CASE Goto(w, "spawn")
        <5>1. work' = [work EXCEPT ![w] = [work[w] EXCEPT !.pc = "spawn"]]
          BY <4>2 DEF Goto
        <5>2. [work[w] EXCEPT !.pc = "spawn"].pc = "spawn"
          BY <3>0 DEF Calls
        <5> QED BY <5>1, <5>2
      <4> QED BY <3>2, <4>1, <4>2
    <3>3. CASE work' = [work EXCEPT ![w] = [@ EXCEPT !.pc = "insert", !.since = 0]]
      <4>1. [work[w] EXCEPT !.pc = "insert", !.since = 0].pc = "insert"
        BY <3>0 DEF Calls
      <4> QED BY <3>3, <4>1
    <3>4. CASE work' = [work EXCEPT ![w] = [@ EXCEPT !.pc = "evict_other", !.other = Evicted(w),
                                                     !.replaced = Key(w) \in Cached]]
      <4>1. [work[w] EXCEPT !.pc = "evict_other", !.other = Evicted(w),
                            !.replaced = Key(w) \in Cached].pc = "evict_other"
        BY <3>0 DEF Calls
      <4> QED BY <3>4, <4>1
    <3> QED BY <1>5, <3>1, <3>2, <3>3, <3>4 DEF Lookup, Insert, EvictOther, EvictSame, Spawn
  <2> QED BY <1>2, <2>1, <2>2
<1>6. ASSUME NEW s \in Secrets, NEW good \in BOOLEAN, Rotate(s, good) PROVE ReadInv'
  <2>1. /\ rv' = rv + 1 /\ UNCHANGED work /\ secret'[s].version = rv + 1
        /\ \A t \in Secrets \ {s} : secret'[t] = secret[t]
    BY <1>6 DEF Rotate, Shape
  <2> QED BY <1>0, <1>1, <2>1 DEF ReadInv, At, Key
<1>7. ASSUME NEW s \in Secrets, Delete(s) PROVE ReadInv'
  <2>1. UNCHANGED <<rv, work>> /\ \A t \in Secrets : secret'[t].version = secret[t].version
    BY <1>7 DEF Delete, Shape, SecretStates
  <2> QED BY <1>0, <1>1, <2>1 DEF ReadInv, At, Key
<1>8. CASE UNCHANGED vars
  BY <1>8 DEF vars, ReadInv, At, Key
<1> QED BY <1>3, <1>4, <1>5, <1>6, <1>7, <1>8 DEF Next, Step

\* "Rotations take effect on the next reconcile", for any number of reconciles, Secrets
\* and rotations: build_or_get_cached compares with the resourceVersion of the Secret it
\* has just read, which is no older than the Secret was when the call began.
THEOREM RotatedHolds == Spec => Rotated
<1>1. Init => Shape /\ ReadInv
  <2>1. Init => \A s \in Secrets : secret[s].version = 0 /\ rv = 0
    BY DEF Init, NoSecret
  <2> QED BY <2>1, ShapeInit DEF ReadInv, At
<1>2. Shape /\ ReadInv /\ [Next]_vars => (Shape /\ ReadInv)'
  BY ShapeStep, ReadInvStep
<1>3. ASSUME Shape, ReadInv, [Next]_vars
      PROVE  [\A w \in Workers : (At(w, "lookup") /\ work'[w].pc = "idle")
                                 => cache[Key(w)] >= work[w].since]_vars
  <2> SUFFICES ASSUME NEW w \in Workers, At(w, "lookup"), work'[w].pc = "idle"
               PROVE  cache[Key(w)] >= work[w].since
    OBVIOUS
  <2>0. work \in [Workers -> Calls] /\ work[w].pc = "lookup" /\ work[w].since \in Nat
        /\ work[w].read.version \in Nat
    BY <1>3, CacheAssumption DEF Shape, At, Calls, SecretStates, Clients
  <2>1. Lookup(w)
    <3>1. work'[w] # work[w]
      BY <2>0
    <3>2. ASSUME NEW v \in Workers, Step(v) \/ \E s \in Secrets : Resolve(v, s)
          PROVE  v = w
      <4>1. PICK call : work' = [work EXCEPT ![v] = call]
        BY <3>2 DEF Step, GetSecret, Lookup, Insert, EvictOther, EvictSame, Spawn, Return, Goto, Resolve
      <4> QED BY <2>0, <3>1, <4>1
    <3>3. \E v \in Workers : Step(v) \/ \E s \in Secrets : Resolve(v, s)
      BY <1>3, <3>1 DEF Next, Rotate, Delete, vars
    <3>4. Step(w) \/ \E s \in Secrets : Resolve(w, s)
      BY <3>2, <3>3
    <3> QED BY <2>0, <3>4 DEF Step, At, Resolve, GetSecret, Insert, EvictOther, EvictSame, Spawn
  <2>2. Hit(w)
    <3>1. CASE work' = [work EXCEPT ![w] = [@ EXCEPT !.pc = "insert", !.since = 0]]
      BY <2>0, <3>1 DEF Calls
    <3> QED BY <2>1, <3>1 DEF Lookup
  <2>3. work[w].since <= work[w].read.version
    BY <1>3 DEF ReadInv
  <2> QED BY <2>0, <2>2, <2>3 DEF Hit
<1> QED BY <1>1, <1>2, <1>3, PTL DEF Spec, Rotated
---------------------------------------------------------------------------
(* The use order *)

\* A Secret that can be read has a resourceVersion, so no entry is inserted as 0.
Numbered ==
    /\ \A s \in Secrets : secret[s].live => secret[s].version # 0
    /\ \A w \in Workers : work[w].pc \in {"lookup", "insert"} => work[w].read.version # 0

\* Nothing was used after the key that was served last.
Newest == latest \in SUBSET Secrets /\ \A s \in latest : later[s] = {}

LEMMA NumberedStep ==
    ASSUME Shape, Numbered, [Next]_vars PROVE Numbered'
<1>1. ASSUME NEW w \in Workers, NEW call, work' = [work EXCEPT ![w] = call], UNCHANGED secret,
             call.pc \in {"lookup", "insert"} => call.read.version # 0
      PROVE  Numbered'
  <2>1. work'[w] = call /\ \A v \in Workers \ {w} : work'[v] = work[v]
    BY <1>1 DEF Shape
  <2> QED BY <1>1, <2>1 DEF Numbered
<1>2. ASSUME NEW w \in Workers, Return(w), UNCHANGED secret PROVE Numbered'
  BY <1>1, <1>2, IdleCall DEF Return
<1>3. ASSUME NEW w \in Workers, NEW s \in Secrets, Resolve(w, s) PROVE Numbered'
  <2> DEFINE call == [Idle EXCEPT !.pc = "get", !.key = s, !.since = secret[s].version]
  <2>1. call.pc = "get"
    BY DEF Idle
  <2> QED BY <1>1, <1>3, <2>1 DEF Resolve
<1>4. ASSUME NEW w \in Workers, GetSecret(w) PROVE Numbered'
  <2>1. CASE Return(w)
    BY <1>2, <1>4, <2>1 DEF GetSecret
  <2>2. CASE /\ secret[Key(w)].live
             /\ work' = [work EXCEPT ![w] = [@ EXCEPT !.pc = "lookup", !.read = secret[Key(w)]]]
    <3> DEFINE call == [work[w] EXCEPT !.pc = "lookup", !.read = secret[Key(w)]]
    <3>1. call.read = secret[Key(w)]
      BY DEF Shape, Calls
    <3>2. secret[Key(w)].version # 0
      BY <1>4, <2>2 DEF Numbered, Shape, GetSecret, At
    <3> QED BY <1>1, <1>4, <2>2, <3>1, <3>2 DEF GetSecret
  <2> QED BY <1>4, <2>1, <2>2 DEF GetSecret
<1>5. ASSUME NEW w \in Workers, Lookup(w) PROVE Numbered'
  <2>1. CASE Return(w)
    BY <1>2, <1>5, <2>1 DEF Lookup
  <2>2. CASE work' = [work EXCEPT ![w] = [@ EXCEPT !.pc = "insert", !.since = 0]]
    <3> DEFINE call == [work[w] EXCEPT !.pc = "insert", !.since = 0]
    <3>1. call.read = work[w].read
      BY DEF Shape, Calls
    <3>2. work[w].read.version # 0
      BY <1>5 DEF Numbered, Lookup, At
    <3> QED BY <1>1, <1>5, <2>2, <3>1, <3>2 DEF Lookup
  <2> QED BY <1>5, <2>1, <2>2 DEF Lookup
<1>6. ASSUME NEW w \in Workers, NEW pc \in HookSteps, NEW out, NEW replaced,
             \/ Goto(w, pc)
             \/ work' = [work EXCEPT ![w] = [@ EXCEPT !.pc = pc, !.other = out,
                                                      !.replaced = replaced]],
             UNCHANGED secret
      PROVE  Numbered'
  <2>0. work[w] \in Calls
    BY DEF Shape
  <2>1. [work[w] EXCEPT !.pc = pc].pc = pc
    BY <2>0 DEF Calls
  <2>2. [work[w] EXCEPT !.pc = pc, !.other = out, !.replaced = replaced].pc = pc
    BY <2>0 DEF Calls
  <2>3. pc \notin {"lookup", "insert"}
    BY DEF HookSteps
  <2>4. CASE Goto(w, pc)
    BY <1>1, <1>6, <2>1, <2>3, <2>4 DEF Goto
  <2>5. CASE work' = [work EXCEPT ![w] = [@ EXCEPT !.pc = pc, !.other = out,
                                                   !.replaced = replaced]]
    BY <1>1, <1>6, <2>2, <2>3, <2>5
  <2> QED BY <1>6, <2>4, <2>5
<1>7. ASSUME NEW w \in Workers, Insert(w) PROVE Numbered'
  <2>1. CASE Return(w)
    BY <1>2, <1>7, <2>1 DEF Insert
  <2>2. CASE work' = [work EXCEPT ![w] = [@ EXCEPT !.pc = "evict_other", !.other = Evicted(w),
                                                   !.replaced = Key(w) \in Cached]]
    BY <1>6, <1>7, <2>2 DEF Insert, HookSteps
  <2> QED BY <1>7, <2>1, <2>2 DEF Insert
<1>8. ASSUME NEW w \in Workers, EvictOther(w) \/ EvictSame(w) \/ Spawn(w) PROVE Numbered'
  BY <1>2, <1>6, <1>8 DEF EvictOther, EvictSame, Spawn, HookSteps
<1>9. ASSUME NEW s \in Secrets, NEW good \in BOOLEAN, Rotate(s, good) PROVE Numbered'
  <2>1. UNCHANGED work /\ secret'[s].version = rv + 1 /\ \A t \in Secrets \ {s} : secret'[t] = secret[t]
    BY <1>9 DEF Rotate, Shape
  <2>2. rv + 1 # 0
    BY CacheAssumption DEF Shape, Clients
  <2> QED BY <2>1, <2>2 DEF Numbered
<1>10. ASSUME NEW s \in Secrets, Delete(s) PROVE Numbered'
  <2>1. UNCHANGED work /\ \A t \in Secrets : /\ secret'[t].version = secret[t].version
                                             /\ secret'[t].live => secret[t].live
    BY <1>10 DEF Delete, Shape, SecretStates
  <2> QED BY <2>1 DEF Numbered
<1>11. CASE UNCHANGED vars
  BY <1>11 DEF vars, Numbered
<1> QED BY <1>3, <1>4, <1>5, <1>7, <1>8, <1>9, <1>10, <1>11 DEF Next, Step

LEMMA NewestStep ==
    ASSUME Shape, Newest, [Next]_vars PROVE Newest'
<1>1. ASSUME NEW s \in Secrets, NEW out, Used(s, out) PROVE Newest'
  BY <1>1 DEF Used, Newest
<1>2. ASSUME NEW w \in Workers, work[w].pc # "idle" PROVE Key(w) \in Secrets
  BY <1>2 DEF Shape
<1>3. CASE UNCHANGED <<later, latest>>
  BY <1>3 DEF Newest
<1>4. ASSUME NEW w \in Workers, Lookup(w) \/ Insert(w) PROVE Newest'
  BY <1>1, <1>2, <1>3, <1>4 DEF Lookup, Insert, At, Serve
<1> QED BY <1>3, <1>4
        DEF Next, Step, Resolve, GetSecret, EvictOther, EvictSame, Spawn, Rotate, Delete, vars

\* At capacity an insertion evicts another entry than the one the cache served last, for
\* any number of reconciles and Secrets and any CHILD_CLIENT_CACHE_CAP but 1: the victim
\* of min_by_key(last_used) is older than every other entry, and the last one served is
\* older than none.
THEOREM RecentSurvivesHolds == Spec => RecentSurvives
<1> DEFINE Inv == Shape /\ Numbered /\ Newest
<1>1. Init => Inv
  <2>1. Init => \A s \in Secrets : ~secret[s].live
    BY DEF Init, NoSecret
  <2> QED BY <2>1, ShapeInit DEF Init, Numbered, Newest
<1>2. Inv /\ [Next]_vars => Inv'
  BY ShapeStep, NumberedStep, NewestStep
<1>3. ASSUME Inv, [Next]_vars
      PROVE  [Cap > 1 => \A s \in latest : cache[s] # 0 => cache'[s] # 0]_vars
  <2> SUFFICES ASSUME Cap > 1, NEW s \in latest, cache[s] # 0 PROVE cache'[s] # 0
    OBVIOUS
  <2>1. CASE UNCHANGED cache
    BY <2>1
  <2>2. ASSUME NEW w \in Workers, Insert(w), ~UNCHANGED cache PROVE cache'[s] # 0
    <3>1. /\ cache' = [k \in Secrets |-> IF k = Key(w) THEN work[w].read.version
                                         ELSE IF k \in Evicted(w) THEN 0 ELSE cache[k]]
          /\ work[w].read.version # 0
      BY <1>3, <2>2 DEF Insert, At, Numbered
    <3>2. s \notin Evicted(w)
      <4> SUFFICES ASSUME s \in Evicted(w) PROVE FALSE
        OBVIOUS
      <4>1. s \in Cached /\ Cached \ {s} \subseteq {} /\ Cardinality(Cached) >= Cap
        BY <1>3 DEF Evicted, Newest
      <4>2. Cached = {s}
        BY <4>1
      <4>3. Cardinality(Cached) = 1
        BY <4>2, FS_Singleton
      <4> QED BY <4>1, <4>3, CacheAssumption
    <3>3. s \in Secrets
      BY <1>3 DEF Newest
    <3> QED BY <3>1, <3>2, <3>3
  <2> QED BY <1>3, <2>1, <2>2
          DEF Next, Step, Resolve, GetSecret, Lookup, EvictOther, EvictSame, Spawn, Rotate, Delete, vars
<1> QED BY <1>1, <1>2, <1>3, PTL DEF Spec, RecentSurvives

=============================================================================
