--------------------------- MODULE OperatorQueueProofs ---------------------------
(***************************************************************************)
(* OperatorQueue, for any number of replicas, objects, providers and kinds. *)
(***************************************************************************)
EXTENDS OperatorQueue, TLAPS

(* ReverseIndex *)

\* The two maps agree and no entry is empty.
IxSound(ix) ==
    \A p \in Providers : /\ ix.refs[p] = {s \in SMs : ix.key[s] = p}
                         /\ p \in ix.keys <=> ix.refs[p] # {}

LEMMA IndexFields ==
    ASSUME NEW ix \in Indexes
    PROVE  /\ ix.refs \in [Providers -> SUBSET SMs]
           /\ ix.keys \in SUBSET Providers
           /\ ix.key \in [SMs -> Refs]
BY DEF Indexes

LEMMA NoIndexSound == NoIndex \in Indexes /\ IxSound(NoIndex)
BY QueueAssumption DEF NoIndex, Indexes, Refs, IxSound

LEMMA RemoveType ==
    ASSUME NEW ix \in Indexes, NEW s \in SMs, NEW p \in Providers
    PROVE  /\ RemoveFromRefs(ix, s, p) \in Indexes
           /\ RemoveFromRefs(ix, s, p).key = ix.key
           /\ RemoveFromRefs(ix, s, p).refs = [ix.refs EXCEPT ![p] = @ \ {s}]
           /\ RemoveFromRefs(ix, s, p).keys =
                 IF ix.refs[p] \ {s} = {} THEN ix.keys \ {p} ELSE ix.keys
BY DEF RemoveFromRefs, Indexes

\* register: the object's entry moves.
LEMMA RegisteredSound ==
    ASSUME NEW ix \in Indexes, IxSound(ix), NEW s \in SMs, NEW p \in Providers
    PROVE  /\ Registered(ix, s, p) \in Indexes
           /\ Registered(ix, s, p).key = [ix.key EXCEPT ![s] = p]
           /\ IxSound(Registered(ix, s, p))
<1>. DEFINE old == ix.key[s]
            mid == IF old \in Providers /\ old # p THEN RemoveFromRefs(ix, s, old) ELSE ix
            new == [mid EXCEPT !.key[s] = p, !.refs[p] = @ \cup {s}, !.keys = @ \cup {p}]
<1>1. Registered(ix, s, p) = new
  BY DEF Registered
<1>2. mid \in Indexes /\ mid.key = ix.key
  <2>1. CASE old \in Providers /\ old # p
    <3>1. mid = RemoveFromRefs(ix, s, old)
      BY <2>1
    <3>. HIDE DEF mid, old
    <3>. QED BY <2>1, <3>1, RemoveType
  <2>2. CASE ~(old \in Providers /\ old # p)
    BY <2>2
  <2>. QED BY <2>1, <2>2
<1>3. /\ new.key = [mid.key EXCEPT ![s] = p]
      /\ new.refs = [mid.refs EXCEPT ![p] = @ \cup {s}]
      /\ new.keys = mid.keys \cup {p}
  BY <1>2 DEF Indexes
<1>4. new \in Indexes
  <2>. HIDE DEF mid
  <2>1. /\ [mid.key EXCEPT ![s] = p] \in [SMs -> Refs]
        /\ [mid.refs EXCEPT ![p] = @ \cup {s}] \in [Providers -> SUBSET SMs]
        /\ mid.keys \cup {p} \in SUBSET Providers
    BY <1>2, IndexFields DEF Refs
  <2>. QED BY <1>2, <2>1 DEF Indexes
<1>5. ASSUME NEW q \in Providers
      PROVE  /\ mid.refs[q] \ {s} = ix.refs[q] \ {s}
             /\ q # p => s \notin mid.refs[q]
             /\ q \in mid.keys <=> mid.refs[q] # {}
  <2>1. CASE old \in Providers /\ old # p
    <3>1. /\ mid.refs = [ix.refs EXCEPT ![old] = @ \ {s}]
          /\ mid.keys = IF ix.refs[old] \ {s} = {} THEN ix.keys \ {old} ELSE ix.keys
      <4>1. mid = RemoveFromRefs(ix, s, old)
        BY <2>1
      <4>. HIDE DEF mid, old
      <4>2. mid.refs = [ix.refs EXCEPT ![old] = @ \ {s}]
        BY <4>1 DEF RemoveFromRefs, Indexes
      <4>3. mid.keys = IF ix.refs[old] \ {s} = {} THEN ix.keys \ {old} ELSE ix.keys
        BY <4>1 DEF RemoveFromRefs, Indexes
      <4>. QED BY <4>2, <4>3
    <3>. HIDE DEF mid
    <3>2. ix.refs \in [Providers -> SUBSET SMs] /\ ix.keys \in SUBSET Providers
      BY IndexFields
    <3>3. mid.refs[q] = IF q = old THEN ix.refs[q] \ {s} ELSE ix.refs[q]
      BY <3>1, <3>2
    <3>4. s \in ix.refs[q] <=> q = old
      BY DEF IxSound
    <3>5. q \in ix.keys <=> ix.refs[q] # {}
      BY DEF IxSound
    <3>. QED BY <2>1, <3>1, <3>3, <3>4, <3>5
  <2>2. CASE ~(old \in Providers /\ old # p)
    BY <2>2, IndexFields DEF IxSound, Refs
  <2>. QED BY <2>1, <2>2
<1>6. ASSUME NEW q \in Providers
      PROVE  /\ new.refs[q] = {t \in SMs : new.key[t] = q}
             /\ q \in new.keys <=> new.refs[q] # {}
  <2>1. \A t \in SMs : t # s => (t \in mid.refs[q] <=> ix.key[t] = q)
    BY <1>5 DEF IxSound
  <2>2. mid.refs \in [Providers -> SUBSET SMs] /\ mid.key \in [SMs -> Refs]
    BY <1>2, IndexFields
  <2>3. new.refs[q] = IF q = p THEN mid.refs[q] \cup {s} ELSE mid.refs[q]
    BY <1>3, <2>2
  <2>4. \A t \in SMs : new.key[t] = IF t = s THEN p ELSE ix.key[t]
    BY <1>2, <1>3, <2>2
  <2>5. \A t \in SMs : t \in new.refs[q] <=> new.key[t] = q
    BY <1>5, <2>1, <2>3, <2>4
  <2>6. new.refs[q] \subseteq SMs
    BY <2>2, <2>3
  <2>. HIDE DEF new
  <2>7. new.refs[q] = {t \in SMs : new.key[t] = q}
    BY <2>5, <2>6
  <2>8. q \in new.keys <=> new.refs[q] # {}
    BY <1>3, <1>5, <2>3
  <2>. QED BY <2>7, <2>8
<1>7. IxSound(new)
  BY <1>6 DEF IxSound
<1>. QED BY <1>1, <1>2, <1>3, <1>4, <1>7

\* deregister
LEMMA DeregisteredSound ==
    ASSUME NEW ix \in Indexes, IxSound(ix), NEW s \in SMs
    PROVE  /\ Deregistered(ix, s) \in Indexes
           /\ Deregistered(ix, s).key = [ix.key EXCEPT ![s] = NoRef]
           /\ IxSound(Deregistered(ix, s))
<1>. DEFINE old == ix.key[s]
<1>. ix.key \in [SMs -> Refs]
  BY IndexFields
<1>1. CASE old = NoRef
  <2>1. Deregistered(ix, s) = ix
    BY <1>1 DEF Deregistered
  <2>2. ix.key = [ix.key EXCEPT ![s] = NoRef]
    BY <1>1
  <2>. QED BY <2>1, <2>2
<1>2. CASE old # NoRef
  <2>. DEFINE mid == [ix EXCEPT !.key[s] = NoRef]
              new == RemoveFromRefs(mid, s, old)
  <2>1. Deregistered(ix, s) = new /\ old \in Providers
    BY <1>2 DEF Deregistered, Refs
  <2>2. /\ mid \in Indexes /\ mid.key = [ix.key EXCEPT ![s] = NoRef]
        /\ mid.refs = ix.refs /\ mid.keys = ix.keys
    BY DEF Indexes, Refs
  <2>3. /\ new \in Indexes /\ new.key = mid.key
        /\ new.refs = [mid.refs EXCEPT ![old] = @ \ {s}]
        /\ new.keys = IF mid.refs[old] \ {s} = {} THEN mid.keys \ {old} ELSE mid.keys
    <3>. HIDE DEF mid, old
    <3>. QED BY <2>1, <2>2, RemoveType
  <2>. HIDE DEF mid, new
  <2>4. ASSUME NEW q \in Providers
        PROVE  /\ new.refs[q] = {t \in SMs : new.key[t] = q}
               /\ q \in new.keys <=> new.refs[q] # {}
    <3>1. ix.refs \in [Providers -> SUBSET SMs] /\ q # NoRef
      BY IndexFields, QueueAssumption
    <3>2. new.refs[q] = ix.refs[q] \ {s}
      BY <2>2, <2>3, <3>1 DEF IxSound
    <3>3. \A t \in SMs : new.key[t] = IF t = s THEN NoRef ELSE ix.key[t]
      BY <2>2, <2>3
    <3>. QED BY <2>1, <2>2, <2>3, <3>1, <3>2, <3>3 DEF IxSound
  <2>. QED BY <2>1, <2>2, <2>3, <2>4 DEF IxSound
<1>. QED BY <1>1, <1>2

\* An event sets the object's key to what it carries, and keeps the index sound.
LEMMA AppliedSound ==
    ASSUME NEW ix \in Indexes, IxSound(ix), NEW s \in SMs, NEW p \in Refs
    PROVE  /\ Applied(ix, s, p) \in Indexes
           /\ Applied(ix, s, p).key = [ix.key EXCEPT ![s] = p]
           /\ IxSound(Applied(ix, s, p))
BY RegisteredSound, DeregisteredSound DEF Applied, Refs

---------------------------------------------------------------------------
(* Types *)

\* One cell of a table of tables is replaced.
LEMMA Cell ==
    ASSUME NEW A, NEW B, NEW C, NEW f \in [A -> [B -> C]], NEW a \in A, NEW b \in B, NEW c \in C
    PROVE  [f EXCEPT ![a][b] = c] \in [A -> [B -> C]]
OBVIOUS

LEMMA Queues ==
    ASSUME NEW S, NEW q \in Seq(S)
    PROVE  /\ \A x \in S : Append(q, x) \in Seq(S)
           /\ q # <<>> => Head(q) \in S /\ Tail(q) \in Seq(S)
OBVIOUS

LEMMA ListingType ==
    ASSUME ref \in [SMs -> Refs] PROVE Listing \in [SMs -> Seq(Refs)]
<1>1. \A x \in Refs : <<x>> \in Seq(Refs) /\ <<>> \in Seq(Refs)
  OBVIOUS
<1>. QED BY <1>1 DEF Listing

LEMMA TypeInit == Init => TypeOK
<1>. SUFFICES ASSUME Init PROVE TypeOK
  OBVIOUS
<1>1. ref \in [SMs -> Refs] /\ NoRef \in Refs
  BY DEF Init, Refs
<1>2. Listing \in [SMs -> Seq(Refs)]
  BY <1>1, ListingType
<1>3. ownq \in [Replicas -> [SMs -> Seq(Refs)]] /\ ixq \in [Replicas -> [SMs -> Seq(Refs)]]
  BY <1>2 DEF Init
<1>4. index \in [Replicas -> Indexes]
  BY NoIndexSound DEF Init
<1>5. chan \in [Replicas -> Seq(SMs)] /\ \A r \in Replicas : Len(chan[r]) <= Cap
  <2>1. <<>> \in Seq(SMs) /\ Len(<<>>) = 0
    OBVIOUS
  <2>. QED BY <2>1, QueueAssumption DEF Init
<1>6. store \in [Replicas -> [SMs -> Refs]] /\ run \in [Replicas -> [SMs -> Refs]]
  BY <1>1 DEF Init, PerSM
<1>7. /\ wake \in [Replicas -> [SMs -> {"none", "later", "now"}]]
      /\ got \in [Replicas -> [SMs -> Values]]
      /\ read \in [Replicas -> [SMs -> {"no", "early", "indexed"}]]
      /\ watch \in [Replicas -> [Kinds -> {"none", "resolving", "watching"}]]
      /\ sending \in [Replicas -> [Kinds -> SUBSET SMs]]
  BY DEF Init, PerSM, Values
<1>8. val \in [Providers -> Values] /\ leader \in SUBSET Replicas
  BY DEF Init, Values
<1>. QED BY <1>1, <1>3, <1>4, <1>5, <1>6, <1>7, <1>8 DEF Init, TypeOK

\* The parts of TypeOK, so that a step only has to mention what it changes.
Tables ==
    /\ watch \in [Replicas -> [Kinds -> {"none", "resolving", "watching"}]]
    /\ due \in [Replicas -> SUBSET Providers]
    /\ sending \in [Replicas -> [Kinds -> SUBSET SMs]]

LEMMA SyncType ==
    ASSUME Tables, NEW r \in Replicas, NEW ix, SyncWatchers(r, ix) PROVE Tables'
<1>1. watch' \in [Replicas -> [Kinds -> {"none", "resolving", "watching"}]]
  BY DEF Tables, SyncWatchers
<1>2. due' \in [Replicas -> SUBSET Providers]
  BY DEF Tables, SyncWatchers
<1>3. sending' \in [Replicas -> [Kinds -> SUBSET SMs]]
  BY DEF Tables, SyncWatchers
<1>. QED BY <1>1, <1>2, <1>3 DEF Tables

IndexInv == \A r \in Replicas : IxSound(index[r])

LEMMA ObserveStep ==
    ASSUME TypeOK, IndexInv, NEW r \in Replicas, NEW s \in SMs, Observe(r, s)
    PROVE  /\ Head(ixq[r][s]) \in Refs
           /\ ixq' \in [Replicas -> [SMs -> Seq(Refs)]]
           /\ index' = [index EXCEPT ![r] = Applied(index[r], s, Head(ixq[r][s]))]
           /\ index'[r].key = [index[r].key EXCEPT ![s] = Head(ixq[r][s])]
           /\ index' \in [Replicas -> Indexes] /\ IndexInv'
           /\ SyncWatchers(r, index'[r])
<1>. DEFINE e == Head(ixq[r][s])
            ix == Applied(index[r], s, e)
<1>1. ixq \in [Replicas -> [SMs -> Seq(Refs)]] /\ index \in [Replicas -> Indexes]
  BY DEF TypeOK
<1>2. e \in Refs /\ Tail(ixq[r][s]) \in Seq(Refs)
  BY <1>1, Queues DEF Observe
<1>3. ixq' \in [Replicas -> [SMs -> Seq(Refs)]]
  <2>1. ixq' = [ixq EXCEPT ![r][s] = Tail(ixq[r][s])]
    BY DEF Observe
  <2>. QED BY <1>1, <1>2, <2>1, Cell
<1>4. index' = [index EXCEPT ![r] = ix] /\ SyncWatchers(r, ix)
  BY DEF Observe
<1>5. /\ ix \in Indexes /\ IxSound(ix)
      /\ ix.key = [index[r].key EXCEPT ![s] = e]
  BY <1>1, <1>2, AppliedSound DEF IndexInv
<1>. HIDE DEF ix
<1>6. index'[r] = ix /\ \A q \in Replicas : q # r => index'[q] = index[q]
  BY <1>1, <1>4
<1>7. index' \in [Replicas -> Indexes]
  BY <1>1, <1>4, <1>5
<1>8. IndexInv'
  BY <1>5, <1>6 DEF IndexInv
<1>. QED BY <1>2, <1>3, <1>4, <1>5, <1>6, <1>7, <1>8 DEF ix

LEMMA TypeStep == TypeOK /\ IndexInv /\ [Next]_vars => TypeOK' /\ IndexInv'
<1>. SUFFICES ASSUME TypeOK, IndexInv, [Next]_vars PROVE TypeOK' /\ IndexInv'
  OBVIOUS
<1>. USE DEF cluster, streams, works
<1>0. NoRef \in Refs /\ Providers \subseteq Refs /\ Cap \in Nat
  BY QueueAssumption DEF Refs
<1>1. ASSUME NEW s \in SMs, NEW p \in Refs, EditSM(s, p) PROVE TypeOK' /\ IndexInv'
  <2>1. ownq' \in [Replicas -> [SMs -> Seq(Refs)]] /\ ixq' \in [Replicas -> [SMs -> Seq(Refs)]]
    BY <1>1, Queues DEF TypeOK, EditSM
  <2>2. ref' \in [SMs -> Refs] /\ missed' \in [Replicas -> SUBSET SMs] /\ edits' \in Nat
    BY <1>1 DEF TypeOK, EditSM
  <2>. QED BY <1>1, <2>1, <2>2 DEF EditSM, TypeOK, IndexInv
<1>2. ASSUME NEW p \in Providers, NEW v \in Values, EditProvider(p, v) PROVE TypeOK' /\ IndexInv'
  <2>1. due' \in [Replicas -> SUBSET Providers] /\ val' \in [Providers -> Values] /\ edits' \in Nat
    BY <1>2 DEF TypeOK, EditProvider
  <2>. QED BY <1>2, <2>1 DEF EditProvider, TypeOK, IndexInv
<1>. SUFFICES ASSUME NEW r \in Replicas PROVE
        (\/ Work(r) \/ Gap(r) \/ Lose(r) \/ Restart(r) \/ (\E k \in Kinds : StreamEnds(r, k))
         \/ (\E s \in SMs : ReconcileFails(r, s)) \/ UNCHANGED vars) => TypeOK' /\ IndexInv'
  BY <1>1, <1>2 DEF Next, vars, TypeOK, IndexInv
<1>3. ASSUME NEW s \in SMs, Observe(r, s) PROVE TypeOK' /\ IndexInv'
  <2>1. Tables'
    BY <1>3, ObserveStep, SyncType DEF TypeOK, Tables
  <2>. QED BY <1>3, <2>1, ObserveStep DEF Observe, TypeOK, Tables
<1>4. ASSUME NEW s \in SMs, OwnEvent(r, s) PROVE TypeOK' /\ IndexInv'
  <2>1. ownq \in [Replicas -> [SMs -> Seq(Refs)]] /\ store \in [Replicas -> [SMs -> Refs]]
    BY DEF TypeOK
  <2>2. Head(ownq[r][s]) \in Refs /\ Tail(ownq[r][s]) \in Seq(Refs)
    BY <1>4, <2>1, Queues DEF OwnEvent
  <2>3. ownq' = [ownq EXCEPT ![r][s] = Tail(ownq[r][s])]
    BY <1>4 DEF OwnEvent
  <2>4. ownq' \in [Replicas -> [SMs -> Seq(Refs)]]
    BY <2>1, <2>2, <2>3, Cell
  <2>5. store' \in [Replicas -> [SMs -> Refs]]
    BY <1>4, <2>1, <2>2, Cell DEF OwnEvent
  <2>6. wake' \in [Replicas -> [SMs -> {"none", "later", "now"}]]
    <3>1. wake' = wake \/ wake' = [wake EXCEPT ![r][s] = "now"]
      BY <1>4 DEF OwnEvent, Wake
    <3>2. wake \in [Replicas -> [SMs -> {"none", "later", "now"}]] /\ "now" \in {"none", "later", "now"}
      BY DEF TypeOK
    <3>3. CASE wake' = wake
      BY <3>2, <3>3
    <3>4. CASE wake' = [wake EXCEPT ![r][s] = "now"]
      BY <3>2, <3>4, Cell
    <3>. QED BY <3>1, <3>3, <3>4
  <2>. QED BY <1>4, <2>4, <2>5, <2>6 DEF OwnEvent, TypeOK, IndexInv
<1>5. ASSUME NEW s \in SMs, Timer(r, s) PROVE TypeOK' /\ IndexInv'
  <2>1. wake' \in [Replicas -> [SMs -> {"none", "later", "now"}]]
    BY <1>5 DEF Timer, Wake, TypeOK
  <2>. QED BY <1>5, <2>1 DEF Timer, TypeOK, IndexInv
<1>6. ASSUME NEW s \in SMs, Begin(r, s) PROVE TypeOK' /\ IndexInv'
  <2>1. wake' \in [Replicas -> [SMs -> {"none", "later", "now"}]]
    BY <1>6 DEF Begin, TypeOK
  <2>2. run' \in [Replicas -> [SMs -> Refs]]
    <3>1. run' = run \/ run' = [run EXCEPT ![r][s] = store[r][s]]
      BY <1>6 DEF Begin
    <3>2. run \in [Replicas -> [SMs -> Refs]] /\ store[r][s] \in Refs
      BY DEF TypeOK
    <3>3. CASE run' = run
      BY <3>2, <3>3
    <3>4. CASE run' = [run EXCEPT ![r][s] = store[r][s]]
      BY <3>2, <3>4, Cell
    <3>. QED BY <3>1, <3>3, <3>4
  <2>3. read' \in [Replicas -> [SMs -> {"no", "early", "indexed"}]]
    <3>1. read' = read \/ read' = [read EXCEPT ![r][s] = "no"]
      BY <1>6 DEF Begin
    <3>2. read \in [Replicas -> [SMs -> {"no", "early", "indexed"}]] /\ "no" \in {"no", "early", "indexed"}
      BY DEF TypeOK
    <3>3. CASE read' = read
      BY <3>2, <3>3
    <3>4. CASE read' = [read EXCEPT ![r][s] = "no"]
      BY <3>2, <3>4, Cell
    <3>. QED BY <3>1, <3>3, <3>4
  <2>. QED BY <1>6, <2>1, <2>2, <2>3 DEF Begin, TypeOK, IndexInv
<1>7. ASSUME NEW s \in SMs, Reconcile(r, s) PROVE TypeOK' /\ IndexInv'
  <2>1. wake' \in [Replicas -> [SMs -> {"none", "later", "now"}]]
    BY <1>7 DEF Reconcile, Requeue, TypeOK
  <2>2. run' \in [Replicas -> [SMs -> Refs]]
    BY <1>0, <1>7 DEF Reconcile, TypeOK
  <2>3. read' \in [Replicas -> [SMs -> {"no", "early", "indexed"}]]
    <3>. DEFINE x == IF index[r].key[s] = run[r][s] /\ ixq[r][s] = <<>> THEN "indexed" ELSE "early"
    <3>1. read' = [read EXCEPT ![r][s] = x] /\ x \in {"no", "early", "indexed"}
      BY <1>7 DEF Reconcile
    <3>. HIDE DEF x
    <3>. QED BY <3>1 DEF TypeOK
  <2>4. got' \in [Replicas -> [SMs -> Values]]
    <3>1. run[r][s] \in Providers /\ val[run[r][s]] \in Values
      BY <1>7 DEF Reconcile, TypeOK, Refs
    <3>2. got' = got \/ got' = [got EXCEPT ![r][s] = val[run[r][s]]]
      BY <1>7 DEF Reconcile
    <3>3. got \in [Replicas -> [SMs -> Values]]
      BY DEF TypeOK
    <3>4. CASE got' = got
      BY <3>3, <3>4
    <3>5. CASE got' = [got EXCEPT ![r][s] = val[run[r][s]]]
      BY <3>1, <3>3, <3>5, Cell
    <3>. QED BY <3>2, <3>4, <3>5
  <2>. QED BY <1>7, <2>1, <2>2, <2>3, <2>4 DEF Reconcile, TypeOK, IndexInv
<1>8. ASSUME NEW k \in Kinds, Discover(r, k) PROVE TypeOK' /\ IndexInv'
  <2>1. watch' \in [Replicas -> [Kinds -> {"none", "resolving", "watching"}]]
    BY <1>8 DEF Discover, TypeOK
  <2>2. due' \in [Replicas -> SUBSET Providers]
    BY <1>8 DEF Discover, Listed, OfKind, TypeOK
  <2>. QED BY <1>8, <2>1, <2>2 DEF Discover, TypeOK, IndexInv
<1>9. ASSUME NEW k \in Kinds, StreamEnds(r, k) PROVE TypeOK' /\ IndexInv'
  <2>1. watch' \in [Replicas -> [Kinds -> {"none", "resolving", "watching"}]]
    <3>1. watch' = watch \/ watch' = [watch EXCEPT ![r][k] = "resolving"]
      BY <1>9 DEF StreamEnds
    <3>2. watch \in [Replicas -> [Kinds -> {"none", "resolving", "watching"}]] /\ "resolving" \in {"none", "resolving", "watching"}
      BY DEF TypeOK
    <3>3. CASE watch' = watch
      BY <3>2, <3>3
    <3>4. CASE watch' = [watch EXCEPT ![r][k] = "resolving"]
      BY <3>2, <3>4, Cell
    <3>. QED BY <3>1, <3>3, <3>4
  <2>2. due' \in [Replicas -> SUBSET Providers]
    <3>1. \/ due' = [due EXCEPT ![r] = due[r] \ OfKind(k)]
          \/ due' = [due EXCEPT ![r] = Listed(r, k)]
      BY <1>9 DEF StreamEnds
    <3>2. due[r] \ OfKind(k) \in SUBSET Providers /\ Listed(r, k) \in SUBSET Providers
      BY DEF Listed, OfKind, TypeOK
    <3>. QED BY <3>1, <3>2 DEF TypeOK
  <2>. QED BY <1>9, <2>1, <2>2 DEF StreamEnds, Fault, TypeOK, IndexInv
<1>10. ASSUME NEW p \in Providers, Emit(r, p) PROVE TypeOK' /\ IndexInv'
  <2>1. due' \in [Replicas -> SUBSET Providers]
    BY <1>10 DEF Emit, TypeOK
  <2>2. index[r].refs[p] \in SUBSET SMs /\ KindOf[p] \in Kinds
    BY IndexFields, QueueAssumption DEF TypeOK
  <2>3. sending' \in [Replicas -> [Kinds -> SUBSET SMs]]
    BY <1>10, <2>2, Cell DEF Emit, TypeOK
  <2>. QED BY <1>10, <2>1, <2>3 DEF Emit, TypeOK, IndexInv
<1>11. ASSUME NEW k \in Kinds, NEW s \in SMs, Send(r, k, s) PROVE TypeOK' /\ IndexInv'
  <2>1. sending' \in [Replicas -> [Kinds -> SUBSET SMs]]
    BY <1>11 DEF Send, TypeOK
  <2>2. chan[r] \in Seq(SMs) /\ Len(chan[r]) < Cap
    BY <1>11 DEF Send, Room, TypeOK
  <2>3. Append(chan[r], s) \in Seq(SMs) /\ Len(Append(chan[r], s)) <= Cap
    BY <1>0, <2>2
  <2>4. chan' = [chan EXCEPT ![r] = Append(chan[r], s)]
    BY <1>11 DEF Send
  <2>5. chan' \in [Replicas -> Seq(SMs)] /\ \A q \in Replicas : Len(chan'[q]) <= Cap
    BY <2>3, <2>4 DEF TypeOK
  <2>. QED BY <1>11, <2>1, <2>5 DEF Send, TypeOK, IndexInv
<1>12. ASSUME Receive(r) PROVE TypeOK' /\ IndexInv'
  <2>1. chan[r] \in Seq(SMs) /\ chan[r] # <<>> /\ Len(chan[r]) <= Cap
    BY <1>12 DEF Receive, TypeOK
  <2>2. Tail(chan[r]) \in Seq(SMs) /\ Len(Tail(chan[r])) <= Cap /\ Head(chan[r]) \in SMs
    BY <1>0, <2>1
  <2>3. chan' = [chan EXCEPT ![r] = Tail(chan[r])]
    BY <1>12 DEF Receive
  <2>4. chan' \in [Replicas -> Seq(SMs)] /\ \A q \in Replicas : Len(chan'[q]) <= Cap
    BY <2>2, <2>3 DEF TypeOK
  <2>5. wake' \in [Replicas -> [SMs -> {"none", "later", "now"}]]
    BY <1>12, <2>2, Cell DEF Receive, Wake, TypeOK
  <2>. QED BY <1>12, <2>4, <2>5 DEF Receive, TypeOK, IndexInv
<1>13. ASSUME Acquire(r) \/ Lose(r) PROVE TypeOK' /\ IndexInv'
  BY <1>13 DEF Acquire, Lose, Fault, TypeOK, IndexInv
<1>14. ASSUME Gap(r) PROVE TypeOK' /\ IndexInv'
  <2>1. ixq' \in [Replicas -> [SMs -> Seq(Refs)]]
    BY <1>14, ListingType DEF Gap, TypeOK
  <2>2. missed' \in [Replicas -> SUBSET SMs]
    BY <1>14 DEF Gap, TypeOK
  <2>. QED BY <1>14, <2>1, <2>2 DEF Gap, Fault, TypeOK, IndexInv
<1>15. ASSUME NEW s \in SMs, ReconcileFails(r, s) PROVE TypeOK' /\ IndexInv'
  <2>1. wake' \in [Replicas -> [SMs -> {"none", "later", "now"}]]
    BY <1>15 DEF ReconcileFails, Requeue, TypeOK
  <2>2. run' \in [Replicas -> [SMs -> Refs]]
    BY <1>0, <1>15 DEF ReconcileFails, TypeOK
  <2>3. read' \in [Replicas -> [SMs -> {"no", "early", "indexed"}]]
    BY <1>15 DEF ReconcileFails, TypeOK
  <2>. QED BY <1>15, <2>1, <2>2, <2>3 DEF ReconcileFails, Fault, TypeOK, IndexInv
<1>16. ASSUME Restart(r) PROVE TypeOK' /\ IndexInv'
  <2>1. ownq' \in [Replicas -> [SMs -> Seq(Refs)]] /\ ixq' \in [Replicas -> [SMs -> Seq(Refs)]]
    BY <1>16, ListingType DEF Restart, TypeOK
  <2>2. index' \in [Replicas -> Indexes] /\ IndexInv'
    BY <1>16, NoIndexSound DEF Restart, TypeOK, IndexInv
  <2>3. /\ store' \in [Replicas -> [SMs -> Refs]]
        /\ run' \in [Replicas -> [SMs -> Refs]]
    BY <1>0, <1>16 DEF Restart, TypeOK
  <2>4. Tables'
    BY <1>16 DEF Restart, TypeOK, Tables
  <2>5. chan' \in [Replicas -> Seq(SMs)] /\ \A q \in Replicas : Len(chan'[q]) <= Cap
    <3>1. <<>> \in Seq(SMs) /\ Len(<<>>) <= Cap
      BY <1>0
    <3>2. chan' = [chan EXCEPT ![r] = <<>>]
      BY <1>16 DEF Restart
    <3>. QED BY <3>1, <3>2 DEF TypeOK
  <2>6. /\ wake' \in [Replicas -> [SMs -> {"none", "later", "now"}]]
        /\ read' \in [Replicas -> [SMs -> {"no", "early", "indexed"}]]
        /\ missed' \in [Replicas -> SUBSET SMs]
        /\ leader' \in SUBSET Replicas
    BY <1>16 DEF Restart, TypeOK
  <2>. QED BY <1>16, <2>1, <2>2, <2>3, <2>4, <2>5, <2>6 DEF Restart, Fault, TypeOK, Tables
<1>17. CASE UNCHANGED vars
  BY <1>17 DEF vars, TypeOK, IndexInv
<1>. QED BY <1>3, <1>4, <1>5, <1>6, <1>7, <1>8, <1>9, <1>10, <1>11, <1>12, <1>13, <1>14, <1>15,
            <1>16, <1>17 DEF Work

\* The wiring and the work queue: every reachable state is well typed, the channel
\* never holds more than its capacity, and both maps of every index agree.
THEOREM QueueTypes == Spec => [](TypeOK /\ IndexInv)
<1>1. Init => IndexInv
  BY NoIndexSound DEF Init, IndexInv
<1>. QED BY <1>1, TypeInit, TypeStep, PTL DEF Spec

---------------------------------------------------------------------------
(* The index and the watch tasks *)

WatchInv ==
    \A r \in Replicas : \A k \in Kinds : watch[r][k] # "none" <=> k \in ReferencedKinds(index[r])

LEMMA WatchStep == TypeOK /\ IndexInv /\ WatchInv /\ [Next]_vars => WatchInv'
<1>. SUFFICES ASSUME TypeOK, IndexInv, WatchInv, [Next]_vars PROVE WatchInv'
  OBVIOUS
<1>. USE DEF cluster, streams, works
<1>0. /\ watch \in [Replicas -> [Kinds -> {"none", "resolving", "watching"}]]
      /\ index \in [Replicas -> Indexes]
  BY DEF TypeOK
<1>1. CASE UNCHANGED <<watch, index>>
  BY <1>1 DEF WatchInv, ReferencedKinds
<1>2. ASSUME NEW r \in Replicas, NEW s \in SMs, Observe(r, s) PROVE WatchInv'
  <2>. DEFINE ix == index'[r]
  <2>1. /\ SyncWatchers(r, ix)
        /\ \A q \in Replicas : q # r => index'[q] = index[q]
    <3>1. /\ index' = [index EXCEPT ![r] = Applied(index[r], s, Head(ixq[r][s]))]
          /\ SyncWatchers(r, index'[r])
      BY <1>2, ObserveStep
    <3>. QED BY <1>0, <3>1
  <2>2. \A k \in Kinds : watch'[r][k] # "none" <=> k \in ReferencedKinds(ix)
    BY <1>0, <2>1 DEF SyncWatchers
  <2>3. \A q \in Replicas : q # r => watch'[q] = watch[q]
    BY <1>0, <2>1 DEF SyncWatchers
  <2>. QED BY <2>1, <2>2, <2>3 DEF WatchInv, ReferencedKinds
<1>3. ASSUME NEW r \in Replicas, NEW k \in Kinds,
             \/ watch[r][k] = "resolving" /\ watch' = [watch EXCEPT ![r][k] = "watching"]
             \/ watch[r][k] = "watching" /\ watch' = [watch EXCEPT ![r][k] = "resolving"],
             UNCHANGED index
      PROVE  WatchInv'
  <2>1. \A q \in Replicas, j \in Kinds : watch'[q][j] # "none" <=> watch[q][j] # "none"
    BY <1>0, <1>3
  <2>. QED BY <1>3, <2>1 DEF WatchInv, ReferencedKinds
<1>4. ASSUME NEW r \in Replicas, Restart(r) PROVE WatchInv'
  <2>1. /\ watch' = [watch EXCEPT ![r] = [k \in Kinds |-> "none"]]
        /\ index' = [index EXCEPT ![r] = NoIndex]
    BY <1>4 DEF Restart
  <2>2. ReferencedKinds(NoIndex) = {}
    BY DEF ReferencedKinds, NoIndex
  <2>3. /\ \A k \in Kinds : watch'[r][k] = "none"
        /\ index'[r] = NoIndex
        /\ \A q \in Replicas : q # r => watch'[q] = watch[q] /\ index'[q] = index[q]
    BY <1>0, <2>1
  <2>. QED BY <2>2, <2>3 DEF WatchInv, ReferencedKinds
<1>5. ASSUME NEW r \in Replicas, NEW k \in Kinds, Discover(r, k) PROVE WatchInv'
  BY <1>3, <1>5 DEF Discover
<1>6. ASSUME NEW r \in Replicas, NEW k \in Kinds, StreamEnds(r, k) PROVE WatchInv'
  BY <1>1, <1>3, <1>6 DEF StreamEnds
<1>7. ASSUME NEW r \in Replicas, Work(r) PROVE WatchInv'
  <2>1. ASSUME NEW s \in SMs, OwnEvent(r, s) \/ Timer(r, s) \/ Begin(r, s) \/ Reconcile(r, s)
        PROVE  UNCHANGED <<watch, index>>
    BY <2>1 DEF OwnEvent, Timer, Begin, Reconcile
  <2>2. ASSUME NEW p \in Providers, Emit(r, p) PROVE UNCHANGED <<watch, index>>
    BY <2>2 DEF Emit
  <2>3. ASSUME NEW k \in Kinds, NEW s \in SMs, Send(r, k, s) PROVE UNCHANGED <<watch, index>>
    BY <2>3 DEF Send
  <2>4. Receive(r) \/ Acquire(r) => UNCHANGED <<watch, index>>
    BY DEF Receive, Acquire
  <2>. QED BY <1>1, <1>2, <1>5, <1>7, <2>1, <2>2, <2>3, <2>4 DEF Work
<1>8. ASSUME NEW r \in Replicas, Gap(r) \/ Lose(r) \/ (\E s \in SMs : ReconcileFails(r, s))
      PROVE  UNCHANGED <<watch, index>>
  BY <1>8 DEF Gap, Lose, ReconcileFails
<1>9. ASSUME (\E s \in SMs, p \in Refs : EditSM(s, p))
             \/ (\E p \in Providers, v \in Values : EditProvider(p, v))
      PROVE  UNCHANGED <<watch, index>>
  BY <1>9 DEF EditSM, EditProvider
<1>10. CASE UNCHANGED vars
  BY <1>1, <1>10 DEF vars
<1>. QED BY <1>1, <1>4, <1>6, <1>7, <1>8, <1>9, <1>10 DEF Next

\* register, deregister and sync_watchers: after any order of creations, changes of
\* reference, deletions, relists and restarts the maps of the index agree and exactly
\* the referenced kinds have a watch task.
THEOREM IndexSoundHolds == Spec => []IndexSound
<1>1. Init => WatchInv
  BY DEF Init, WatchInv, ReferencedKinds, NoIndex
<1>2. IndexInv /\ WatchInv => IndexSound
  BY DEF IndexInv, IxSound, WatchInv, IndexSound
<1>. QED BY <1>1, <1>2, QueueTypes, WatchStep, PTL DEF Spec

---------------------------------------------------------------------------
(* The index and the cluster *)

LEMMA LastOf ==
    ASSUME NEW S, NEW q \in Seq(S)
    PROVE  /\ \A x \in S : Append(q, x) # <<>> /\ Append(q, x)[Len(Append(q, x))] = x
           /\ (q # <<>> /\ Tail(q) = <<>>) => q[Len(q)] = Head(q)
           /\ (q # <<>> /\ Tail(q) # <<>>) => Tail(q)[Len(Tail(q))] = q[Len(q)]
OBVIOUS

\* A list that has just been made tells what the cluster says.
LEMMA ListedTracks ==
    ASSUME TypeOK, NEW r \in Replicas, NEW s \in SMs, ixq'[r] = Listing, ref' = ref
    PROVE  Delivered(r, s)' = IF ref[s] = NoRef THEN index'[r].key[s] ELSE ref[s]
<1>1. ref[s] # NoRef => ixq'[r][s] = <<ref[s]>>
  BY DEF Listing
<1>2. ref[s] = NoRef => ixq'[r][s] = <<>>
  BY DEF Listing
<1>3. <<ref[s]>> # <<>> /\ Len(<<ref[s]>>) = 1 /\ <<ref[s]>>[1] = ref[s]
  OBVIOUS
<1>. QED BY <1>1, <1>2, <1>3 DEF Delivered

LEMMA TracksStep == TypeOK /\ IndexInv /\ IndexTracks /\ [Next]_vars => IndexTracks'
<1>. SUFFICES ASSUME TypeOK, IndexInv, IndexTracks, [Next]_vars PROVE IndexTracks'
  OBVIOUS
<1>. USE DEF cluster, streams, works
<1>0. /\ ixq \in [Replicas -> [SMs -> Seq(Refs)]] /\ ref \in [SMs -> Refs]
      /\ index \in [Replicas -> Indexes] /\ missed \in [Replicas -> SUBSET SMs]
      /\ NoRef \in Refs
  BY DEF TypeOK, Refs
<1>1. CASE UNCHANGED <<ref, ixq, index, missed>>
  BY <1>1 DEF IndexTracks, Delivered
<1>2. ASSUME NEW s \in SMs, NEW p \in Refs, EditSM(s, p) PROVE IndexTracks'
  <2>. SUFFICES ASSUME NEW r \in Replicas, NEW t \in SMs
                PROVE  IF t \in missed'[r] THEN ref'[t] = NoRef ELSE Delivered(r, t)' = ref'[t]
    BY DEF IndexTracks
  <2>1. /\ ref'[s] = p /\ ixq'[r][s] = Append(ixq[r][s], p)
        /\ s \notin missed'[r] /\ index' = index
        /\ t # s => /\ ref'[t] = ref[t] /\ ixq'[r][t] = ixq[r][t]
                    /\ t \in missed'[r] <=> t \in missed[r]
    BY <1>0, <1>2 DEF EditSM
  <2>2. CASE t = s
    <3>1. ixq'[r][s] # <<>> /\ ixq'[r][s][Len(ixq'[r][s])] = p
      BY <1>0, <2>1, LastOf
    <3>. QED BY <2>1, <2>2, <3>1 DEF Delivered
  <2>3. CASE t # s
    BY <2>1, <2>3 DEF IndexTracks, Delivered
  <2>. QED BY <2>2, <2>3
<1>3. ASSUME NEW r \in Replicas, NEW s \in SMs, Observe(r, s) PROVE IndexTracks'
  <2>. SUFFICES ASSUME NEW q \in Replicas, NEW t \in SMs
                PROVE  IF t \in missed[q] THEN ref[t] = NoRef ELSE Delivered(q, t)' = ref[t]
    BY <1>3 DEF IndexTracks, Observe
  <2>1. /\ ixq[r][s] # <<>> /\ ixq' = [ixq EXCEPT ![r][s] = Tail(ixq[r][s])]
        /\ index' \in [Replicas -> Indexes]
        /\ index'[r].key = [index[r].key EXCEPT ![s] = Head(ixq[r][s])]
        /\ \A v \in Replicas : v # r => index'[v] = index[v]
    BY <1>0, <1>3, ObserveStep DEF Observe
  <2>2. index[r].key \in [SMs -> Refs]
    BY <1>0, IndexFields
  <2>3. CASE q = r /\ t = s
    <3>1. ixq'[r][s] = Tail(ixq[r][s]) /\ index'[r].key[s] = Head(ixq[r][s])
      BY <1>0, <2>1, <2>2
    <3>2. Delivered(r, s)' = Delivered(r, s)
      <4>. DEFINE e == ixq[r][s]
      <4>1. e \in Seq(Refs) /\ e # <<>>
        BY <1>0, <2>1
      <4>2. /\ Tail(e) = <<>> => e[Len(e)] = Head(e)
            /\ Tail(e) # <<>> => Tail(e)[Len(Tail(e))] = e[Len(e)]
        <5>. HIDE DEF e
        <5>. QED BY <4>1, LastOf
      <4>3. Delivered(r, s) = e[Len(e)]
        BY <4>1 DEF Delivered
      <4>4. Delivered(r, s)' = IF Tail(e) = <<>> THEN Head(e) ELSE Tail(e)[Len(Tail(e))]
        BY <3>1 DEF Delivered
      <4>. HIDE DEF e
      <4>. QED BY <4>2, <4>3, <4>4
    <3>. QED BY <2>3, <3>2 DEF IndexTracks
  <2>4. CASE ~(q = r /\ t = s)
    <3>1. ixq'[q][t] = ixq[q][t]
      BY <1>0, <2>1, <2>4
    <3>2. index'[q].key[t] = index[q].key[t]
      BY <2>1, <2>2, <2>4
    <3>. QED BY <3>1, <3>2 DEF IndexTracks, Delivered
  <2>. QED BY <2>3, <2>4
<1>4. ASSUME NEW r \in Replicas, Gap(r) PROVE IndexTracks'
  <2>. SUFFICES ASSUME NEW q \in Replicas, NEW t \in SMs
                PROVE  IF t \in missed'[q] THEN ref[t] = NoRef ELSE Delivered(q, t)' = ref[t]
    BY <1>4 DEF IndexTracks, Gap
  <2>1. /\ ixq'[r] = Listing /\ index' = index /\ ref' = ref
        /\ missed'[r] = missed[r] \cup {v \in SMs : ref[v] = NoRef /\ index[r].key[v] # NoRef}
        /\ q # r => ixq'[q] = ixq[q] /\ missed'[q] = missed[q]
    BY <1>0, <1>4 DEF Gap
  <2>2. CASE q = r
    BY <2>1, <2>2, ListedTracks DEF IndexTracks
  <2>3. CASE q # r
    BY <2>1, <2>3 DEF IndexTracks, Delivered
  <2>. QED BY <2>2, <2>3
<1>5. ASSUME NEW r \in Replicas, Restart(r) PROVE IndexTracks'
  <2>. SUFFICES ASSUME NEW q \in Replicas, NEW t \in SMs
                PROVE  IF t \in missed'[q] THEN ref[t] = NoRef ELSE Delivered(q, t)' = ref[t]
    BY <1>5 DEF IndexTracks, Restart
  <2>1. /\ ixq'[r] = Listing /\ index'[r] = NoIndex /\ ref' = ref /\ missed'[r] = {}
        /\ q # r => ixq'[q] = ixq[q] /\ missed'[q] = missed[q] /\ index'[q] = index[q]
    BY <1>0, <1>5 DEF Restart
  <2>2. NoIndex.key[t] = NoRef
    BY DEF NoIndex
  <2>3. CASE q = r
    BY <2>1, <2>2, <2>3, ListedTracks
  <2>4. CASE q # r
    BY <2>1, <2>4 DEF IndexTracks, Delivered
  <2>. QED BY <2>3, <2>4
<1>6. ASSUME NEW r \in Replicas, Work(r) PROVE IndexTracks'
  <2>1. ASSUME NEW s \in SMs, OwnEvent(r, s) \/ Timer(r, s) \/ Begin(r, s) \/ Reconcile(r, s)
        PROVE  UNCHANGED <<ref, ixq, index, missed>>
    BY <2>1 DEF OwnEvent, Timer, Begin, Reconcile
  <2>2. ASSUME NEW p \in Providers, Emit(r, p) PROVE UNCHANGED <<ref, ixq, index, missed>>
    BY <2>2 DEF Emit
  <2>3. ASSUME NEW k \in Kinds, Discover(r, k) \/ (\E s \in SMs : Send(r, k, s))
        PROVE  UNCHANGED <<ref, ixq, index, missed>>
    BY <2>3 DEF Discover, Send
  <2>4. Receive(r) \/ Acquire(r) => UNCHANGED <<ref, ixq, index, missed>>
    BY DEF Receive, Acquire
  <2>. QED BY <1>1, <1>3, <1>6, <2>1, <2>2, <2>3, <2>4 DEF Work
<1>7. ASSUME NEW r \in Replicas, Lose(r) \/ (\E s \in SMs : ReconcileFails(r, s))
                                         \/ (\E k \in Kinds : StreamEnds(r, k))
      PROVE  UNCHANGED <<ref, ixq, index, missed>>
  BY <1>7 DEF Lose, ReconcileFails, StreamEnds
<1>8. ASSUME NEW p \in Providers, NEW v \in Values, EditProvider(p, v)
      PROVE  UNCHANGED <<ref, ixq, index, missed>>
  BY <1>8 DEF EditProvider
<1>9. CASE UNCHANGED vars
  BY <1>1, <1>9 DEF vars
<1>. QED BY <1>1, <1>2, <1>4, <1>5, <1>6, <1>7, <1>8, <1>9 DEF Next

\* observe_scheduled_machine and forget_scheduled_machine: once its events are delivered
\* the index says what the cluster says, and only a deletion in a watch gap is missed.
THEOREM IndexTracksHolds == Spec => []IndexTracks
<1>1. Init => IndexTracks
  <2>. SUFFICES ASSUME Init, NEW r \in Replicas, NEW s \in SMs
                PROVE  s \notin missed[r] /\ Delivered(r, s) = ref[s]
    BY DEF IndexTracks
  <2>1. /\ ixq[r][s] = IF ref[s] = NoRef THEN <<>> ELSE <<ref[s]>>
        /\ index[r].key[s] = NoRef /\ missed[r] = {}
    BY DEF Init, Listing, NoIndex
  <2>2. <<ref[s]>> # <<>> /\ Len(<<ref[s]>>) = 1 /\ <<ref[s]>>[1] = ref[s]
    OBVIOUS
  <2>. QED BY <2>1, <2>2 DEF Delivered
<1>. QED BY <1>1, QueueTypes, TracksStep, PTL DEF Spec

---------------------------------------------------------------------------
(* No lost wake-up *)

\* The controller's cache says what the cluster says once its events are delivered.
Current(r, s) ==
    IF ownq[r][s] = <<>> THEN store[r][s] = ref[s] ELSE ownq[r][s][Len(ownq[r][s])] = ref[s]

\* An object whose provider was read through the index, with no reconcile under way or due
\* and no event of its own under way, is indexed under its provider, and stays so when
\* the reflector lists again.
Quiet(r, s) == wake[r][s] # "now" /\ run[r][s] = NoRef /\ ownq[r][s] = <<>>
Only(q, x) == \A i \in 1..Len(q) : q[i] = x
Known(r, s) ==
    (read[r][s] = "indexed" /\ ref[s] # NoRef /\ Quiet(r, s)) =>
        index[r].key[s] = ref[s] /\ Only(ixq[r][s], ref[s])

Informed(r, s) ==
    \A p \in Providers :
        (/\ ref[s] = p /\ read[r][s] = "indexed"
         /\ val[p] # "absent" /\ got[r][s] # val[p]) => OnItsWay(r, s, p)

Wakeful == \A r \in Replicas, s \in SMs : Current(r, s) /\ Known(r, s) /\ Informed(r, s)

LEMMA OnlyTail ==
    ASSUME NEW S, NEW q \in Seq(S), q # <<>>, NEW x, Only(q, x)
    PROVE  Head(q) = x /\ Only(Tail(q), x)
BY DEF Only

LEMMA OnlyListed ==
    ASSUME NEW S, NEW x \in S PROVE Only(<<x>>, x) /\ <<x>> # <<>> /\ Len(<<x>>) = 1 /\ <<x>>[1] = x
BY DEF Only

\* A reference in a channel stays there until it is received.
LEMMA InChannel ==
    ASSUME NEW S, NEW q \in Seq(S), NEW x \in S
    PROVE  /\ \A y \in S : (\E i \in 1..Len(q) : q[i] = x) \/ y = x
                              => \E i \in 1..Len(Append(q, y)) : Append(q, y)[i] = x
           /\ q # <<>> /\ (\E i \in 1..Len(q) : q[i] = x) =>
                 Head(q) = x \/ \E i \in 1..Len(Tail(q)) : Tail(q)[i] = x
<1>1. ASSUME NEW y \in S, (\E i \in 1..Len(q) : q[i] = x) \/ y = x
      PROVE  \E i \in 1..Len(Append(q, y)) : Append(q, y)[i] = x
  <2>1. Len(Append(q, y)) = Len(q) + 1 /\ Append(q, y)[Len(q) + 1] = y
    OBVIOUS
  <2>2. \A i \in 1..Len(q) : Append(q, y)[i] = q[i]
    OBVIOUS
  <2>3. Len(q) \in Nat
    OBVIOUS
  <2>. QED BY <1>1, <2>1, <2>2, <2>3
<1>2. ASSUME q # <<>>, NEW i \in 1..Len(q), q[i] = x, Head(q) # x
      PROVE  \E j \in 1..Len(Tail(q)) : Tail(q)[j] = x
  <2>1. i - 1 \in 1..Len(Tail(q)) /\ Tail(q)[i - 1] = q[i]
    BY <1>2
  <2>. QED BY <1>2, <2>1
<1>. QED BY <1>1, <1>2

\* What a replica does.
Acts(q) ==
    \/ Work(q) \/ Gap(q) \/ Lose(q) \/ Restart(q)
    \/ (\E k \in Kinds : StreamEnds(q, k)) \/ (\E s \in SMs : ReconcileFails(q, s))

\* A replica's step touches its own tables and the lease.
LEMMA Elsewhere ==
    ASSUME TypeOK, NEW q \in Replicas, NEW r \in Replicas, q # r, Acts(q)
    PROVE  /\ ref' = ref /\ val' = val
           /\ store'[r] = store[r] /\ ownq'[r] = ownq[r] /\ ixq'[r] = ixq[r]
           /\ index'[r] = index[r] /\ watch'[r] = watch[r] /\ due'[r] = due[r]
           /\ sending'[r] = sending[r] /\ chan'[r] = chan[r] /\ wake'[r] = wake[r]
           /\ run'[r] = run[r] /\ got'[r] = got[r] /\ read'[r] = read[r]
<1>. USE DEF cluster, streams, works, TypeOK
<1>1. ASSUME NEW s \in SMs, Observe(q, s)
      PROVE  /\ UNCHANGED <<ref, val, store, ownq, chan, wake, run, got, read>>
             /\ ixq'[r] = ixq[r] /\ index'[r] = index[r] /\ watch'[r] = watch[r]
             /\ due'[r] = due[r] /\ sending'[r] = sending[r]
  BY <1>1 DEF Observe, SyncWatchers
<1>2. ASSUME NEW s \in SMs, OwnEvent(q, s)
      PROVE  /\ UNCHANGED <<ref, val, ixq, index, watch, due, sending, chan, run, got, read>>
             /\ store'[r] = store[r] /\ ownq'[r] = ownq[r] /\ wake'[r] = wake[r]
  BY <1>2 DEF OwnEvent, Wake
<1>3. ASSUME NEW s \in SMs, Timer(q, s) \/ Begin(q, s) \/ Reconcile(q, s) \/ ReconcileFails(q, s)
      PROVE  /\ UNCHANGED <<ref, val, store, ownq, ixq, index, watch, due, sending, chan>>
             /\ wake'[r] = wake[r] /\ run'[r] = run[r] /\ got'[r] = got[r] /\ read'[r] = read[r]
  BY <1>3 DEF Timer, Begin, Reconcile, ReconcileFails, Requeue, Wake
<1>4. ASSUME NEW k \in Kinds, Discover(q, k) \/ StreamEnds(q, k)
      PROVE  /\ UNCHANGED <<ref, val, store, ownq, ixq, index, sending, chan, wake, run, got, read>>
             /\ watch'[r] = watch[r] /\ due'[r] = due[r]
  BY <1>4 DEF Discover, StreamEnds
<1>5. ASSUME NEW p \in Providers, Emit(q, p)
      PROVE  /\ UNCHANGED <<ref, val, store, ownq, ixq, index, watch, chan, wake, run, got, read>>
             /\ due'[r] = due[r] /\ sending'[r] = sending[r]
  BY <1>5 DEF Emit
<1>6. ASSUME NEW k \in Kinds, NEW s \in SMs, Send(q, k, s)
      PROVE  /\ UNCHANGED <<ref, val, store, ownq, ixq, index, watch, due, wake, run, got, read>>
             /\ chan'[r] = chan[r] /\ sending'[r] = sending[r]
  BY <1>6 DEF Send
<1>7. ASSUME Receive(q)
      PROVE  /\ UNCHANGED <<ref, val, store, ownq, ixq, index, watch, due, sending, run, got, read>>
             /\ chan'[r] = chan[r] /\ wake'[r] = wake[r]
  BY <1>7 DEF Receive, Wake
<1>8. CASE Acquire(q) \/ Lose(q)
  BY <1>8 DEF Acquire, Lose
<1>9. CASE Gap(q)
  BY <1>9 DEF Gap
<1>10. CASE Restart(q)
  BY <1>10 DEF Restart
<1>. QED BY <1>1, <1>2, <1>3, <1>4, <1>5, <1>6, <1>7, <1>8, <1>9, <1>10 DEF Acts, Work

\* The cells of the tables that a step of replica r leaves alone.
Untouched(r, s) ==
    /\ store'[r][s] = store[r][s] /\ ownq'[r][s] = ownq[r][s] /\ ixq'[r][s] = ixq[r][s]
    /\ index'[r].key[s] = index[r].key[s] /\ wake'[r][s] = wake[r][s]
    /\ run'[r][s] = run[r][s] /\ got'[r][s] = got[r][s] /\ read'[r][s] = read[r][s]

LEMMA UntouchedKeeps ==
    ASSUME NEW r \in Replicas, NEW s \in SMs, Untouched(r, s), ref'[s] = ref[s]
    PROVE  (Current(r, s) => Current(r, s)') /\ (Known(r, s) => Known(r, s)')
BY DEF Untouched, Current, Known, Quiet, Only

\* A quiet object that is informed stays so while its news stays on its way.
LEMMA InformedKeeps ==
    ASSUME NEW r \in Replicas, NEW s \in SMs, ref'[s] = ref[s], val' = val,
           read'[r][s] = read[r][s], got'[r][s] = got[r][s], Informed(r, s),
           \A p \in Providers :
              (ref[s] = p /\ read[r][s] = "indexed" /\ val[p] # "absent" /\ OnItsWay(r, s, p))
                  => OnItsWay(r, s, p)'
    PROVE  Informed(r, s)'
BY DEF Informed

\* The edits of users and providers.
LEMMA EditWakeful ==
    ASSUME TypeOK, Wakeful, NEW r \in Replicas, NEW s \in SMs,
           \/ \E t \in SMs, p \in Refs : EditSM(t, p)
           \/ \E p \in Providers, v \in Values : EditProvider(p, v)
    PROVE  Current(r, s)' /\ Known(r, s)' /\ Informed(r, s)'
<1>. USE DEF cluster, streams, works
<1>0. Current(r, s) /\ Known(r, s) /\ Informed(r, s)
  BY DEF Wakeful
<1>1. ASSUME NEW t \in SMs, NEW p \in Refs, EditSM(t, p)
      PROVE  Current(r, s)' /\ Known(r, s)' /\ Informed(r, s)'
  <2>1. CASE t = s
    <3>1. ref'[s] = p /\ ownq'[r][s] = Append(ownq[r][s], p) /\ ownq[r][s] \in Seq(Refs)
      BY <1>1, <2>1 DEF EditSM, TypeOK
    <3>2. ownq'[r][s] # <<>> /\ ownq'[r][s][Len(ownq'[r][s])] = p
      BY <3>1, LastOf
    <3>. QED BY <3>1, <3>2 DEF Current, Known, Quiet, Informed, OnItsWay
  <2>2. CASE t # s
    <3>1. Untouched(r, s) /\ ref'[s] = ref[s]
      BY <1>1, <2>2 DEF EditSM, Untouched, TypeOK
    <3>2. Informed(r, s)'
      <4>1. UNCHANGED <<val, watch, due, sending, chan>>
        BY <1>1 DEF EditSM
      <4>2. \A q \in Providers : OnItsWay(r, s, q) => OnItsWay(r, s, q)'
        BY <3>1, <4>1 DEF Untouched, OnItsWay
      <4>. QED BY <1>0, <3>1, <4>1, <4>2, InformedKeeps DEF Untouched
    <3>. QED BY <1>0, <3>1, <3>2, UntouchedKeeps
  <2>. QED BY <2>1, <2>2
<1>2. ASSUME NEW p \in Providers, NEW v \in Values, EditProvider(p, v)
      PROVE  Current(r, s)' /\ Known(r, s)' /\ Informed(r, s)'
  <2>1. Untouched(r, s) /\ ref' = ref
    BY <1>2 DEF EditProvider, Untouched
  <2>2. /\ UNCHANGED <<wake, run, ownq, chan, sending, watch>>
        /\ due'[r] = IF watch[r][KindOf[p]] = "watching" THEN due[r] \cup {p} ELSE due[r]
        /\ \A q \in Providers : q # p => val'[q] = val[q]
    BY <1>2 DEF EditProvider, TypeOK
  <2>3. \A q \in Providers : OnItsWay(r, s, q) => OnItsWay(r, s, q)'
    BY <2>2 DEF OnItsWay
  <2>4. OnItsWay(r, s, p)'
    BY <2>2 DEF OnItsWay
  <2>5. Informed(r, s)'
    BY <1>0, <2>1, <2>2, <2>3, <2>4 DEF Informed, Untouched
  <2>. QED BY <1>0, <2>1, <2>5, UntouchedKeeps
<1>. QED BY <1>1, <1>2

\* The reflector: what it registers is where a change will be sent, and a task that is
\* stopped will list when it starts again.
LEMMA ObserveWakeful ==
    ASSUME TypeOK, IndexInv, Wakeful, NEW r \in Replicas, NEW s \in SMs, NEW t \in SMs,
           Observe(r, t)
    PROVE  Current(r, s)' /\ Known(r, s)' /\ Informed(r, s)'
<1>. USE DEF cluster, streams, works
<1>0. /\ Current(r, s) /\ Known(r, s) /\ Informed(r, s)
      /\ index \in [Replicas -> Indexes] /\ index[r].key \in [SMs -> Refs]
  BY IndexFields DEF Wakeful, TypeOK
<1>1. /\ ixq[r][t] # <<>> /\ ixq[r][t] \in Seq(Refs)
      /\ ixq' = [ixq EXCEPT ![r][t] = Tail(ixq[r][t])]
      /\ UNCHANGED <<ref, val, store, ownq, chan, wake, run, got, read>>
      /\ index'[r].key = [index[r].key EXCEPT ![t] = Head(ixq[r][t])]
      /\ SyncWatchers(r, index'[r])
  <2>1. /\ index'[r].key = [index[r].key EXCEPT ![t] = Head(ixq[r][t])]
        /\ SyncWatchers(r, index'[r])
    BY ObserveStep
  <2>2. ixq[r][t] \in Seq(Refs)
    BY DEF TypeOK
  <2>3. /\ ixq[r][t] # <<>> /\ ixq' = [ixq EXCEPT ![r][t] = Tail(ixq[r][t])]
        /\ UNCHANGED <<ref, val, store, ownq, chan, wake, run, got, read>>
    BY DEF Observe
  <2>. QED BY <2>1, <2>2, <2>3
<1>2. Current(r, s)'
  BY <1>0, <1>1 DEF Current
<1>3. Known(r, s)'
  <2>1. CASE t = s
    <3>1. ixq'[r][s] = Tail(ixq[r][s]) /\ index'[r].key[s] = Head(ixq[r][s])
      BY <1>0, <1>1, <2>1 DEF TypeOK
    <3>2. Only(ixq[r][s], ref[s]) => Head(ixq[r][s]) = ref[s] /\ Only(Tail(ixq[r][s]), ref[s])
      BY <1>1, <2>1, OnlyTail
    <3>. QED BY <1>0, <1>1, <3>1, <3>2 DEF Known, Quiet
  <2>2. CASE t # s
    BY <1>0, <1>1, <2>2 DEF Known, Quiet, TypeOK
  <2>. QED BY <2>1, <2>2
<1>4. Informed(r, s)'
  <2>. SUFFICES ASSUME NEW p \in Providers, OnItsWay(r, s, p) PROVE OnItsWay(r, s, p)'
    BY <1>0, <1>1, InformedKeeps
  <2>0. KindOf[p] \in Kinds
    BY QueueAssumption
  <2>1. CASE KindOf[p] \notin ReferencedKinds(index'[r])
    <3>1. watch'[r][KindOf[p]] = "none"
      BY <1>1, <2>0, <2>1 DEF SyncWatchers, TypeOK
    <3>. QED BY <3>1 DEF OnItsWay
  <2>2. CASE KindOf[p] \in ReferencedKinds(index'[r])
    <3>1. /\ watch[r][KindOf[p]] # "watching" => watch'[r][KindOf[p]] # "watching"
          /\ p \in due[r] => p \in due'[r]
          /\ sending'[r][KindOf[p]] = sending[r][KindOf[p]]
      BY <1>1, <2>0, <2>2 DEF SyncWatchers, TypeOK
    <3>. QED BY <1>1, <3>1 DEF OnItsWay
  <2>. QED BY <2>1, <2>2
<1>. QED BY <1>2, <1>3, <1>4

\* The watch tasks and the channel: an event becomes the references of the objects that
\* are indexed under it, a reference a message, and a list mentions every provider.
LEMMA TaskWakeful ==
    ASSUME TypeOK, IndexInv, Wakeful, NEW r \in Replicas, NEW s \in SMs,
           \/ \E k \in Kinds : Discover(r, k) \/ StreamEnds(r, k)
           \/ \E p \in Providers : Emit(r, p)
           \/ \E k \in Kinds, t \in SMs : Send(r, k, t)
    PROVE  Current(r, s)' /\ Known(r, s)' /\ Informed(r, s)'
<1>. USE DEF cluster, streams, works
<1>0. Current(r, s) /\ Known(r, s) /\ Informed(r, s)
  BY DEF Wakeful
<1>1. UNCHANGED <<ref, val, store, ownq, ixq, index, wake, run, got, read>>
  BY DEF Discover, StreamEnds, Emit, Send
<1>2. Current(r, s)' /\ Known(r, s)'
  BY <1>0, <1>1, UntouchedKeeps DEF Untouched
<1>. SUFFICES ASSUME NEW p \in Providers, OnItsWay(r, s, p),
                     ref[s] = p, read[r][s] = "indexed", val[p] # "absent"
              PROVE  OnItsWay(r, s, p)'
  BY <1>0, <1>1, <1>2, InformedKeeps
<1>. DEFINE k == KindOf[p]
<1>3. k \in Kinds
  BY QueueAssumption
<1>4. CASE ~Quiet(r, s)
  BY <1>1, <1>4 DEF Quiet, OnItsWay
<1>5. ASSUME NEW j \in Kinds, Discover(r, j) \/ StreamEnds(r, j) PROVE OnItsWay(r, s, p)'
  <2>1. CASE j # k
    <3>1. /\ watch'[r][k] = watch[r][k] /\ (p \in due[r] => p \in due'[r])
          /\ UNCHANGED <<chan, sending>>
      BY <1>3, <1>5, <2>1 DEF Discover, StreamEnds, Listed, OfKind, TypeOK
    <3>. QED BY <1>1, <3>1 DEF OnItsWay
  <2>2. CASE j = k
    <3>1. watch'[r][k] # "watching" \/ p \in due'[r]
      BY <1>3, <1>5, <2>2 DEF Discover, StreamEnds, Listed, OfKind, TypeOK
    <3>. QED BY <3>1 DEF OnItsWay
  <2>. QED BY <2>1, <2>2
<1>6. ASSUME NEW q \in Providers, Emit(r, q), Quiet(r, s) PROVE OnItsWay(r, s, p)'
  <2>0. KindOf[q] \in Kinds /\ UNCHANGED <<watch, chan>>
    BY <1>6, QueueAssumption DEF Emit
  <2>1. CASE q = p
    <3>1. ref[s] # NoRef
      BY QueueAssumption
    <3>2. index[r].key[s] = p
      BY <1>0, <1>6, <3>1 DEF Known
    <3>3. s \in index[r].refs[p]
      BY <3>2 DEF IndexInv, IxSound
    <3>4. sending'[r][k] = index[r].refs[p]
      BY <1>3, <1>6, <2>1 DEF Emit, TypeOK
    <3>. QED BY <3>3, <3>4 DEF OnItsWay
  <2>2. CASE q # p
    <3>1. s \in sending[r][k] => sending'[r][k] = sending[r][k]
      BY <1>3, <1>6, <2>0 DEF Emit, TypeOK
    <3>2. p \in due[r] => p \in due'[r]
      BY <1>6, <2>2 DEF Emit, TypeOK
    <3>. QED BY <1>1, <2>0, <3>1, <3>2 DEF OnItsWay
  <2>. QED BY <2>1, <2>2
<1>7. ASSUME NEW j \in Kinds, NEW t \in SMs, Send(r, j, t) PROVE OnItsWay(r, s, p)'
  <2>0. /\ chan[r] \in Seq(SMs) /\ chan'[r] = Append(chan[r], t) /\ UNCHANGED <<watch, due>>
    BY <1>7 DEF Send, TypeOK
  <2>1. s \in sending[r][k] => t = s \/ s \in sending'[r][k]
    BY <1>3, <1>7 DEF Send, TypeOK
  <2>2. (\E i \in 1..Len(chan[r]) : chan[r][i] = s) \/ t = s
           => \E i \in 1..Len(chan'[r]) : chan'[r][i] = s
    BY <2>0, InChannel
  <2>. QED BY <1>1, <2>0, <2>1, <2>2 DEF OnItsWay
<1>. QED BY <1>4, <1>5, <1>6, <1>7

\* The controller: an event of the object, a received reference or a timer makes it due, and
\* a reconcile leaves the verdict of its provider or marks the reading as early.
LEMMA ControllerWakeful ==
    ASSUME TypeOK, IndexTracks, Wakeful, NEW r \in Replicas, NEW s \in SMs,
           \/ \E t \in SMs : \/ OwnEvent(r, t) \/ Timer(r, t) \/ Begin(r, t)
                             \/ Reconcile(r, t) \/ ReconcileFails(r, t)
           \/ Receive(r)
    PROVE  Current(r, s)' /\ Known(r, s)' /\ Informed(r, s)'
<1>. USE DEF cluster, streams, works
<1>0. Current(r, s) /\ Known(r, s) /\ Informed(r, s)
  BY DEF Wakeful
<1>1. UNCHANGED <<ref, val, ixq, index, watch, due, sending>>
  BY DEF OwnEvent, Timer, Begin, Reconcile, ReconcileFails, Receive
<1>2. ASSUME Untouched(r, s), chan' = chan PROVE Current(r, s)' /\ Known(r, s)' /\ Informed(r, s)'
  <2>1. Informed(r, s)'
    BY <1>0, <1>1, <1>2, InformedKeeps DEF Untouched, OnItsWay
  <2>. QED BY <1>0, <1>1, <1>2, <2>1, UntouchedKeeps
<1>3. ASSUME NEW t \in SMs, t # s,
             \/ OwnEvent(r, t) \/ Timer(r, t) \/ Begin(r, t) \/ Reconcile(r, t)
             \/ ReconcileFails(r, t)
      PROVE  Untouched(r, s) /\ chan' = chan
  BY <1>1, <1>3
     DEF OwnEvent, Timer, Begin, Reconcile, ReconcileFails, Requeue, Wake, Untouched, TypeOK
<1>4. CASE OwnEvent(r, s)
  <2>1. /\ ownq[r][s] \in Seq(Refs) /\ ownq[r][s] # <<>>
        /\ ownq'[r][s] = Tail(ownq[r][s]) /\ store'[r][s] = Head(ownq[r][s])
        /\ Head(ownq[r][s]) # NoRef => wake'[r][s] = "now"
        /\ UNCHANGED <<chan, run, got, read>>
    BY <1>4 DEF OwnEvent, Wake, TypeOK
  <2>2. /\ Tail(ownq[r][s]) = <<>> => ownq[r][s][Len(ownq[r][s])] = Head(ownq[r][s])
        /\ Tail(ownq[r][s]) # <<>> =>
             Tail(ownq[r][s])[Len(Tail(ownq[r][s]))] = ownq[r][s][Len(ownq[r][s])]
    BY <2>1, LastOf
  <2>3. ref[s] = ownq[r][s][Len(ownq[r][s])]
    BY <1>0, <2>1 DEF Current
  <2>4. ref[s] # NoRef => wake'[r][s] = "now" \/ ownq'[r][s] # <<>>
    BY <2>1, <2>2, <2>3
  <2>5. Current(r, s)'
    BY <1>1, <2>1, <2>2, <2>3 DEF Current
  <2>. QED BY <1>1, <2>4, <2>5, QueueAssumption DEF Known, Quiet, Informed, OnItsWay
<1>5. CASE Timer(r, s)
  <2>1. wake'[r][s] = "now" /\ UNCHANGED <<store, ownq>>
    BY <1>5 DEF Timer, Wake, TypeOK
  <2>. QED BY <1>0, <1>1, <2>1 DEF Current, Known, Quiet, Informed, OnItsWay
<1>6. CASE Begin(r, s)
  <2>1. /\ UNCHANGED <<store, ownq, chan, got>> /\ Current(r, s)'
    BY <1>0, <1>1, <1>6 DEF Begin, Current
  <2>2. (run'[r][s] = store[r][s] /\ read' = read) \/ read'[r][s] = "no"
    BY <1>6 DEF Begin, TypeOK
  <2>3. ref[s] # NoRef /\ read'[r][s] # "no" => run'[r][s] # NoRef \/ ownq'[r][s] # <<>>
    BY <1>0, <2>1, <2>2 DEF Current
  <2>. QED BY <1>1, <2>1, <2>3, QueueAssumption DEF Known, Quiet, Informed, OnItsWay
<1>7. CASE Reconcile(r, s)
  <2>. DEFINE p == run[r][s]
  <2>1. /\ UNCHANGED <<store, ownq>> /\ Current(r, s)' /\ p # NoRef
        /\ read'[r][s] = "indexed" => index[r].key[s] = p /\ ixq[r][s] = <<>>
        /\ val[p] # "absent" => got'[r][s] = val[p]
    BY <1>0, <1>1, <1>7 DEF Reconcile, Current, TypeOK
  <2>2. read'[r][s] = "indexed" /\ ref[s] # NoRef => p = ref[s] /\ index[r].key[s] = ref[s]
    BY <2>1 DEF IndexTracks, Delivered
  <2>3. Only(<<>>, ref[s])
    BY DEF Only
  <2>. QED BY <1>1, <2>1, <2>2, <2>3, QueueAssumption DEF Known, Informed
<1>8. CASE ReconcileFails(r, s)
  <2>1. read'[r][s] = "early" /\ UNCHANGED <<store, ownq>>
    BY <1>8 DEF ReconcileFails, TypeOK
  <2>. QED BY <1>0, <1>1, <2>1 DEF Current, Known, Informed
<1>9. CASE Receive(r)
  <2>1. /\ chan[r] \in Seq(SMs) /\ chan[r] # <<>> /\ chan'[r] = Tail(chan[r])
        /\ UNCHANGED <<store, ownq, run, got, read>>
        /\ Head(chan[r]) = s => wake'[r][s] = "now"
        /\ Head(chan[r]) # s => wake'[r][s] = wake[r][s]
        /\ wake[r][s] = "now" => wake'[r][s] = "now"
    BY <1>9 DEF Receive, Wake, TypeOK
  <2>2. Current(r, s)' /\ Known(r, s)'
    BY <1>0, <1>1, <2>1 DEF Current, Known, Quiet
  <2>3. (\E i \in 1..Len(chan[r]) : chan[r][i] = s) =>
          wake'[r][s] = "now" \/ \E i \in 1..Len(chan'[r]) : chan'[r][i] = s
    <3>. DEFINE c == chan[r]
    <3>1. c \in Seq(SMs) /\ c # <<>>
      BY <2>1
    <3>2. (\E i \in 1..Len(c) : c[i] = s) =>
            Head(c) = s \/ \E i \in 1..Len(Tail(c)) : Tail(c)[i] = s
      <4>. HIDE DEF c
      <4>. QED BY <3>1, InChannel
    <3>. QED BY <2>1, <3>2, Zenon
  <2>4. Informed(r, s)'
    <3>1. /\ UNCHANGED <<ownq, run, got, read>>
          /\ wake[r][s] = "now" => wake'[r][s] = "now"
      BY <2>1
    <3>2. \A p \in Providers : OnItsWay(r, s, p) => OnItsWay(r, s, p)'
      BY <1>1, <2>3, <3>1 DEF OnItsWay
    <3>. QED BY <1>0, <1>1, <3>1, <3>2, InformedKeeps
  <2>. QED BY <2>2, <2>4
<1>. QED BY <1>2, <1>3, <1>4, <1>5, <1>6, <1>7, <1>8, <1>9

\* Relists, the lease and restarts.
LEMMA RelistWakeful ==
    ASSUME TypeOK, Wakeful, NEW r \in Replicas, NEW s \in SMs,
           Gap(r) \/ Acquire(r) \/ Lose(r) \/ Restart(r)
    PROVE  Current(r, s)' /\ Known(r, s)' /\ Informed(r, s)'
<1>. USE DEF cluster, streams, works
<1>0. /\ Current(r, s) /\ Known(r, s) /\ Informed(r, s) /\ ref[s] \in Refs
      /\ Listing[s] = IF ref[s] = NoRef THEN <<>> ELSE <<ref[s]>>
  BY DEF Wakeful, TypeOK, Listing
<1>1. /\ Only(<<ref[s]>>, ref[s])
      /\ <<ref[s]>> # <<>> /\ Len(<<ref[s]>>) = 1 /\ <<ref[s]>>[1] = ref[s]
  BY <1>0, OnlyListed
<1>2. CASE Gap(r)
  <2>1. ixq'[r][s] = Listing[s]
    BY <1>2 DEF Gap, TypeOK
  <2>2. UNCHANGED <<ref, val, store, ownq, index, watch, due, sending, chan, wake, run, got, read>>
    BY <1>2 DEF Gap
  <2>. QED BY <1>0, <1>1, <2>1, <2>2 DEF Current, Known, Quiet, Informed, OnItsWay
<1>3. CASE Acquire(r) \/ Lose(r)
  <2>1. UNCHANGED <<ref, val, store, ownq, ixq, index, watch, due, sending, chan,
                    wake, run, got, read>>
    BY <1>3 DEF Acquire, Lose
  <2>. QED BY <1>0, <2>1 DEF Current, Known, Quiet, Only, Informed, OnItsWay
<1>4. CASE Restart(r)
  <2>1. /\ store'[r][s] = NoRef /\ ownq'[r][s] = Listing[s] /\ read'[r][s] = "no" /\ ref' = ref
    BY <1>4 DEF Restart, TypeOK
  <2>. QED BY <1>0, <1>1, <2>1 DEF Current, Known, Informed
<1>. QED BY <1>2, <1>3, <1>4

LEMMA WakefulStep ==
    ASSUME TypeOK, IndexInv, IndexTracks, Wakeful, [Next]_vars
    PROVE  Wakeful'
<1>. SUFFICES ASSUME NEW r \in Replicas, NEW s \in SMs
              PROVE  Current(r, s)' /\ Known(r, s)' /\ Informed(r, s)'
  BY DEF Wakeful
<1>0. Current(r, s) /\ Known(r, s) /\ Informed(r, s)
  BY DEF Wakeful
<1>1. ASSUME NEW q \in Replicas, q # r, Acts(q)
      PROVE  Current(r, s)' /\ Known(r, s)' /\ Informed(r, s)'
  BY <1>0, <1>1, Elsewhere DEF Current, Known, Quiet, Only, Informed, OnItsWay
<1>2. CASE Acts(r)
  BY <1>2, ObserveWakeful, TaskWakeful, ControllerWakeful, RelistWakeful DEF Acts, Work
<1>3. CASE UNCHANGED vars
  BY <1>0, <1>3 DEF vars, cluster, streams, works, Current, Known, Quiet, Only, Informed, OnItsWay
<1>. QED BY <1>1, <1>2, <1>3, EditWakeful DEF Next, Acts

\* The watches of spot_schedule_watch.rs, the channel and the scheduler: a change of a
\* provider is on its way to every object that was indexed when its provider was last read,
\* for any number of objects, providers, edits and faults and any channel capacity.
THEOREM NoLostWakeupHolds == Spec => []NoLostWakeup
<1>1. Init => Wakeful
  <2>. SUFFICES ASSUME Init, NEW r \in Replicas, NEW s \in SMs
                PROVE  Current(r, s) /\ Known(r, s) /\ Informed(r, s)
    BY DEF Wakeful
  <2>1. /\ ownq[r][s] = IF ref[s] = NoRef THEN <<>> ELSE <<ref[s]>>
        /\ store[r][s] = NoRef /\ read[r][s] = "no" /\ ref[s] \in Refs
    BY DEF Init, Listing, PerSM
  <2>2. <<ref[s]>> # <<>> /\ Len(<<ref[s]>>) = 1 /\ <<ref[s]>>[1] = ref[s]
    BY <2>1, OnlyListed
  <2>. QED BY <2>1, <2>2 DEF Current, Known, Informed
<1>2. TypeOK /\ IndexInv /\ IndexTracks /\ Wakeful /\ [Next]_vars => Wakeful'
  BY WakefulStep
<1>3. Wakeful => NoLostWakeup
  BY DEF Wakeful, Informed, NoLostWakeup
<1>. QED BY <1>1, <1>2, <1>3, QueueTypes, IndexTracksHolds, PTL DEF Spec

=============================================================================
