--------------------------- MODULE ReclaimPacingProofs ---------------------------
(***************************************************************************)
(* ReclaimPacing, for any window, threshold and cap that leaves room for    *)
(* the threshold, and any number of requests and faults.                    *)
(***************************************************************************)
EXTENDS ReclaimPacing, FiniteSetTheorems, SequenceTheorems, WellFoundedInduction, TLAPS

LEMMA Consts ==
    /\ Window \in Nat \ {0} /\ Threshold \in Nat \ {0} /\ MaxTracked \in Nat \ {0}
    /\ Base \in Nat \ {0} /\ MaxBackoff \in Nat \ {0} /\ MaxRetries \in Nat \ {0}
    /\ MaxClock \in Nat /\ MaxRequests \in Nat /\ MaxFaults \in Nat
    /\ Threshold <= MaxTracked
BY PacingAssumption

LEMMA LeastOf ==
    ASSUME NEW S, S \subseteq Nat, S # {}
    PROVE  Min(S) \in S /\ \A y \in S : Min(S) <= y
<1>1. PICK x \in S : \A y \in S : ~(<<y, x>> \in OpToRel(<, Nat))
  BY NatLessThanWellFounded, WFMin, Zenon
<1>2. \A y \in S : ~(y < x)
  BY <1>1, Zenon DEF OpToRel
<1>3. \A y \in S : x <= y
  BY <1>2
<1>. QED BY <1>3 DEF Min

---------------------------------------------------------------------------
(* loop_protection.rs *)

\* Pruning drops a number of entries from the front, the last of which is too old, and
\* keeps only recent ones.
LEMMA PrunedIs ==
    ASSUME NEW s \in Seq(Nat), NEW now \in Nat
    PROVE  \E p \in 0 .. Len(s) :
             /\ Pruned(s, now) = SubSeq(s, p + 1, Len(s))
             /\ p = 0 \/ s[p] < now - Window
             /\ \A j \in p + 1 .. Len(s) : s[j] >= now - Window
<1>. DEFINE n == Len(s)
            kept == {i \in 1 .. n + 1 : \A j \in i .. n : s[j] >= now - Window}
            m == Min(kept)
<1>1. n \in Nat /\ Window \in Nat /\ \A j \in 1 .. n : s[j] \in Nat
  BY Consts
<1>2. kept \subseteq Nat /\ n + 1 \in kept
  BY <1>1
<1>3. m \in kept /\ \A y \in kept : m <= y
  BY <1>2, LeastOf
<1>4. Pruned(s, now) = SubSeq(s, m, n)
  BY DEF Pruned
<1>5. m \in 1 .. n + 1 /\ \A j \in m .. n : s[j] >= now - Window
  BY <1>3
<1>6. ASSUME m # 1
      PROVE  s[m - 1] < now - Window
  <2>1. m - 1 \notin kept
    <3>. HIDE DEF kept
    <3>. QED BY <1>1, <1>3, <1>5
  <2>2. PICK j \in m - 1 .. n : ~(s[j] >= now - Window)
    <3>. HIDE DEF m
    <3>. QED BY <1>1, <1>5, <1>6, <2>1
  <2>3. j = m - 1
    <3>. HIDE DEF m, kept
    <3>. QED BY <1>1, <1>5, <2>2
  <2>4. s[m - 1] \in Nat
    <3>. HIDE DEF m, kept
    <3>. QED BY <1>1, <1>5, <1>6
  <2>. HIDE DEF m, kept, n
  <2>. QED BY <1>1, <2>2, <2>3, <2>4
<1>. DEFINE p == m - 1
<1>. HIDE DEF m, kept
<1>7. p \in 0 .. n /\ m = p + 1 /\ (p = 0 <=> m = 1)
  BY <1>1, <1>5
<1>8. p = 0 \/ s[p] < now - Window
  BY <1>6, <1>7
<1>. HIDE DEF p
<1>9. Pruned(s, now) = SubSeq(s, p + 1, n) /\ \A j \in p + 1 .. n : s[j] >= now - Window
  BY <1>4, <1>5, <1>7
<1>. QED BY <1>7, <1>8, <1>9

\* What record_emergency_reclaim_event leaves: the history without its first k entries
\* and with the new one, all of them recent; and fewer than the cap only if the last one
\* dropped is old.
Leaves(s, now, r, k) ==
    /\ r \in Seq(Nat) /\ Len(r) = Len(s) - k + 1 /\ Len(r) <= MaxTracked
    /\ \A i \in 1 .. Len(r) - 1 : r[i] = s[i + k]
    /\ r[Len(r)] = now
    /\ \A i \in 1 .. Len(r) : r[i] >= now - Window
    /\ Len(r) >= MaxTracked \/ k = 0 \/ s[k] < now - Window

LEMMA RecordedIs ==
    ASSUME NEW s \in Seq(Nat), Len(s) <= MaxTracked, NEW now \in Nat,
           NEW r, r = Recorded(s, now)
    PROVE  \E k \in 0 .. Len(s) : Leaves(s, now, r, k)
<1>. DEFINE n == Len(s)
            t == Pruned(s, now)
            a == Append(t, now)
<1>1. n \in Nat /\ n <= MaxTracked /\ Window \in Nat \ {0} /\ MaxTracked \in Nat \ {0}
  BY Consts
<1>2. PICK p \in 0 .. n : /\ t = SubSeq(s, p + 1, n)
                          /\ p = 0 \/ s[p] < now - Window
                          /\ \A j \in p + 1 .. n : s[j] >= now - Window
  BY PrunedIs
<1>3. t \in Seq(Nat) /\ Len(t) = n - p /\ \A i \in 1 .. n - p : t[i] = s[i + p]
  BY <1>2
<1>. HIDE DEF t
<1>4. /\ a \in Seq(Nat) /\ Len(a) = n - p + 1 /\ a[n - p + 1] = now
      /\ \A i \in 1 .. n - p : a[i] = s[i + p]
  BY <1>1, <1>3
<1>5. \A i \in 1 .. n - p + 1 : a[i] >= now - Window
  <2>1. \A i \in 1 .. n - p : i + p \in p + 1 .. n
    BY <1>1, <1>2
  <2>2. \A i \in 1 .. n - p : a[i] >= now - Window
    BY <1>2, <1>4, <2>1
  <2>3. now >= now - Window
    BY <1>1
  <2>4. \A i \in 1 .. n - p + 1 : i \in 1 .. n - p \/ i = n - p + 1
    <3>1. n - p \in Nat
      BY <1>1, <1>2
    <3>. QED BY <3>1
  <2>. QED BY <1>4, <2>2, <2>3, <2>4
<1>6. Recorded(s, now) = IF Len(a) > MaxTracked THEN Tail(a) ELSE a
  BY DEF Recorded, Capped, t
<1>. HIDE DEF a
<1>7. CASE Len(a) > MaxTracked
  <2>1. p = 0 /\ n = MaxTracked /\ Len(a) = MaxTracked + 1
    BY <1>1, <1>2, <1>4, <1>7
  <2>2. /\ Tail(a) \in Seq(Nat) /\ Len(Tail(a)) = MaxTracked
        /\ \A i \in 1 .. MaxTracked : Tail(a)[i] = a[i + 1]
    BY <1>1, <1>4, <2>1
  <2>3. \A i \in 1 .. MaxTracked - 1 : Tail(a)[i] = s[i + 1]
    BY <1>1, <1>4, <2>1, <2>2
  <2>4. Tail(a)[MaxTracked] = now
    BY <1>1, <1>4, <2>1, <2>2
  <2>5. \A i \in 1 .. MaxTracked : Tail(a)[i] >= now - Window
    BY <1>1, <1>5, <2>1, <2>2
  <2>6. Recorded(s, now) = Tail(a) /\ 1 \in 0 .. n
    BY <1>1, <1>6, <1>7, <2>1
  <2>7. MaxTracked = n - 1 + 1 /\ MaxTracked <= MaxTracked /\ MaxTracked >= MaxTracked
    BY <1>1, <2>1
  <2>8. Leaves(s, now, r, 1)
    BY <2>2, <2>3, <2>4, <2>5, <2>6, <2>7 DEF Leaves
  <2>. QED BY <2>6, <2>8
<1>8. CASE ~(Len(a) > MaxTracked)
  <2>1. Recorded(s, now) = a
    BY <1>6, <1>8
  <2>2. n - p + 1 <= MaxTracked /\ (n - p + 1) - 1 = n - p
    BY <1>1, <1>2, <1>4, <1>8
  <2>3. Leaves(s, now, r, p)
    BY <1>2, <1>4, <1>5, <2>1, <2>2 DEF Leaves
  <2>. QED BY <2>3
<1>. QED BY <1>7, <1>8

---------------------------------------------------------------------------
(* Invariants *)

\* compute_backoff_secs never exceeds its cap.
LEMMA BackoffType ==
    ASSUME NEW n \in Nat
    PROVE  Backoff(n) \in Int /\ Backoff(n) <= MaxBackoff
<1>. DEFINE p == 2 ^ n
<1>1. p \in Int
  OBVIOUS
<1>. HIDE DEF p
<1>2. Base * p \in Int
  BY <1>1, Consts
<1>3. Backoff(n) = IF n >= MaxRetries \/ Base * p > MaxBackoff THEN MaxBackoff ELSE Base * p
  BY DEF Backoff, p
<1>. QED BY <1>2, <1>3, Consts

\* What one attempt does to the two histories.
LEMMA RecordTypes ==
    ASSUME TypeOK, Record
    PROVE  /\ events' \in Seq(0 .. MaxClock) /\ Len(events') <= MaxTracked
           /\ log' \in Seq(0 .. MaxClock) /\ warned' \in BOOLEAN
<1>1. clock \in 0 .. MaxClock /\ clock \in Nat /\ events \in Seq(Nat) /\ Len(events) <= MaxTracked
  <2>1. clock \in 0 .. MaxClock /\ clock \in Nat /\ Len(events) <= MaxTracked
    BY Consts DEF TypeOK
  <2>2. events \in Seq(Nat)
    BY Consts DEF TypeOK
  <2>. QED BY <2>1, <2>2
<1>2. PICK k \in 0 .. Len(events) : Leaves(events, clock, events', k)
  <2>1. events' = Recorded(events, clock)
    BY DEF Record
  <2>. QED BY <1>1, <2>1, RecordedIs
<1>3. \A i \in 1 .. Len(events') : events'[i] \in 0 .. MaxClock
  <2>1. \A i \in 1 .. Len(events) : events[i] \in 0 .. MaxClock
    BY ElementOfSeq DEF TypeOK
  <2>2. Len(events) \in Nat /\ Len(events') \in Nat
    BY <1>1, <1>2 DEF Leaves
  <2>. DEFINE m == Len(events')
              n == Len(events)
  <2>3. m = n - k + 1 /\ m \in Nat /\ n \in Nat /\ k \in 0 .. n
    BY <1>2, <2>2 DEF Leaves
  <2>4. \A i \in 1 .. m - 1 : events'[i] = events[i + k]
    BY <1>2 DEF Leaves
  <2>5. events'[m] = clock
    BY <1>2 DEF Leaves
  <2>. HIDE DEF m
  <2>6. ASSUME NEW i \in 1 .. m
        PROVE  events'[i] \in 0 .. MaxClock
    <3>1. CASE i = m
      BY <1>1, <2>5, <3>1
    <3>2. CASE i # m
      <4>1. i \in 1 .. m - 1 /\ i + k \in 1 .. n
        <5>. HIDE DEF n
        <5>. QED BY <2>3, <3>2
      <4>. QED BY <2>1, <2>4, <4>1
    <3>. QED BY <3>1, <3>2
  <2>. QED BY <2>6 DEF m
<1>4. events' \in Seq(0 .. MaxClock)
  <2>1. Len(events') \in Nat /\ events' = [i \in 1 .. Len(events') |-> events'[i]]
    BY <1>2 DEF Leaves
  <2>2. events' \in [1 .. Len(events') -> 0 .. MaxClock]
    BY <1>3, <2>1
  <2>. QED BY <2>1, <2>2, SeqDef
<1>5. log' \in Seq(0 .. MaxClock)
  BY <1>1 DEF Record, TypeOK
<1>6. warned' \in BOOLEAN
  BY DEF Record, Breach
<1>. QED BY <1>2, <1>4, <1>5, <1>6 DEF Leaves

LEMMA TypeStep ==
    ASSUME TypeOK, [Next]_vars
    PROVE  TypeOK'
<1>1. /\ clock \in Nat /\ clock \in 0 .. MaxClock /\ retries \in Nat /\ wake \in Int
      /\ faults \in Nat /\ requests \in Nat /\ failed \in Nat
  BY Consts DEF TypeOK
<1>2. Fault => faults' \in 0 .. MaxFaults
  BY <1>1, Consts DEF Fault
<1>3. <<>> \in Seq(0 .. MaxClock) /\ Len(<<>>) <= MaxTracked
  BY Consts
<1>4. CASE Tick
  BY <1>1, <1>4, Consts DEF Tick, TypeOK
<1>5. CASE Request
  BY <1>1, <1>5, Consts DEF Request, TypeOK
<1>6. CASE Serve
  BY <1>6, RecordTypes DEF Serve, TypeOK
<1>7. CASE PhaseFails
  <2>1. retries' \in Nat /\ wake' \in Int /\ failed' \in Nat
    <3>1. retries' \in Nat /\ wake' = clock + Backoff(retries') /\ failed' \in Nat
      BY <1>1, <1>7 DEF PhaseFails, Retry
    <3>. QED BY <1>1, <3>1, BackoffType, Consts
  <2>. QED BY <1>2, <1>7, <2>1 DEF PhaseFails, TypeOK
<1>8. CASE StepFails
  <2>1. retries' \in Nat /\ wake' \in Int
    BY <1>1, <1>8 DEF StepFails
  <2>. QED BY <1>2, <1>8, <2>1, RecordTypes DEF StepFails, TypeOK
<1>9. CASE Restart
  <2>1. events' \in Seq(0 .. MaxClock) /\ Len(events') <= MaxTracked /\ log' \in Seq(0 .. MaxClock)
    <3>1. events' = <<>> /\ log' = <<>>
      BY <1>9 DEF Restart
    <3>. QED BY <1>3, <3>1, Zenon
  <2>2. retries' \in Nat /\ wake' \in Int /\ warned' \in BOOLEAN
    <3>1. retries' = 0 /\ wake' = clock
      BY <1>9 DEF Restart
    <3>2. warned' = FALSE
      BY <1>9 DEF Restart
    <3>3. retries' \in Nat /\ wake' \in Int
      BY <1>1, <3>1
    <3>4. warned' \in BOOLEAN
      BY <3>2, Zenon
    <3>. QED BY <3>3, <3>4, Zenon
  <2>. QED BY <1>2, <1>9, <2>1, <2>2 DEF Restart, TypeOK
<1>10. CASE UNCHANGED vars
  BY <1>10 DEF vars, TypeOK
<1>. QED BY <1>4, <1>5, <1>6, <1>7, <1>8, <1>9, <1>10 DEF Next

LEMMA TypeInit == Init => TypeOK
<1>1. <<>> \in Seq(0 .. MaxClock) /\ Len(<<>>) <= MaxTracked
  BY Consts
<1>2. 0 \in 0 .. MaxClock /\ 0 \in 0 .. MaxRequests /\ 0 \in 0 .. MaxFaults
  BY Consts
<1>3. 0 \in Nat /\ 0 \in Int /\ FALSE \in BOOLEAN
  OBVIOUS
<1>. QED BY <1>1, <1>2, <1>3, Zenon DEF Init, TypeOK

\* Type correctness: the history is a sequence of instants that never outgrows
\* RAPID_RE_RECLAIM_MAX_TRACKED.
THEOREM PacingTypes == Spec => []TypeOK
BY TypeInit, TypeStep, PTL DEF Spec

\* The log is in order, the history is its end, all recent, and is shorter than the cap
\* only if what it lacks is older than the window.
Gap == Len(log) - Len(events)
PaceInv ==
    /\ Len(events) <= Len(log)
    /\ \A i \in 1 .. Len(log) : log[i] <= clock
    /\ \A i, j \in 1 .. Len(log) : i <= j => log[i] <= log[j]
    /\ \A i \in 1 .. Len(events) : events[i] = log[i + Gap]
    /\ \A i \in Gap + 1 .. Len(log) : log[i] >= log[Len(log)] - Window
    /\ Len(events) >= MaxTracked \/ \A i \in 1 .. Gap : log[i] < log[Len(log)] - Window
    /\ log # <<>> => (warned <=> Len(events) >= Threshold)

LEMMA PaceRecord ==
    ASSUME TypeOK, PaceInv, Record, clock' = clock
    PROVE  PaceInv'
<1>. DEFINE n == Len(events)
            l == Len(log)
            m == Len(events')
<1>1. /\ n \in Nat /\ l \in Nat /\ n <= l /\ n <= MaxTracked /\ clock \in Nat
      /\ Window \in Nat /\ MaxTracked \in Nat
  BY Consts DEF TypeOK, PaceInv
<1>2. \A i \in 1 .. l : log[i] \in Nat
  <2>1. \A i \in 1 .. l : log[i] \in 0 .. MaxClock
    BY ElementOfSeq DEF TypeOK
  <2>. QED BY <2>1, Consts
<1>3. events \in Seq(Nat)
  BY Consts DEF TypeOK
<1>4. PICK k \in 0 .. n : Leaves(events, clock, events', k)
  <2>1. events' = Recorded(events, clock)
    BY DEF Record
  <2>. QED BY <1>1, <1>3, <2>1, RecordedIs
<1>5. /\ m = n - k + 1 /\ m \in Nat /\ k \in Nat /\ k <= n
      /\ \A i \in 1 .. m - 1 : events'[i] = events[i + k]
      /\ events'[m] = clock /\ \A i \in 1 .. m : events'[i] >= clock - Window
      /\ m >= MaxTracked \/ k = 0 \/ events[k] < clock - Window
  BY <1>1, <1>4 DEF Leaves
<1>6. /\ Len(log') = l + 1 /\ log'[l + 1] = clock /\ log' # <<>>
      /\ \A i \in 1 .. l : log'[i] = log[i]
  BY DEF Record, TypeOK
<1>7. /\ Gap = l - n /\ Gap' = l - n + k /\ Gap \in Nat
  BY <1>1, <1>5, <1>6 DEF Gap
<1>8. /\ \A i \in 1 .. l : log[i] <= clock
      /\ \A i, j \in 1 .. l : i <= j => log[i] <= log[j]
      /\ \A i \in 1 .. n : events[i] = log[i + (l - n)]
      /\ n >= MaxTracked \/ \A i \in 1 .. l - n : log[i] < log[l] - Window
  BY <1>7 DEF PaceInv
<1>9. warned' <=> m >= Threshold
  BY DEF Record, Breach
<1>. HIDE DEF n, l, m
<1>10. m <= l + 1
  BY <1>1, <1>5
<1>11. \A i \in 1 .. l + 1 : log'[i] <= clock
  BY <1>1, <1>6, <1>8
<1>12. \A i, j \in 1 .. l + 1 : i <= j => log'[i] <= log'[j]
  BY <1>1, <1>6, <1>8
<1>13. \A i \in 1 .. m : events'[i] = log'[i + (l - n + k)]
  <2>. SUFFICES ASSUME NEW i \in 1 .. m
                PROVE  events'[i] = log'[i + (l - n + k)]
    OBVIOUS
  <2>1. CASE i = m
    <3>1. i + (l - n + k) = l + 1
      BY <1>1, <1>5, <2>1
    <3>. QED BY <1>5, <1>6, <2>1, <3>1
  <2>2. CASE i # m
    <3>1. i \in 1 .. m - 1 /\ i + k \in 1 .. n /\ (i + k) + (l - n) = i + (l - n + k)
      BY <1>1, <1>5, <2>2
    <3>2. i + (l - n + k) \in 1 .. l
      BY <1>1, <3>1
    <3>3. events'[i] = log[(i + k) + (l - n)]
      BY <1>5, <1>8, <3>1
    <3>. QED BY <1>6, <3>1, <3>2, <3>3
  <2>. QED BY <2>1, <2>2
<1>14. \A i \in l - n + k + 1 .. l + 1 : log'[i] >= clock - Window
  <2>. SUFFICES ASSUME NEW i \in l - n + k + 1 .. l + 1
                PROVE  log'[i] >= clock - Window
    OBVIOUS
  <2>. DEFINE e == i - (l - n + k)
  <2>1. e \in 1 .. m /\ e + (l - n + k) = i
    BY <1>1, <1>5
  <2>. HIDE DEF e
  <2>2. events'[e] >= clock - Window /\ events'[e] = log'[e + (l - n + k)]
    BY <1>5, <1>13, <2>1
  <2>. QED BY <2>1, <2>2
<1>15. m >= MaxTracked \/ \A i \in 1 .. l - n + k : log'[i] < clock - Window
  <2>1. CASE m >= MaxTracked
    BY <2>1
  <2>2. CASE m < MaxTracked /\ k = 0
    <3>1. n < MaxTracked
      BY <1>1, <1>5, <2>2
    <3>2. \A i \in 1 .. l - n : log[i] < log[l] - Window
      BY <1>1, <1>8, <3>1
    <3>3. ASSUME NEW i \in 1 .. l - n
          PROVE  log'[i] < clock - Window
      <4>1. i \in 1 .. l /\ l \in 1 .. l
        BY <1>1
      <4>2. log[i] \in Nat /\ log[l] \in Nat /\ log[l] <= clock /\ log[i] < log[l] - Window
        BY <1>2, <1>8, <3>2, <4>1
      <4>3. log'[i] = log[i]
        BY <1>6, <4>1
      <4>. QED BY <1>1, <4>2, <4>3
    <3>4. l - n + k = l - n
      BY <1>1, <2>2
    <3>. QED BY <3>3, <3>4
  <2>3. CASE k # 0 /\ events[k] < clock - Window
    <3>1. k \in 1 .. n /\ k + (l - n) \in 1 .. l /\ k + (l - n) = l - n + k
      BY <1>1, <1>5, <2>3
    <3>2. log[l - n + k] < clock - Window
      BY <1>8, <2>3, <3>1
    <3>3. ASSUME NEW i \in 1 .. l - n + k
          PROVE  log'[i] < clock - Window
      <4>1. i \in 1 .. l /\ l - n + k \in 1 .. l /\ i <= l - n + k
        BY <1>1, <1>5, <3>1
      <4>2. log[i] \in Nat /\ log[l - n + k] \in Nat /\ log[i] <= log[l - n + k]
        BY <1>2, <1>8, <4>1
      <4>3. log'[i] = log[i]
        BY <1>6, <4>1
      <4>. QED BY <1>1, <3>2, <4>2, <4>3
    <3>. QED BY <3>3
  <2>. QED BY <1>1, <1>5, <2>1, <2>2, <2>3
<1>. QED BY <1>6, <1>7, <1>9, <1>10, <1>11, <1>12, <1>13, <1>14, <1>15 DEF PaceInv, m

LEMMA PaceStep ==
    ASSUME TypeOK, PaceInv, [Next]_vars
    PROVE  PaceInv'
<1>1. CASE Tick
  <2>1. \A i \in 1 .. Len(log) : log[i] <= clock'
    <3>1. \A i \in 1 .. Len(log) : log[i] \in 0 .. MaxClock
      BY ElementOfSeq DEF TypeOK
    <3>2. clock \in Nat /\ clock' = clock + 1
      BY <1>1, Consts DEF Tick, TypeOK
    <3>. QED BY <3>1, <3>2, Consts DEF PaceInv
  <2>2. UNCHANGED <<events, log, warned>>
    BY <1>1 DEF Tick
  <2>. QED BY <2>1, <2>2 DEF PaceInv, Gap
<1>2. CASE Serve \/ StepFails
  BY <1>2, PaceRecord DEF Serve, StepFails
<1>3. CASE Restart
  <2>1. events' = <<>> /\ log' = <<>>
    BY <1>3 DEF Restart
  <2>. QED BY <2>1 DEF PaceInv, Gap
<1>4. CASE Request \/ PhaseFails \/ UNCHANGED vars
  <2>1. UNCHANGED <<clock, events, log, warned>>
    BY <1>4 DEF Request, PhaseFails, vars
  <2>. QED BY <2>1 DEF PaceInv, Gap
<1>. QED BY <1>1, <1>2, <1>3, <1>4 DEF Next

LEMMA PaceWarns == TypeOK /\ PaceInv => WarnExact
<1>. SUFFICES ASSUME TypeOK, PaceInv, log # <<>>
              PROVE  warned <=> Cardinality({i \in 1 .. Len(log) : Recent(i)}) >= Threshold
  BY DEF WarnExact
<1>. DEFINE l == Len(log)
            n == Len(events)
            R == {i \in 1 .. Len(log) : Recent(i)}
<1>1. l \in Nat /\ n \in Nat /\ n <= l /\ Gap = l - n /\ Threshold \in Nat /\ Threshold <= MaxTracked
      /\ Window \in Nat /\ MaxTracked \in Nat
  BY Consts DEF TypeOK, PaceInv, Gap
<1>2. IsFiniteSet(1 .. l) /\ Cardinality(l - n + 1 .. l) = n
  <2>. HIDE DEF l, n
  <2>. DEFINE a == l - n + 1
  <2>1. a \in Int /\ l \in Int /\ 1 \in Int
    BY <1>1
  <2>2. IsFiniteSet(1 .. l)
    BY <2>1, FS_Interval
  <2>3. Cardinality(a .. l) = IF a > l THEN 0 ELSE l - a + 1
    <3>. HIDE DEF a
    <3>. QED BY <2>1, FS_Interval
  <2>4. (IF a > l THEN 0 ELSE l - a + 1) = n
    BY <1>1
  <2>. QED BY <2>2, <2>3, <2>4
<1>3. IsFiniteSet(R) /\ Cardinality(R) \in Nat
  BY <1>2, FS_Subset, FS_CardinalityType
<1>4. l - n + 1 .. l \subseteq R
  BY <1>1 DEF PaceInv, Recent
<1>5. Cardinality(R) >= n
  BY <1>2, <1>3, <1>4, FS_Subset
<1>6. warned <=> n >= Threshold
  BY DEF PaceInv
<1>7. CASE n >= Threshold
  BY <1>1, <1>3, <1>5, <1>6, <1>7
<1>8. CASE n < Threshold
  <2>1. \A i \in 1 .. l - n : log[i] < log[l] - Window
    BY <1>1, <1>8 DEF PaceInv
  <2>2. \A i \in 1 .. l : log[i] \in Nat
    <3>1. \A i \in 1 .. l : log[i] \in 0 .. MaxClock
      BY ElementOfSeq DEF TypeOK
    <3>. QED BY <3>1, Consts
  <2>3. \A i \in R : i \in l - n + 1 .. l
    <3>. SUFFICES ASSUME NEW i \in 1 .. l, Recent(i), i \in 1 .. l - n
                  PROVE  FALSE
      BY <1>1
    <3>1. log[i] >= log[l] - Window /\ log[i] < log[l] - Window
      BY <2>1 DEF Recent
    <3>2. log[i] \in Nat /\ log[l] \in Nat
      BY <1>1, <2>2
    <3>. QED BY <1>1, <3>1, <3>2
  <2>4. R = l - n + 1 .. l
    <3>. HIDE DEF R
    <3>. QED BY <1>4, <2>3
  <2>5. Cardinality(R) = n
    BY <1>2, <2>4
  <2>. QED BY <1>1, <1>6, <1>8, <2>5
<1>. QED BY <1>1, <1>7, <1>8

\* The RapidReReclaim warning is exact: neither pruning nor the cap of
\* record_emergency_reclaim_event loses an attempt that counts, for every window and every
\* cap at least as large as the threshold.
THEOREM WarnExactHolds == Spec => []WarnExact
<1>1. Init => TypeOK /\ PaceInv
  <2>1. Init => events = <<>> /\ log = <<>>
    BY DEF Init
  <2>2. events = <<>> /\ log = <<>> => PaceInv
    BY DEF PaceInv, Gap
  <2>. QED BY <2>1, <2>2, TypeInit
<1>2. TypeOK /\ PaceInv /\ [Next]_vars => (TypeOK /\ PaceInv)'
  BY TypeStep, PaceStep
<1>. QED BY <1>1, <1>2, PaceWarns, PTL DEF Spec

---------------------------------------------------------------------------
(* Back-off *)

\* The next attempt is no later than the capped delays of the request's own failures allow,
\* and the clock does not run past it.
WaitInv ==
    open => clock <= opened + MaxBackoff * failed /\ wake <= opened + MaxBackoff * failed

LEMMA WaitStep ==
    ASSUME TypeOK, WaitInv, [Next]_vars
    PROVE  WaitInv'
<1>. DEFINE bound == MaxBackoff * failed
<1>1. /\ clock \in Nat /\ wake \in Int /\ opened \in Nat /\ failed \in Nat /\ retries \in Nat
      /\ MaxBackoff \in Nat
  BY Consts DEF TypeOK
<1>2. bound \in Nat
  BY <1>1
<1>3. CASE Tick
  BY <1>1, <1>3 DEF Tick, Due, WaitInv
<1>4. CASE Request
  BY <1>1, <1>4 DEF Request, WaitInv
<1>5. CASE PhaseFails
  <2>1. /\ clock <= opened + bound
        /\ clock' = clock /\ opened' = opened /\ failed' = failed + 1
    BY <1>5 DEF PhaseFails, Due, WaitInv
  <2>2. wake' = clock + Backoff(retries') /\ Backoff(retries') \in Int /\ Backoff(retries') <= MaxBackoff
    <3>1. wake' = clock + Backoff(retries') /\ retries' \in Nat
      BY <1>1, <1>5 DEF PhaseFails, Retry
    <3>. QED BY <3>1, BackoffType
  <2>3. MaxBackoff * failed' = bound + MaxBackoff
    BY <1>1, <2>1
  <2>. HIDE DEF bound
  <2>4. clock' <= opened' + (bound + MaxBackoff) /\ wake' <= opened' + (bound + MaxBackoff)
    BY <1>1, <1>2, <2>1, <2>2
  <2>. QED BY <2>3, <2>4 DEF WaitInv
<1>6. CASE StepFails \/ Restart
  <2>1. UNCHANGED <<clock, open, opened, failed>> /\ wake' = clock
    BY <1>6 DEF StepFails, Restart
  <2>. HIDE DEF bound
  <2>2. open => clock <= opened + bound
    BY <1>1, <1>2 DEF WaitInv, bound
  <2>. QED BY <1>1, <2>1, <2>2 DEF WaitInv, bound
<1>7. CASE Serve
  BY <1>7 DEF Serve, WaitInv
<1>8. CASE UNCHANGED vars
  BY <1>8 DEF vars, WaitInv
<1>. QED BY <1>3, <1>4, <1>5, <1>6, <1>7, <1>8 DEF Next

\* error_policy: a request has waited for at most the capped back-off after each failure of
\* its phase patch, whatever the retry count had grown to before.
THEOREM ServedInTimeHolds == Spec => []ServedInTime
<1>1. Init => TypeOK /\ WaitInv
  BY TypeInit DEF Init, WaitInv
<1>2. TypeOK /\ WaitInv /\ [Next]_vars => (TypeOK /\ WaitInv)'
  BY TypeStep, WaitStep
<1>3. TypeOK /\ WaitInv => ServedInTime
  <2>. DEFINE bound == MaxBackoff * failed
  <2>. SUFFICES ASSUME TypeOK, WaitInv, open PROVE clock - opened <= bound
    BY DEF ServedInTime
  <2>1. clock \in Nat /\ opened \in Nat /\ bound \in Nat
    BY Consts DEF TypeOK
  <2>2. clock <= opened + bound
    BY DEF WaitInv
  <2>. HIDE DEF bound
  <2>. QED BY <2>1, <2>2
<1>. QED BY <1>1, <1>2, <1>3, PTL DEF Spec

=============================================================================
