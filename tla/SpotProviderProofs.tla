--------------------------- MODULE SpotProviderProofs ---------------------------
(***************************************************************************)
(* SpotProvider, for any specifications, any length of hour, day and week,  *)
(* any horizon and any number of edits and faults.                          *)
(***************************************************************************)
EXTENDS SpotProvider, WellFoundedInduction, TLAPS

(* Arithmetic *)

LEMMA DivMod ==
    ASSUME NEW a \in Int, NEW h \in Nat \ {0}
    PROVE  /\ a \div h \in Int /\ a % h \in 0 .. h - 1
           /\ a = h * (a \div h) + (a % h)
OBVIOUS

LEMMA DivUnique ==
    ASSUME NEW a \in Int, NEW h \in Nat \ {0}, NEW q \in Int, NEW r \in 0 .. h - 1, a = h * q + r
    PROVE  a \div h = q
<1>. DEFINE p == a \div h
            m == a % h
<1>1. p \in Int /\ m \in 0 .. h - 1 /\ a = h * p + m
  BY DivMod
<1>. HIDE DEF p, m
<1>2. h * (p - q) = r - m
  BY <1>1
<1>3. ~(p - q >= 1)
  BY <1>1, <1>2
<1>4. ~(p - q <= -1)
  BY <1>1, <1>2
<1>5. p = q
  BY <1>1, <1>3, <1>4
<1>. QED BY <1>5 DEF p

LEMMA ModOfMultiple ==
    ASSUME NEW h \in Nat \ {0}, NEW k \in Int
    PROVE  (h * k) % h = 0
<1>. DEFINE a == h * k
<1>1. a \in Int /\ a = h * k + 0
  OBVIOUS
<1>. HIDE DEF a
<1>2. a \div h = k
  BY <1>1, DivUnique
<1>. DEFINE q == a \div h
            r == a % h
<1>3. a = h * q + r /\ r \in 0 .. h - 1 /\ q = k
  BY <1>1, <1>2, DivMod
<1>. HIDE DEF q, r
<1>4. r = 0
  BY <1>1, <1>3
<1>. QED BY <1>4 DEF a, r

LEMMA Multiple ==
    ASSUME NEW o \in Int, NEW h \in Nat \ {0}, o % h = 0
    PROVE  o \div h \in Int /\ o = h * (o \div h)
BY DivMod

\* A whole number of hours moves the hour and nothing else.
LEMMA DivShift ==
    ASSUME NEW t \in Int, NEW h \in Nat \ {0}, NEW o \in Int, o % h = 0
    PROVE  (t + o) \div h = t \div h + o \div h
<1>. DEFINE q == t \div h
            r == t % h
            k == o \div h
<1>1. q \in Int /\ r \in 0 .. h - 1 /\ t = h * q + r
  BY DivMod
<1>2. k \in Int /\ o = h * k
  BY DivMod
<1>. HIDE DEF q, r, k
<1>3. q + k \in Int /\ t + o \in Int /\ t + o = h * (q + k) + r
  BY <1>1, <1>2
<1>4. (t + o) \div h = q + k
  BY <1>1, <1>3, DivUnique
<1>. QED BY <1>4 DEF q, k

\* Which side of a whole hour an instant is on is a matter of its hour.
LEMMA DivBelow ==
    ASSUME NEW t \in Int, NEW h \in Nat \ {0}, NEW o \in Int, o % h = 0
    PROVE  t < o <=> t \div h < o \div h
<1>. DEFINE q == t \div h
            r == t % h
            k == o \div h
<1>1. q \in Int /\ r \in 0 .. h - 1 /\ t = h * q + r
  BY DivMod
<1>2. k \in Int /\ o = h * k
  BY DivMod
<1>. HIDE DEF q, r, k
<1>3. q < k => h * q + h <= h * k
  BY <1>1, <1>2
<1>4. ~(q < k) => h * k <= h * q
  BY <1>1, <1>2
<1>5. t < o <=> q < k
  BY <1>1, <1>2, <1>3, <1>4
<1>. QED BY <1>5 DEF q, k

\* Dividing by h and then by d.
LEMMA DivDiv ==
    ASSUME NEW a \in Int, NEW h \in Nat \ {0}, NEW d \in Nat \ {0}
    PROVE  a \div (h * d) = (a \div h) \div d
<1>. DEFINE q == a \div h
            m == a % h
            p == q \div d
            n == q % d
<1>1. q \in Int /\ m \in 0 .. h - 1 /\ a = h * q + m
  BY DivMod
<1>2. p \in Int /\ n \in 0 .. d - 1 /\ q = d * p + n
  BY <1>1, DivMod
<1>. HIDE DEF q, m, p, n
<1>3. a = (h * d) * p + (h * n + m)
  BY <1>1, <1>2
<1>4. h * d \in Nat \ {0}
  BY <1>1
<1>5. h * n <= h * (d - 1)
  BY <1>2
<1>6. h * n >= 0
  BY <1>2
<1>7. h * n + m \in 0 .. h * d - 1
  BY <1>1, <1>2, <1>5, <1>6
<1>8. a \div (h * d) = p
  BY <1>2, <1>3, <1>4, <1>7, DivUnique
<1>. QED BY <1>8 DEF p, q

LEMMA MinOf ==
    ASSUME NEW S, S \subseteq Nat, S # {}
    PROVE  Min(S) \in S /\ \A y \in S : Min(S) <= y
<1>1. PICK x \in S : \A y \in S : ~(<<y, x>> \in OpToRel(<, Nat))
  BY NatLessThanWellFounded, WFMin, Zenon
<1>2. \A y \in S : ~(y < x)
  BY <1>1, Zenon DEF OpToRel
<1>3. \A y \in S : x <= y
  BY <1>2
<1>. QED BY <1>3 DEF Min

---------------------------------------------------------------------------
(* Evaluation *)

\* The offset changes by whole hours and at a whole hour of local time, if at all.
LocalHours(s) ==
    \/ s.zone.std = s.zone.dst
    \/ (s.zone.dst - s.zone.std) % Hour = 0 /\ (s.zone.from + s.zone.std) % Hour = 0

\* The hour of local time, not counting a change of the offset.
HourOf(s, t) == (t + s.zone.std) \div Hour

\* In such a zone nothing changes within an hour of local time.
LEMMA SameLocalHour ==
    ASSUME NEW s \in Specs, LocalHours(s), NEW t1 \in Int, NEW t2 \in Int,
           HourOf(s, t1) = HourOf(s, t2)
    PROVE  IsActive(s, t1) = IsActive(s, t2)
<1>. DEFINE std == s.zone.std
            by == s.zone.dst - s.zone.std
            from == s.zone.from + s.zone.std
            e(t) == IF t < s.zone.from THEN 0 ELSE by
<1>1. Hour \in Nat \ {0} /\ DayHours \in Nat \ {0}
  BY ProviderAssumption
<1>2. std \in Int /\ s.zone.dst \in Int /\ s.zone.from \in Int /\ by \in Int /\ from \in Int
  BY ProviderAssumption
<1>3. \A t \in Int : Local(s, t) = (t + std) + e(t) /\ e(t) \in Int
  BY <1>2 DEF Local
<1>4. e(t1) = e(t2) /\ e(t1) % Hour = 0
  <2>0. 0 % Hour = 0
    BY <1>1
  <2>1. CASE by = 0
    BY <2>0, <2>1
  <2>2. CASE by # 0
    <3>1. by % Hour = 0 /\ from % Hour = 0
      BY <1>2, <2>2 DEF LocalHours
    <3>2. \A t \in Int : t < s.zone.from <=> t + std < from
      BY <1>2
    <3>3. ASSUME NEW t \in Int
          PROVE  t + std < from <=> HourOf(s, t) < from \div Hour
      <4>. DEFINE y == t + std
      <4>1. y \in Int
        BY <1>2
      <4>. HIDE DEF from, y
      <4>2. y < from <=> y \div Hour < from \div Hour
        BY <1>1, <1>2, <3>1, <4>1, DivBelow
      <4>. QED BY <4>2 DEF HourOf, y
    <3>4. t1 < s.zone.from <=> t2 < s.zone.from
      <4>. HIDE DEF from, std
      <4>. QED BY <3>2, <3>3
    <3>. QED BY <2>0, <3>1, <3>4
  <2>. QED BY <2>1, <2>2
<1>5. ASSUME NEW t \in Int, e(t) = e(t1)
      PROVE  Local(s, t) \in Int /\ Local(s, t) \div Hour = HourOf(s, t) + e(t1) \div Hour
  <2>1. t + std \in Int /\ e(t1) \in Int
    BY <1>2, <1>3
  <2>. DEFINE y == t + std
              z == e(t1)
  <2>2. y \in Int /\ z \in Int /\ z % Hour = 0
    BY <1>4, <2>1
  <2>. HIDE DEF e, std, y, z
  <2>3. (y + z) \div Hour = y \div Hour + z \div Hour
    BY <1>1, <2>2, DivShift
  <2>4. Local(s, t) = y + z
    BY <1>3, <1>5 DEF y, z
  <2>. QED BY <2>2, <2>3, <2>4 DEF HourOf, std, y, z
<1>. HIDE DEF e, std, by, from
<1>7. Local(s, t1) \div Hour = Local(s, t2) \div Hour
  BY <1>4, <1>5
<1>8. LocalHour(s, t1) = LocalHour(s, t2)
  BY <1>7 DEF LocalHour
<1>9. LocalDate(s, t1) = LocalDate(s, t2)
  <2>1. Local(s, t1) \in Int /\ Local(s, t2) \in Int
    BY <1>4, <1>5
  <2>2. Local(s, t1) \div (Hour * DayHours) = (Local(s, t1) \div Hour) \div DayHours
    BY <1>1, <2>1, DivDiv
  <2>3. Local(s, t2) \div (Hour * DayHours) = (Local(s, t2) \div Hour) \div DayHours
    BY <1>1, <2>1, DivDiv
  <2>. QED BY <1>7, <2>2, <2>3 DEF LocalDate
<1>10. \A w : InWindow(s, w, t1) = InWindow(s, w, t2)
  BY <1>8, <1>9, Zenon DEF InWindow
<1>11. TimeActive(s, t1) = TimeActive(s, t2)
  BY <1>10, Zenon DEF TimeActive
<1>12. MarketActive(s, t1) = MarketActive(s, t2)
  BY <1>8, <1>9, <1>10, Zenon DEF MarketActive
<1>. QED BY <1>11, <1>12, Zenon DEF IsActive

\* A zone of whole hours is one of those,
LEMMA WholeIsLocal ==
    ASSUME NEW s \in Specs, WholeHours(s)
    PROVE  LocalHours(s)
<1>1. Hour \in Nat \ {0}
  BY ProviderAssumption
<1>2. s.zone.std \in Int /\ s.zone.dst \in Int /\ s.zone.from \in Int
  BY ProviderAssumption
<1>3. s.zone.std % Hour = 0 /\ s.zone.dst % Hour = 0 /\ s.zone.from % Hour = 0
  BY DEF WholeHours
<1>. DEFINE a == s.zone.std \div Hour
            b == s.zone.dst \div Hour
            c == s.zone.from \div Hour
<1>4. /\ a \in Int /\ s.zone.std = Hour * a
      /\ b \in Int /\ s.zone.dst = Hour * b
      /\ c \in Int /\ s.zone.from = Hour * c
  BY <1>1, <1>2, <1>3, Multiple
<1>. HIDE DEF a, b, c
<1>5. ASSUME NEW k \in Int PROVE (Hour * k) % Hour = 0
  BY <1>1, ModOfMultiple
<1>6. s.zone.dst - s.zone.std = Hour * (b - a) /\ s.zone.from + s.zone.std = Hour * (c + a)
  BY <1>1, <1>4
<1>7. b - a \in Int /\ c + a \in Int
  BY <1>4
<1>8. (Hour * (b - a)) % Hour = 0 /\ (Hour * (c + a)) % Hour = 0
  BY <1>5, <1>7
<1>. QED BY <1>6, <1>8, Zenon DEF LocalHours

\* and in it nothing changes within an hour.
LEMMA SameHour ==
    ASSUME NEW s \in Specs, WholeHours(s), NEW t1 \in Int, NEW t2 \in Int,
           t1 \div Hour = t2 \div Hour
    PROVE  IsActive(s, t1) = IsActive(s, t2)
<1>1. Hour \in Nat \ {0} /\ s.zone.std \in Int /\ s.zone.std % Hour = 0
  BY ProviderAssumption DEF WholeHours
<1>2. HourOf(s, t1) = HourOf(s, t2)
  <2>. DEFINE o == s.zone.std
  <2>. HIDE DEF o
  <2>1. o \in Int /\ o % Hour = 0
    BY <1>1 DEF o
  <2>2. (t1 + o) \div Hour = t1 \div Hour + o \div Hour
    BY <1>1, <2>1, DivShift
  <2>3. (t2 + o) \div Hour = t2 \div Hour + o \div Hour
    BY <1>1, <2>1, DivShift
  <2>. QED BY <2>2, <2>3 DEF HourOf, o
<1>. QED BY <1>2, SameLocalHour, WholeIsLocal

\* Every instant of a UTC hour has the local hour of that hour's start or end.
LEMMA Neighbours ==
    ASSUME NEW s \in Specs, NEW c \in Int, NEW t \in Int, c <= t, t < c + Hour
    PROVE  /\ HourOf(s, t) \in {HourOf(s, c), HourOf(s, c + Hour)}
           /\ HourOf(s, c + Hour) = HourOf(s, c) + 1 /\ HourOf(s, c) \in Int
<1>1. Hour \in Nat \ {0} /\ s.zone.std \in Int
  BY ProviderAssumption
<1>. DEFINE o == s.zone.std
            x == c + o
            y == t + o
            p == x \div Hour
            m == x % Hour
<1>2. x \in Int /\ y \in Int /\ x <= y /\ y < x + Hour /\ o \in Int
  BY <1>1
<1>. HIDE DEF x, y
<1>3. p \in Int /\ m \in 0 .. Hour - 1 /\ x = Hour * p + m
  BY <1>1, <1>2, DivMod
<1>. HIDE DEF p, m
<1>4. y \div Hour = p \/ y \div Hour = p + 1
  <2>1. CASE y < Hour * p + Hour
    <3>1. y - Hour * p \in 0 .. Hour - 1 /\ y = Hour * p + (y - Hour * p)
      BY <1>1, <1>2, <1>3, <2>1
    <3>. QED BY <1>1, <1>2, <1>3, <3>1, DivUnique
  <2>2. CASE ~(y < Hour * p + Hour)
    <3>1. Hour * (p + 1) = Hour * p + Hour /\ Hour * p \in Int
      BY <1>1, <1>3
    <3>2. y - Hour * (p + 1) \in 0 .. Hour - 1 /\ y = Hour * (p + 1) + (y - Hour * (p + 1))
      BY <1>1, <1>2, <1>3, <2>2, <3>1
    <3>3. p + 1 \in Int
      BY <1>3
    <3>. QED BY <1>1, <1>2, <3>2, <3>3, DivUnique
  <2>. QED BY <2>1, <2>2
<1>5. (x + Hour) \div Hour = p + 1
  <2>1. x + Hour = Hour * (p + 1) + m /\ p + 1 \in Int /\ x + Hour \in Int
    BY <1>1, <1>2, <1>3
  <2>. QED BY <1>1, <1>3, <2>1, DivUnique
<1>6. (c + Hour) + s.zone.std = x + Hour
  BY <1>1 DEF x
<1>7. HourOf(s, c) = p /\ HourOf(s, t) = y \div Hour /\ HourOf(s, c + Hour) = (x + Hour) \div Hour
  BY <1>6 DEF HourOf, p, x, y
<1>. QED BY <1>3, <1>4, <1>5, <1>7

LEMMA HourGrows ==
    ASSUME NEW s \in Specs, NEW t1 \in Int, NEW t2 \in Int, t1 <= t2
    PROVE  HourOf(s, t1) <= HourOf(s, t2)
<1>1. Hour \in Nat \ {0} /\ s.zone.std \in Int
  BY ProviderAssumption
<1>. DEFINE x == t1 + s.zone.std
            y == t2 + s.zone.std
            p == x \div Hour
            q == y \div Hour
            m == x % Hour
            n == y % Hour
<1>2. x \in Int /\ y \in Int /\ x <= y
  BY <1>1
<1>. HIDE DEF x, y
<1>3. /\ p \in Int /\ m \in 0 .. Hour - 1 /\ x = Hour * p + m
      /\ q \in Int /\ n \in 0 .. Hour - 1 /\ y = Hour * q + n
  BY <1>1, <1>2, DivMod
<1>. HIDE DEF p, q, m, n
<1>4. q <= p - 1 => Hour * q + Hour <= Hour * p
  BY <1>1, <1>3
<1>5. Hour * q \in Int /\ Hour * p \in Int
  BY <1>1, <1>3
<1>6. p <= q
  BY <1>1, <1>2, <1>3, <1>4, <1>5
<1>. QED BY <1>6 DEF HourOf, p, q, x, y

Flips(s, t) == {c \in Candidates(t) : IsActive(s, c) # IsActive(s, t)}

\* Candidates are whole hours, later than t and within the horizon.
LEMMA CandidateHours ==
    ASSUME NEW t \in Nat, NEW c \in Candidates(t)
    PROVE  \E k \in 1 .. Horizon : c = (t \div Hour + k) * Hour /\ c \in Nat /\ c > t
<1>1. Hour \in Nat \ {0} /\ Horizon \in Nat \ {0}
  BY ProviderAssumption
<1>2. PICK k \in 1 .. Horizon : c = (t \div Hour + k) * Hour
  BY DEF Candidates
<1>. DEFINE q == t \div Hour
            r == t % Hour
<1>3. q \in Int /\ r \in 0 .. Hour - 1 /\ t = Hour * q + r
  BY <1>1, DivMod
<1>4. c = (q + k) * Hour
  BY <1>2
<1>. HIDE DEF q, r
<1>5. Hour * k >= Hour
  BY <1>1, <1>2
<1>6. (q + k) * Hour = Hour * q + Hour * k
  BY <1>1, <1>3
<1>7. c \in Int /\ c > t
  BY <1>1, <1>3, <1>4, <1>5, <1>6
<1>. QED BY <1>2, <1>7

\* What next_transition returns.
LEMMA NextOf ==
    ASSUME NEW s, NEW t \in Nat
    PROVE  \/ Flips(s, t) = {} /\ NextTransition(s, t) = 0
           \/ /\ NextTransition(s, t) \in Flips(s, t) /\ NextTransition(s, t) \in Nat \ {0}
              /\ \A c \in Flips(s, t) : NextTransition(s, t) <= c
<1>1. Flips(s, t) \subseteq Nat \ {0}
  BY CandidateHours DEF Flips
<1>2. NextTransition(s, t) = IF Flips(s, t) = {} THEN 0 ELSE Min(Flips(s, t))
  BY DEF NextTransition, Flips
<1>3. CASE Flips(s, t) = {}
  BY <1>2, <1>3
<1>4. CASE Flips(s, t) # {}
  <2>1. Min(Flips(s, t)) \in Flips(s, t) /\ \A c \in Flips(s, t) : Min(Flips(s, t)) <= c
    BY <1>1, <1>4, MinOf
  <2>. QED BY <1>1, <1>2, <1>4, <2>1
<1>. QED BY <1>3, <1>4

\* The instant the requeue is meant for.
RequeueAt(t, next) == t + Requeue(t, next)

LEMMA RequeueType ==
    ASSUME NEW s, NEW t \in Nat
    PROVE  Requeue(t, NextTransition(s, t)) \in Nat
<1>. DEFINE n == NextTransition(s, t)
<1>1. n = 0 \/ (n \in Nat /\ n > t)
  <2>1. CASE Flips(s, t) = {} /\ n = 0
    BY <2>1
  <2>2. CASE n \in Flips(s, t)
    BY <2>2, CandidateHours DEF Flips
  <2>. QED BY <2>1, <2>2, NextOf
<1>. HIDE DEF n
<1>2. Requeue(t, n) \in Nat
  BY <1>1, ProviderAssumption DEF Requeue
<1>. QED BY <1>2 DEF n

\* Until the requeue, the value found at t0 is right.
LEMMA Steady ==
    ASSUME NEW s \in Specs, WholeHours(s), NEW t0 \in Nat, NEW t \in Nat,
           t0 <= t, t < RequeueAt(t0, NextTransition(s, t0))
    PROVE  IsActive(s, t) = IsActive(s, t0)
<1>1. Hour \in Nat \ {0} /\ Horizon \in Nat \ {0} /\ Fallback \in Nat /\ Fallback <= Horizon * Hour
  BY ProviderAssumption
<1>. DEFINE q0 == t0 \div Hour
            r0 == t0 % Hour
            q == t \div Hour
            r == t % Hour
            c == (q0 + (q - q0)) * Hour
<1>2. q0 \in Int /\ r0 \in 0 .. Hour - 1 /\ t0 = Hour * q0 + r0
  BY <1>1, DivMod
<1>3. q \in Int /\ r \in 0 .. Hour - 1 /\ t = Hour * q + r
  BY <1>1, DivMod
<1>4. CASE q = q0
  BY <1>4, SameHour
<1>5. CASE q # q0
  <2>. SUFFICES ASSUME IsActive(s, t) # IsActive(s, t0)
                PROVE  FALSE
    OBVIOUS
  <2>1. c \in Int /\ c = Hour * q + 0 /\ c <= t
    <3>. HIDE DEF q, r, q0, r0
    <3>. QED BY <1>1, <1>2, <1>3
  <2>2. c \div Hour = q
    <3>. HIDE DEF c
    <3>. QED BY <1>1, <1>3, <2>1, DivUnique
  <2>3. IsActive(s, c) = IsActive(s, t)
    <3>. HIDE DEF c
    <3>. QED BY <2>1, <2>2, SameHour
  <2>4. q > q0
    <3>. HIDE DEF q, r, q0, r0
    <3>1. q <= q0 - 1 => Hour * q <= Hour * q0 - Hour
      BY <1>1, <1>2, <1>3
    <3>. QED BY <1>1, <1>2, <1>3, <1>5, <3>1
  <2>5. q <= q0 + Horizon => c \in Flips(s, t0)
    <3>1. ASSUME q <= q0 + Horizon
          PROVE  c \in Candidates(t0)
      <4>1. q - q0 \in 1 .. Horizon
        <5>. HIDE DEF q, r, q0, r0
        <5>. QED BY <1>1, <1>2, <1>3, <2>4, <3>1
      <4>. QED BY <4>1 DEF Candidates
    <3>. QED BY <2>3, <3>1 DEF Flips
  <2>6. CASE Flips(s, t0) = {} /\ NextTransition(s, t0) = 0
    <3>1. t < t0 + Horizon * Hour
      BY <1>1, <2>6 DEF RequeueAt, Requeue
    <3>2. q <= q0 + Horizon
      <4>. HIDE DEF q, r, q0, r0
      <4>1. q >= q0 + Horizon + 1 => Hour * q >= Hour * q0 + Hour * Horizon + Hour
        BY <1>1, <1>2, <1>3
      <4>. QED BY <1>1, <1>2, <1>3, <3>1, <4>1
    <3>. QED BY <2>5, <2>6, <3>2
  <2>7. CASE /\ NextTransition(s, t0) \in Flips(s, t0) /\ NextTransition(s, t0) \in Nat \ {0}
             /\ \A x \in Flips(s, t0) : NextTransition(s, t0) <= x
    <3>. DEFINE n == NextTransition(s, t0)
    <3>1. t < n
      BY <2>7 DEF RequeueAt, Requeue
    <3>2. PICK k \in 1 .. Horizon : n = (q0 + k) * Hour
      BY <2>7, CandidateHours DEF Flips
    <3>3. q <= q0 + Horizon
      <4>1. n \in Nat
        BY <2>7
      <4>. HIDE DEF q, r, q0, r0, n
      <4>2. q >= q0 + k => Hour * q >= (q0 + k) * Hour
        BY <1>1, <1>2, <1>3
      <4>. QED BY <1>1, <1>2, <1>3, <3>1, <3>2, <4>1, <4>2
    <3>4. n <= c
      BY <2>5, <2>7, <3>3
    <3>5. n \in Nat
      BY <2>7
    <3>. HIDE DEF c, n
    <3>. QED BY <2>1, <3>1, <3>4, <3>5
  <2>. QED BY <2>6, <2>7, NextOf
<1>. QED BY <1>4, <1>5

\* Where the hours of local time do not begin with those of UTC, it may be wrong for the
\* rest of the last hour.
LEMMA NearlySteady ==
    ASSUME NEW s \in Specs, LocalHours(s), NEW t0 \in Nat, NEW t \in Nat,
           t0 <= t, t < RequeueAt(t0, NextTransition(s, t0)),
           IsActive(s, t) # IsActive(s, t0)
    PROVE  RequeueAt(t0, NextTransition(s, t0)) - t < Hour
<1>1. Hour \in Nat \ {0} /\ Horizon \in Nat \ {0} /\ Fallback \in Nat /\ Fallback <= Horizon * Hour
  BY ProviderAssumption
<1>. DEFINE q0 == t0 \div Hour
            r0 == t0 % Hour
            q == t \div Hour
            r == t % Hour
            R == RequeueAt(t0, NextTransition(s, t0))
            c(k) == (q0 + k) * Hour
<1>2. q0 \in Int /\ r0 \in 0 .. Hour - 1 /\ t0 = Hour * q0 + r0
  BY <1>1, DivMod
<1>3. q \in Int /\ r \in 0 .. Hour - 1 /\ t = Hour * q + r
  BY <1>1, DivMod
<1>4. R \in Nat /\ t < R
  <2>1. Requeue(t0, NextTransition(s, t0)) \in Nat
    BY RequeueType
  <2>. QED BY <2>1 DEF RequeueAt
\* A flip that the scan sees is no earlier than the requeue; nor is anything after its end.
<1>5. ASSUME NEW k \in 1 .. Horizon, IsActive(s, c(k)) # IsActive(s, t0)
      PROVE  R <= c(k)
  <2>1. c(k) \in Flips(s, t0)
    BY <1>5 DEF Flips, Candidates
  <2>2. NextTransition(s, t0) \in Nat \ {0} /\ NextTransition(s, t0) <= c(k)
    BY <2>1, NextOf
  <2>. QED BY <2>2 DEF RequeueAt, Requeue
<1>6. R < c(Horizon + 1)
  <2>0. c(Horizon + 1) = Hour * q0 + Horizon * Hour + Hour
    <3>. HIDE DEF q0
    <3>. QED BY <1>1, <1>2
  <2>1. CASE NextTransition(s, t0) = 0
    <3>1. R = t0 + Fallback
      BY <2>1 DEF RequeueAt, Requeue
    <3>. HIDE DEF q0, r0, R, c
    <3>2. Horizon * Hour \in Int /\ Hour * q0 \in Int
      BY <1>1, <1>2
    <3>. QED BY <1>1, <1>2, <2>0, <3>1, <3>2
  <2>2. CASE NextTransition(s, t0) \in Flips(s, t0) /\ NextTransition(s, t0) \in Nat \ {0}
    <3>1. PICK k \in 1 .. Horizon : NextTransition(s, t0) = (q0 + k) * Hour
      BY <2>2, CandidateHours DEF Flips
    <3>2. R = c(k)
      BY <2>2, <3>1 DEF RequeueAt, Requeue
    <3>. HIDE DEF q0, R
    <3>3. (q0 + k) * Hour < (q0 + (Horizon + 1)) * Hour
      BY <1>1, <1>2
    <3>. QED BY <3>2, <3>3
  <2>. QED BY <2>1, <2>2, NextOf
<1>. DEFINE k == q - q0
<1>7. k \in 0 .. Horizon
  <2>. HIDE DEF q0, r0, q, r, R
  <2>1. q <= q0 - 1 => Hour * q <= Hour * q0 - Hour
    BY <1>1, <1>2, <1>3
  <2>2. q >= q0 + (Horizon + 1) => Hour * q >= (q0 + (Horizon + 1)) * Hour
    BY <1>1, <1>2, <1>3
  <2>3. Hour * q \in Int /\ Hour * q0 \in Int /\ (q0 + (Horizon + 1)) * Hour \in Int
    BY <1>1, <1>2, <1>3
  <2>. QED BY <1>1, <1>2, <1>3, <1>4, <1>6, <2>1, <2>2, <2>3
<1>8. /\ c(k) \in Int /\ c(k + 1) = c(k) + Hour /\ c(k + 1) \in Int
      /\ c(k) <= t /\ t < c(k) + Hour
  <2>. HIDE DEF q0, r0, q, r
  <2>1. c(k) = Hour * q /\ c(k + 1) = Hour * q + Hour /\ Hour * q \in Int
    BY <1>1, <1>2, <1>3
  <2>. QED BY <1>1, <1>3, <2>1
\* The value at t is that of the end of its hour, which is a flip, and not that of its start.
<1>9. IsActive(s, t) = IsActive(s, c(k + 1)) /\ t # c(k)
  <2>0. t \in Int /\ t0 \in Int
    OBVIOUS
  <2>1. CASE k = 0
    <3>1. c(k) <= t0 /\ t0 < c(k) + Hour
      <4>. HIDE DEF q0, r0
      <4>1. c(0) = Hour * q0 /\ Hour * q0 \in Int
        BY <1>1, <1>2
      <4>. QED BY <1>1, <1>2, <2>1, <4>1
    <3>2. t # t0
      OBVIOUS
    <3>3. t # c(k)
      <4>. HIDE DEF c, k
      <4>. QED BY <1>8, <3>1, <3>2
    <3>4. HourOf(s, t) # HourOf(s, t0)
      BY <2>0, SameLocalHour
    <3>. HIDE DEF c, k
    <3>5. HourOf(s, t) = HourOf(s, c(k) + Hour)
      <4>1. HourOf(s, t) \in {HourOf(s, c(k)), HourOf(s, c(k) + Hour)}
        BY <1>8, <2>0, Neighbours
      <4>2. /\ HourOf(s, t0) \in {HourOf(s, c(k)), HourOf(s, c(k) + Hour)}
            /\ HourOf(s, c(k) + Hour) = HourOf(s, c(k)) + 1 /\ HourOf(s, c(k)) \in Int
        BY <1>8, <2>0, <3>1, Neighbours
      <4>3. HourOf(s, t0) <= HourOf(s, t)
        BY <2>0, HourGrows
      <4>. QED BY <3>4, <4>1, <4>2, <4>3
    <3>6. IsActive(s, t) = IsActive(s, c(k) + Hour)
      BY <1>8, <2>0, <3>5, SameLocalHour
    <3>. QED BY <1>8, <3>3, <3>6
  <2>2. CASE k # 0
    <3>1. k \in 1 .. Horizon
      BY <1>7, <2>2
    <3>2. IsActive(s, c(k)) = IsActive(s, t0)
      <4>1. ~(R <= c(k))
        <5>. HIDE DEF R, c, k
        <5>. QED BY <1>4, <1>8
      <4>. QED BY <1>5, <3>1, <4>1
    <3>. HIDE DEF c, k
    <3>3. HourOf(s, t) # HourOf(s, c(k)) /\ t # c(k)
      BY <1>8, <2>0, <3>2, SameLocalHour
    <3>4. HourOf(s, t) = HourOf(s, c(k) + Hour)
      BY <1>8, <2>0, <3>3, Neighbours
    <3>5. IsActive(s, t) = IsActive(s, c(k) + Hour)
      BY <1>8, <2>0, <3>4, SameLocalHour
    <3>. QED BY <1>8, <3>3, <3>5
  <2>. QED BY <2>1, <2>2
<1>10. R <= c(k + 1)
  <2>1. CASE k + 1 \in 1 .. Horizon
    BY <1>5, <1>9, <2>1
  <2>2. CASE k = Horizon
    <3>. HIDE DEF R, c, k
    <3>. QED BY <1>4, <1>6, <1>8, <2>2
  <2>3. k + 1 \in 1 .. Horizon \/ k = Horizon
    <3>. HIDE DEF k
    <3>. QED BY <1>1, <1>7
  <2>. QED BY <2>1, <2>2, <2>3
<1>11. R - t < Hour
  <2>. HIDE DEF R, c, k
  <2>. QED BY <1>1, <1>4, <1>8, <1>9, <1>10
<1>. QED BY <1>11

---------------------------------------------------------------------------
(* Invariants *)

LEMMA ActiveType ==
    ASSUME NEW s, NEW t
    PROVE  IsActive(s, t) \in BOOLEAN
<1>1. TimeActive(s, t) \in BOOLEAN /\ MarketActive(s, t) \in BOOLEAN
  BY DEF TimeActive, MarketActive
<1>. QED BY <1>1, Zenon DEF IsActive

LEMMA Bounds == MaxClock \in Nat \ {0} /\ MaxEdits \in Nat /\ MaxFaults \in Nat
BY ProviderAssumption

LEMMA TypeInit == Init => TypeOK
<1>. SUFFICES ASSUME Init
              PROVE  TypeOK
  OBVIOUS
<1>1. status \in [active : BOOLEAN, gen : Nat]
  BY DEF Init
<1>2. cache \in [spec : Specs, gen : Nat]
  BY DEF Init
<1>3. /\ run \in [pc : {"idle", "patch"}, at : Nat, active : BOOLEAN, gen : Nat, delay : Nat]
      /\ run.at <= clock /\ late \in Nat
  BY DEF Init, NoRun
<1>4. clock \in 1 .. MaxClock /\ gen \in 1 .. MaxEdits + 1 /\ wake \in Nat /\ faults \in 0 .. MaxFaults
  BY Bounds DEF Init
<1>5. spec \in Specs /\ event \in BOOLEAN /\ dirty \in BOOLEAN
  BY DEF Init
<1>. QED BY <1>1, <1>2, <1>3, <1>4, <1>5, Zenon DEF TypeOK

LEMMA TypeStep ==
    ASSUME TypeOK, [Next]_vars
    PROVE  TypeOK'
<1>1. clock \in Nat \ {0} /\ gen \in Nat /\ faults \in Nat
  BY Bounds DEF TypeOK
<1>2. CASE Tick
  BY <1>1, <1>2, Bounds DEF Tick, TypeOK
<1>3. CASE Watched
  BY <1>1, <1>3 DEF Watched, TypeOK
<1>4. CASE Reconcile
  <2>1. CASE Computes(cache.spec, clock)
    <3>. DEFINE a == IsActive(cache.spec, clock)
                d == Requeue(clock, NextTransition(cache.spec, clock))
    <3>1. a \in BOOLEAN /\ d \in Nat
      BY <1>1, ActiveType, RequeueType
    <3>2. /\ run' = [pc |-> "patch", at |-> clock, gen |-> cache.gen, active |-> a, delay |-> d]
          /\ wake' = 0 /\ clock' = clock
      BY <1>4, <2>1 DEF Reconcile
    <3>. HIDE DEF a, d
    <3>3. /\ run' \in [pc : {"idle", "patch"}, at : Nat, active : BOOLEAN, gen : Nat, delay : Nat]
          /\ run'.at <= clock'
      BY <1>1, <3>1, <3>2 DEF TypeOK
    <3>. QED BY <1>4, <3>2, <3>3 DEF Reconcile, TypeOK
  <2>2. CASE ~Computes(cache.spec, clock)
    BY <1>1, <1>4, <2>2 DEF Reconcile, TypeOK
  <2>. QED BY <2>1, <2>2
<1>5. CASE PatchStatus
  <2>1. /\ run.at \in Nat /\ run.at <= clock /\ run.delay \in Nat /\ run.active \in BOOLEAN
        /\ run.gen \in Nat
    BY DEF TypeOK
  <2>2. wake' \in Nat /\ late' \in Nat
    BY <1>1, <1>5, <2>1 DEF PatchStatus
  <2>3. /\ run' \in [pc : {"idle", "patch"}, at : Nat, active : BOOLEAN, gen : Nat, delay : Nat]
        /\ run'.at <= clock' /\ status' \in [active : BOOLEAN, gen : Nat]
    BY <1>1, <1>5, <2>1 DEF PatchStatus, NoRun
  <2>. QED BY <1>5, <2>2, <2>3 DEF PatchStatus, TypeOK
<1>6. CASE PatchFails
  BY <1>1, <1>6, Bounds DEF PatchFails, Fault, NoRun, TypeOK
<1>7. CASE Restart
  <2>1. cache' \in [spec : Specs, gen : Nat]
    BY <1>1, <1>7 DEF Restart, TypeOK
  <2>2. /\ run' \in [pc : {"idle", "patch"}, at : Nat, active : BOOLEAN, gen : Nat, delay : Nat]
        /\ run'.at <= clock'
    BY <1>1, <1>7 DEF Restart, NoRun
  <2>3. faults' \in 0 .. MaxFaults
    BY <1>1, <1>7, Bounds DEF Restart, Fault
  <2>. QED BY <1>7, <2>1, <2>2, <2>3 DEF Restart, TypeOK
<1>8. ASSUME NEW s \in Specs, EditSpec(s)
      PROVE  TypeOK'
  BY <1>1, <1>8, Bounds DEF EditSpec, TypeOK
<1>9. CASE UNCHANGED vars
  BY <1>9 DEF vars, TypeOK
<1>. QED BY <1>2, <1>3, <1>4, <1>5, <1>6, <1>7, <1>8, <1>9 DEF Next

\* Type correctness of the provider's object, copy, work queue and timer: the requeue
\* computed from next_transition is an instant and the generations stay in their ranges.
THEOREM ProviderTypes == Spec => []TypeOK
<1>. QED BY TypeInit, TypeStep, PTL DEF Spec

\* What Covered says of a value a, a requeue w and an instant t.
Right(s, a, w, t) == \/ a = IsActive(s, t)
                     \/ ~WholeHours(s) /\ w - t < Hour

\* A value found for the current specification is right until the instant its requeue is
\* meant for.
Good(a, w) ==
    LocalHours(spec) => \A t \in Nat : (clock <= t /\ t < w) => Right(spec, a, w, t)

\* Generations only lag, and one that does not stands for the current specification.
LagInv ==
    /\ cache.gen <= gen /\ run.gen <= gen /\ status.gen <= gen
    /\ cache.gen = gen => cache.spec = spec

CoverInv ==
    /\ LagInv
    /\ (run.pc = "patch" /\ run.gen = gen) => Good(run.active, run.at + run.delay)
    /\ status.gen = gen => Good(status.active, wake - late)

LEMMA LagStep ==
    ASSUME TypeOK, LagInv, [Next]_vars
    PROVE  LagInv'
<1>1. gen \in Nat /\ cache.gen \in Nat /\ run.gen \in Nat /\ status.gen \in Nat
  BY Bounds DEF TypeOK
<1>2. CASE Tick
  BY <1>2 DEF Tick, LagInv
<1>3. CASE Watched
  BY <1>1, <1>3 DEF Watched, LagInv
<1>4. CASE Reconcile
  BY <1>1, <1>4 DEF Reconcile, LagInv
<1>5. CASE PatchStatus
  BY <1>1, <1>5 DEF PatchStatus, NoRun, LagInv
<1>6. CASE PatchFails
  BY <1>1, <1>6 DEF PatchFails, NoRun, LagInv
<1>7. CASE Restart
  BY <1>1, <1>7 DEF Restart, NoRun, LagInv
<1>8. ASSUME NEW s \in Specs, EditSpec(s)
      PROVE  LagInv'
  BY <1>1, <1>8 DEF EditSpec, LagInv
<1>9. CASE UNCHANGED vars
  BY <1>9 DEF vars, LagInv
<1>. QED BY <1>2, <1>3, <1>4, <1>5, <1>6, <1>7, <1>8, <1>9 DEF Next

\* With the specification kept and the clock not turned back, Good stays.
LEMMA GoodKept ==
    ASSUME NEW a, NEW w \in Int, Good(a, w), clock \in Nat, clock' \in Nat,
           spec' = spec, clock <= clock', LocalHours(spec'),
           NEW t \in Nat, clock' <= t, t < w
    PROVE  Right(spec', a, w, t)
<1>1. clock <= t /\ LocalHours(spec)
  BY Z3
<1>2. Right(spec, a, w, t)
  BY <1>1 DEF Good
<1>. QED BY <1>2

LEMMA CoverStep ==
    ASSUME TypeOK, CoverInv, [Next]_vars
    PROVE  CoverInv'
<1>1. TypeOK' /\ LagInv'
  BY TypeStep, LagStep DEF CoverInv
<1>2. /\ gen \in Nat /\ cache.gen \in Nat /\ run.gen \in Nat /\ status.gen \in Nat
      /\ clock \in Nat /\ clock' \in Nat /\ spec \in Specs
  BY <1>1, Bounds DEF TypeOK
<1>3. ASSUME spec' = spec, gen' = gen, clock <= clock', UNCHANGED <<run, status, wake, late>>
      PROVE  CoverInv'
  <2>1. ASSUME run.pc = "patch", run.gen = gen
        PROVE  Good(run.active, run.at + run.delay)'
    <3>1. Good(run.active, run.at + run.delay)
      BY <2>1 DEF CoverInv
    <3>2. run' = run /\ run.at + run.delay \in Int
      BY <1>3 DEF TypeOK
    <3>. QED BY <1>2, <1>3, <3>1, <3>2, GoodKept DEF Good
  <2>2. ASSUME status.gen = gen
        PROVE  Good(status.active, wake - late)'
    <3>1. Good(status.active, wake - late)
      BY <2>2 DEF CoverInv
    <3>2. status'.active = status.active /\ wake' = wake /\ late' = late /\ wake - late \in Int
      BY <1>3 DEF TypeOK
    <3>. QED BY <1>2, <1>3, <3>1, <3>2, GoodKept DEF Good
  <2>. QED BY <1>1, <1>3, <2>1, <2>2 DEF CoverInv
<1>4. CASE Tick
  BY <1>2, <1>3, <1>4 DEF Tick
<1>5. CASE Watched
  BY <1>2, <1>3, <1>5 DEF Watched
<1>6. CASE Reconcile
  <2>1. Good(status.active, wake - late)'
    <3>1. wake' - late' <= clock' /\ wake' - late' \in Int
      BY <1>2, <1>6 DEF Reconcile
    <3>. QED BY <1>2, <3>1 DEF Good
  <2>2. CASE Computes(cache.spec, clock)
    <3>1. /\ run'.gen = cache.gen /\ run'.active = IsActive(cache.spec, clock)
          /\ run'.at + run'.delay = RequeueAt(clock, NextTransition(cache.spec, clock))
          /\ spec' = spec /\ gen' = gen /\ clock' = clock
      BY <1>6, <2>2 DEF Reconcile, RequeueAt
    <3>2. ASSUME run'.gen = gen'
          PROVE  Good(run.active, run.at + run.delay)'
      <4>1. cache.spec = spec
        BY <3>1, <3>2 DEF CoverInv, LagInv
      <4>2. ASSUME LocalHours(spec), NEW t \in Nat, clock <= t,
                   t < RequeueAt(clock, NextTransition(spec, clock))
            PROVE  Right(spec, IsActive(spec, clock), RequeueAt(clock, NextTransition(spec, clock)), t)
        <5>1. CASE WholeHours(spec)
          <6>1. IsActive(spec, clock) = IsActive(spec, t)
            BY <1>2, <4>2, <5>1, Steady
          <6>. QED BY <6>1, Zenon DEF Right
        <5>2. CASE ~WholeHours(spec)
          <6>1. CASE IsActive(spec, clock) = IsActive(spec, t)
            BY <6>1, Zenon DEF Right
          <6>2. CASE IsActive(spec, clock) # IsActive(spec, t)
            <7>1. RequeueAt(clock, NextTransition(spec, clock)) - t < Hour
              BY <1>2, <4>2, <6>2, NearlySteady
            <7>. QED BY <5>2, <7>1, Zenon DEF Right
          <6>. QED BY <6>1, <6>2
        <5>. QED BY <5>1, <5>2
      <4>. QED BY <3>1, <4>1, <4>2 DEF Good
    <3>. QED BY <1>1, <2>1, <3>2 DEF CoverInv
  <2>3. CASE ~Computes(cache.spec, clock)
    <3>1. UNCHANGED <<run, spec, gen, clock>>
      BY <1>6, <2>3 DEF Reconcile
    <3>2. (run.pc = "patch" /\ run.gen = gen) => Good(run.active, run.at + run.delay)'
      BY <3>1 DEF CoverInv, Good
    <3>. QED BY <1>1, <2>1, <3>1, <3>2 DEF CoverInv
  <2>. QED BY <2>2, <2>3
<1>7. CASE PatchStatus
  <2>1. /\ run.pc = "patch" /\ run'.pc = "idle" /\ status'.gen = run.gen
        /\ status'.active = run.active /\ wake' - late' = run.at + run.delay
        /\ spec' = spec /\ gen' = gen /\ clock' = clock
    <3>1. run.at \in Nat /\ run.delay \in Nat
      BY DEF TypeOK
    <3>. QED BY <1>2, <1>7, <3>1 DEF PatchStatus, NoRun
  <2>2. status'.gen = gen' => Good(status.active, wake - late)'
    BY <2>1 DEF CoverInv, Good
  <2>. QED BY <1>1, <2>1, <2>2 DEF CoverInv
<1>8. CASE PatchFails \/ Restart
  <2>1. run'.pc = "idle" /\ wake' - late' <= clock' /\ wake' - late' \in Int
    BY <1>2, <1>8 DEF PatchFails, Restart, NoRun
  <2>2. Good(status.active, wake - late)'
    BY <1>2, <2>1 DEF Good
  <2>. QED BY <1>1, <2>1, <2>2 DEF CoverInv
<1>9. ASSUME NEW s \in Specs, EditSpec(s)
      PROVE  CoverInv'
  <2>1. run'.gen # gen' /\ status'.gen # gen'
    BY <1>2, <1>9 DEF EditSpec, CoverInv, LagInv
  <2>. QED BY <1>1, <2>1 DEF CoverInv
<1>10. CASE UNCHANGED vars
  BY <1>2, <1>3, <1>10 DEF vars
<1>. QED BY <1>4, <1>5, <1>6, <1>7, <1>8, <1>9, <1>10 DEF Next

\* next_transition misses nothing between a reconcile and the requeue it asked for, however
\* long the horizon and whatever the windows, holidays and early closes: in a zone of whole
\* hours the published value is right but for the time by which the patch delayed the
\* requeue; in a zone with a fractional offset whose changes, if any, are by whole hours and
\* at a whole hour of local time, it is right but for less than an hour more.
THEOREM CoveredHolds == Spec => [](LocalHours(spec) => Covered)
<1>1. Init => TypeOK /\ CoverInv
  <2>1. Init => LagInv /\ run.pc # "patch" /\ status.gen # gen
    BY DEF Init, NoRun, LagInv
  <2>. QED BY <2>1, TypeInit DEF CoverInv
<1>2. TypeOK /\ CoverInv /\ [Next]_vars => (TypeOK /\ CoverInv)'
  BY TypeStep, CoverStep
<1>3. TypeOK /\ CoverInv => (LocalHours(spec) => Covered)
  <2>. SUFFICES ASSUME TypeOK, CoverInv, LocalHours(spec), status.gen = gen, clock < wake,
                       ~(wake - clock <= late)
                PROVE  \/ status.active = IsActive(spec, clock)
                       \/ ~WholeHours(spec) /\ wake - clock < late + Hour
    BY DEF Covered, Fresh
  <2>1. clock \in Nat /\ wake \in Nat /\ late \in Nat /\ Hour \in Nat
    BY ProviderAssumption DEF TypeOK
  <2>2. clock <= clock /\ clock < wake - late
    BY <2>1
  <2>3. Right(spec, status.active, wake - late, clock)
    BY <2>1, <2>2 DEF CoverInv, Good
  <2>4. (wake - late) - clock < Hour => wake - clock < late + Hour
    BY <2>1
  <2>. QED BY <2>3, <2>4, Zenon DEF Right
<1>. QED BY <1>1, <1>2, <1>3, PTL DEF Spec

\* Between a reconcile and the instant its requeue is meant for, the published value is right
\* in a zone of whole hours.
COROLLARY WholeHoursCovered ==
    Spec => []((WholeHours(spec) /\ Fresh /\ clock < wake - late)
                  => status.active = IsActive(spec, clock))
<1>1. TypeOK /\ (LocalHours(spec) => Covered)
        => ((WholeHours(spec) /\ Fresh /\ clock < wake - late)
              => status.active = IsActive(spec, clock))
  <2>. SUFFICES ASSUME TypeOK, LocalHours(spec) => Covered, WholeHours(spec), Fresh,
                       clock < wake - late
                PROVE  status.active = IsActive(spec, clock)
    OBVIOUS
  <2>1. clock \in Nat /\ wake \in Nat /\ late \in Nat /\ spec \in Specs
    BY DEF TypeOK
  <2>2. clock < wake /\ ~(wake - clock <= late)
    BY <2>1
  <2>3. LocalHours(spec)
    BY <2>1, WholeIsLocal
  <2>. QED BY <2>2, <2>3, Zenon DEF Covered
<1>. QED BY <1>1, CoveredHolds, ProviderTypes, PTL

---------------------------------------------------------------------------
(* Ranges *)

\* A remainder of the distance of two numbers of a circle of n.
LEMMA CircleMod ==
    ASSUME NEW n \in Nat \ {0}, NEW a \in 0 .. n - 1, NEW b \in 0 .. n - 1
    PROVE  (b - a) % n = IF a <= b THEN b - a ELSE b - a + n
<1>. DEFINE y == b - a
<1>0. y \in Int /\ y = n * (y \div n) + (y % n)
  BY DivMod
<1>1. CASE a <= b
  <2>1. y \in 0 .. n - 1 /\ y = n * 0 + y
    BY <1>1
  <2>2. y \div n = 0
    BY <2>1, DivUnique
  <2>. QED BY <1>0, <1>1, <2>2
<1>2. CASE ~(a <= b)
  <2>1. y + n \in 0 .. n - 1 /\ y = n * (-1) + (y + n)
    BY <1>2
  <2>2. y \div n = -1
    <3>. HIDE DEF y
    <3>. QED BY <1>0, <2>1, DivUnique
  <2>. QED BY <1>0, <1>2, <2>2
<1>. QED BY <1>1, <1>2

\* One range, written with its ends in order or over the end of the circle.
LEMMA RangeWraps ==
    ASSUME NEW n \in Nat \ {0}, NEW a \in 0 .. n - 1, NEW b \in 0 .. n - 1, NEW x \in 0 .. n - 1
    PROVE  x \in (IF a <= b THEN a .. b ELSE (a .. n - 1) \cup (0 .. b))
             <=> (x - a) % n <= (b - a) % n
<1>1. /\ (x - a) % n = IF a <= x THEN x - a ELSE x - a + n
      /\ (b - a) % n = IF a <= b THEN b - a ELSE b - a + n
  BY CircleMod
<1>. DEFINE u == (x - a) % n
            v == (b - a) % n
<1>. HIDE DEF u, v
<1>2. /\ u = IF a <= x THEN x - a ELSE x - a + n
      /\ v = IF a <= b THEN b - a ELSE b - a + n
  BY <1>1 DEF u, v
<1>3. x \in (IF a <= b THEN a .. b ELSE (a .. n - 1) \cup (0 .. b)) <=> u <= v
  BY <1>2
<1>. QED BY <1>3 DEF u, v

LEMMA SpanWraps ==
    ASSUME NEW n \in Nat \ {0}, NEW parts, parts \subseteq (0 .. n - 1) \X (0 .. n - 1),
           NEW x \in 0 .. n - 1
    PROVE  x \in Span(parts, n) <=> \E p \in parts : (x - p[1]) % n <= (p[2] - p[1]) % n
<1>. DEFINE R(p) == IF p[1] <= p[2] THEN p[1] .. p[2] ELSE (p[1] .. n - 1) \cup (0 .. p[2])
<1>1. \A p \in parts : x \in R(p) <=> (x - p[1]) % n <= (p[2] - p[1]) % n
  <2>. SUFFICES ASSUME NEW p \in parts PROVE x \in R(p) <=> (x - p[1]) % n <= (p[2] - p[1]) % n
    OBVIOUS
  <2>1. p[1] \in 0 .. n - 1 /\ p[2] \in 0 .. n - 1
    OBVIOUS
  <2>. QED BY <2>1, RangeWraps
<1>2. x \in Span(parts, n) <=> \E p \in parts : x \in R(p)
  BY DEF Span
<1>. HIDE DEF R
<1>. QED BY <1>1, <1>2

\* parse_day_ranges and parse_hour_ranges: the days and hours of a specification are those of
\* the circular reading of its ranges, for any length of day and week.
THEOREM RangesWrapHolds == Spec => []RangesWrap
<1>1. TypeOK => RangesWrap
  <2>. SUFFICES ASSUME spec \in Specs, NEW w \in spec.windows
                PROVE  /\ \A x \in 0 .. DayHours - 1 :
                            x \in Span(w.hours, DayHours) <=>
                              \E p \in w.hours : (x - p[1]) % DayHours <= (p[2] - p[1]) % DayHours
                       /\ \A x \in 0 .. WeekDays - 1 :
                            x \in Span(w.days, WeekDays) <=>
                              \E p \in w.days : (x - p[1]) % WeekDays <= (p[2] - p[1]) % WeekDays
    BY DEF TypeOK, RangesWrap
  <2>1. /\ w.days \subseteq (0 .. WeekDays - 1) \X (0 .. WeekDays - 1) /\ WeekDays \in Nat \ {0}
        /\ w.hours \subseteq (0 .. DayHours - 1) \X (0 .. DayHours - 1) /\ DayHours \in Nat \ {0}
    BY ProviderAssumption
  <2>2. \A x \in 0 .. DayHours - 1 :
          x \in Span(w.hours, DayHours) <=>
            \E p \in w.hours : (x - p[1]) % DayHours <= (p[2] - p[1]) % DayHours
    BY <2>1, SpanWraps
  <2>3. \A x \in 0 .. WeekDays - 1 :
          x \in Span(w.days, WeekDays) <=>
            \E p \in w.days : (x - p[1]) % WeekDays <= (p[2] - p[1]) % WeekDays
    BY <2>1, SpanWraps
  <2>. QED BY <2>2, <2>3
<1>. QED BY <1>1, ProviderTypes, PTL

=============================================================================
