------------------------------ MODULE SpotProvider ------------------------------
(***************************************************************************)
(* A spot-schedule provider (providers/time_based.rs and                   *)
(* providers/capital_markets.rs): the window and calendar evaluation, the   *)
(* next transition, and the controller that publishes status.active and     *)
(* requeues itself at the next transition.                                  *)
(*                                                                         *)
(* Time is counted in ticks of a fraction of an hour, so that zones with a  *)
(* half-hour offset and instants inside an hour exist.  The status patch    *)
(* takes up to MaxPatch of them; error_policy's delay is less than one.  A  *)
(* specification already holds numbers where the code has day names and     *)
(* hour strings, and says what of it does not parse: nothing, the time      *)
(* zone, or a list of days or hours.  In a market's sessions that is the    *)
(* first such list: windows are the sessions before it, what comes after it *)
(* is never read.  Of several early closes of a date the first counts, and  *)
(* early holds that one.                                                    *)
(* The transition times and the reason, which nobody reads back, are left   *)
(* out of the status.                                                      *)
(***************************************************************************)
EXTENDS Integers, FiniteSetsExt

CONSTANTS
    Specs,         \* provider specifications
    Hour,          \* ticks per hour
    DayHours,      \* hours per day
    WeekDays,      \* days per week
    Horizon,       \* PROVIDER_TRANSITION_HORIZON_HOURS
    Fallback,      \* PROVIDER_FALLBACK_REQUEUE_SECS, in ticks
    MaxPatch,      \* bound on the time the status patch takes
    MaxClock,      \* bound on the clock
    MaxEdits,      \* bound on edits of the specification
    MaxFaults      \* bound on failed patches and restarts

\* A fallback requeue comes before the first hour that was not looked at.  The ends of a
\* range are days of the week and hours of the day: the parser refuses others.
ASSUME ProviderAssumption ==
    /\ {Hour, DayHours, WeekDays, Horizon, Fallback} \subseteq Nat \ {0}
    /\ MaxClock \in Nat \ {0} /\ {MaxPatch, MaxEdits, MaxFaults} \subseteq Nat
    /\ Fallback <= Horizon * Hour
    /\ \A s \in Specs : /\ s.zone \in [std : Int, dst : Int, from : Int]
                         /\ s.broken \in {"no", "zone", "list"}
                         /\ \A e, f \in s.early : e.date = f.date => e = f
    /\ \A s \in Specs : \A w \in s.windows :
          /\ w.days \subseteq (0 .. WeekDays - 1) \X (0 .. WeekDays - 1)
          /\ w.hours \subseteq (0 .. DayHours - 1) \X (0 .. DayHours - 1)

VARIABLES
    clock,    \* now
    spec,     \* the object's specification
    gen,      \* and its generation
    status,   \* published: active, observedGeneration (0: nothing yet)
    cache,    \* the controller's copy: specification and generation
    event,    \* the object has changed since it was copied
    dirty,    \* the object is in the work queue
    wake,     \* instant of the requeue, 0 if there is none
    run,      \* the reconcile in flight: when it began, what it will patch and return
    late,     \* history: how much later than computed the requeue is
    faults

vars == <<clock, spec, gen, status, cache, event, dirty, wake, run, late, faults>>

---------------------------------------------------------------------------
(* Evaluation *)

\* Mutant: ranges do not wrap.
SpanPlain(parts, n) == UNION {{x \in 0 .. n - 1 : p[1] <= x /\ x <= p[2]} : p \in parts}

\* parse_day_ranges, parse_hour_ranges: inclusive ranges, the second form over the end.
Span(parts, n) ==
    UNION {IF p[1] <= p[2] THEN p[1] .. p[2] ELSE (p[1] .. n - 1) \cup (0 .. p[2]) : p \in parts}

\* with_timezone: the offset in force at t.
Local(s, t) == t + (IF t < s.zone.from THEN s.zone.std ELSE s.zone.dst)
LocalHour(s, t) == (Local(s, t) \div Hour) % DayHours
LocalDate(s, t) == Local(s, t) \div (Hour * DayHours)
InWindow(s, w, t) ==
    /\ LocalDate(s, t) % WeekDays \in Span(w.days, WeekDays)
    /\ LocalHour(s, t) \in Span(w.hours, DayHours)

\* time_based::is_active_at
TimeActive(s, t) == s.enabled /\ \E w \in s.windows : InWindow(s, w, t)

\* capital_markets::is_active_at: holiday, then sessions, then early close.
MarketActive(s, t) ==
    /\ LocalDate(s, t) \notin s.holidays
    /\ \E w \in s.windows : InWindow(s, w, t)
    /\ ~ \E e \in s.early : e.date = LocalDate(s, t) /\ LocalHour(s, t) > e.close

IsActive(s, t) == IF s.kind = "time" THEN TimeActive(s, t) ELSE MarketActive(s, t)

\* is_active_at returns a value.  A disabled schedule is not looked at; a market returns
\* on a holiday, and in a session, before it reads a later session that does not parse.
Evaluates(s, t) ==
    \/ s.broken = "no"
    \/ s.kind = "time" /\ ~s.enabled
    \/ /\ s.kind = "market" /\ s.broken = "list"
       /\ LocalDate(s, t) \in s.holidays \/ \E w \in s.windows : InWindow(s, w, t)

\* Mutant: the first hour boundary is skipped.
CandidatesLate(t) == {(t \div Hour + k) * Hour : k \in 2 .. Horizon}

\* The whole UTC hours after t.
Candidates(t) == {(t \div Hour + k) * Hour : k \in 1 .. Horizon}

\* next_transition; 0 for None.
NextTransition(s, t) ==
    LET flips == {c \in Candidates(t) : IsActive(s, c) # IsActive(s, t)}
    IN  IF flips = {} THEN 0 ELSE Min(flips)

\* is_active_at and next_transition return values: an hour that does not evaluate lies
\* beyond the transition found.
Computes(s, t) ==
    LET next == NextTransition(s, t)
    IN  \A c \in {t} \cup Candidates(t) : ~Evaluates(s, c) => 0 < next /\ next < c

\* The delay of the requeue.
Requeue(now, next) == IF next = 0 THEN Fallback ELSE next - now

---------------------------------------------------------------------------

NoRun == [pc |-> "idle", at |-> 0, active |-> FALSE, gen |-> 0, delay |-> 0]

TypeOK ==
    /\ clock \in 1 .. MaxClock /\ spec \in Specs /\ gen \in 1 .. MaxEdits + 1
    /\ status \in [active : BOOLEAN, gen : Nat]
    /\ cache \in [spec : Specs, gen : Nat]
    /\ event \in BOOLEAN /\ dirty \in BOOLEAN /\ wake \in Nat
    /\ run \in [pc : {"idle", "patch"}, at : Nat, active : BOOLEAN, gen : Nat, delay : Nat]
    /\ run.at <= clock /\ late \in Nat /\ faults \in 0 .. MaxFaults

Init ==
    /\ clock = 1 /\ spec \in Specs /\ gen = 1
    /\ status = [active |-> FALSE, gen |-> 0]
    /\ cache = [spec |-> spec, gen |-> 1]
    /\ event = FALSE /\ dirty = TRUE /\ wake = 0 /\ run = NoRun
    /\ late = 0 /\ faults = 0

Fault == faults < MaxFaults /\ faults' = faults + 1

Tick ==
    /\ clock < MaxClock /\ clock' = clock + 1
    /\ run.pc = "patch" => clock < run.at + MaxPatch
    /\ UNCHANGED <<spec, gen, status, cache, event, dirty, wake, run, late, faults>>

EditSpec(s) ==
    /\ gen <= MaxEdits /\ s # spec
    /\ spec' = s /\ gen' = gen + 1 /\ event' = TRUE
    /\ UNCHANGED <<clock, status, cache, dirty, wake, run, late, faults>>

\* Mutant: the copy stays what it was.
WatchedStale ==
    /\ event /\ event' = FALSE /\ dirty' = TRUE
    /\ UNCHANGED <<clock, spec, gen, status, cache, wake, run, late, faults>>

\* Every change of a watched object, of its status too, refreshes the copy and
\* enqueues it.
Watched ==
    /\ event /\ event' = FALSE /\ dirty' = TRUE
    /\ cache' = [spec |-> spec, gen |-> gen]
    /\ UNCHANGED <<clock, spec, gen, status, wake, run, late, faults>>

Due == dirty \/ (wake # 0 /\ wake <= clock)

\* reconcile up to the patch.  A specification that does not parse is an error:
\* error_policy requeues within the tick and the status stays.
Reconcile ==
    /\ run.pc = "idle" /\ Due /\ dirty' = FALSE
    /\ IF Computes(cache.spec, clock)
       THEN /\ wake' = 0
            /\ run' = [pc |-> "patch", at |-> clock, gen |-> cache.gen,
                       active |-> IsActive(cache.spec, clock),
                       delay |-> Requeue(clock, NextTransition(cache.spec, clock))]
       ELSE wake' = clock /\ UNCHANGED run
    /\ late' = 0
    /\ UNCHANGED <<clock, spec, gen, status, cache, event, faults>>

\* The condition's lastTransitionTime is the current time, so the object always changes.
\* The delay was computed before the patch and runs from here.
PatchStatus ==
    /\ run.pc = "patch" /\ run' = NoRun
    /\ status' = [active |-> run.active, gen |-> run.gen]
    /\ event' = TRUE /\ wake' = clock + run.delay /\ late' = clock - run.at
    /\ UNCHANGED <<clock, spec, gen, cache, dirty, faults>>

\* error_policy after a failed patch.
PatchFails ==
    /\ Fault /\ run.pc = "patch" /\ run' = NoRun /\ wake' = clock /\ late' = 0
    /\ UNCHANGED <<clock, spec, gen, status, cache, event, dirty>>

Restart ==
    /\ Fault /\ run' = NoRun /\ wake' = 0 /\ late' = 0
    /\ event' = FALSE /\ dirty' = TRUE /\ cache' = [spec |-> spec, gen |-> gen]
    /\ UNCHANGED <<clock, spec, gen, status>>

Next ==
    \/ Tick \/ Watched \/ Reconcile \/ PatchStatus \/ PatchFails \/ Restart
    \/ \E s \in Specs : EditSpec(s)

\* Time passes, watch events arrive and due work is done.
Fairness == WF_vars(Tick) /\ WF_vars(Watched) /\ WF_vars(Reconcile) /\ WF_vars(PatchStatus)

Spec == Init /\ [][Next]_vars /\ Fairness

---------------------------------------------------------------------------
(* Properties *)

\* The published value is for the current specification.
Fresh == status.gen = gen

WholeHours(s) == \A t \in {s.zone.std, s.zone.dst, s.zone.from} : t % Hour = 0

\* next_transition misses no transition: while the requeue it led to is still to come,
\* the published value is right, but for the end of that time: the requeue is late by
\* as long as the patch took, and in a zone with a fractional offset, whose hours do not
\* begin with the hours looked at, by less than an hour more.  A fractional zone's offset
\* changes by whole hours, at a whole hour of local time.
\* This spans midnight, the week, holidays longer than the horizon, early closes and
\* a change of the zone's offset.
Covered ==
    (Fresh /\ clock < wake)
        => \/ status.active = IsActive(spec, clock)
           \/ wake - clock <= late
           \/ ~WholeHours(spec) /\ wake - clock < late + Hour

\* Day and hour ranges against the circular reading of a range: x is in [a, b] if going
\* up from a one meets x no later than b.
RangesWrap ==
    \A w \in spec.windows :
        /\ \A x \in 0 .. DayHours - 1 :
             x \in Span(w.hours, DayHours)
               <=> \E p \in w.hours : (x - p[1]) % DayHours <= (p[2] - p[1]) % DayHours
        /\ \A x \in 0 .. WeekDays - 1 :
             x \in Span(w.days, WeekDays)
               <=> \E p \in w.days : (x - p[1]) % WeekDays <= (p[2] - p[1]) % WeekDays

\* "the `active` value always self-corrects on the next reconcile": edits, failed patches
\* and restarts notwithstanding, the published value is right in the end, if it can be
\* computed.
Corrects == <>[](Computes(spec, clock) => Fresh /\ status.active = IsActive(spec, clock))

\* "Each reconcile ... requeues exactly once at that boundary. Spec edits arrive as watch
\* events. There is no fixed polling interval": a reconcile begins for a specification
\* whose generation is not published yet, or when the requeue is due.
NotAPollLoop ==
    [][(run.pc = "idle" /\ run'.pc = "patch")
         => cache.gen # status.gen \/ (wake # 0 /\ wake <= clock)]_vars

=============================================================================
