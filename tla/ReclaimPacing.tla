------------------------------ MODULE ReclaimPacing ------------------------------
(***************************************************************************)
(* The clock-driven bookkeeping around one ScheduledMachine's emergency     *)
(* reclaims: the history behind the RapidReReclaim warning                 *)
(* (loop_protection.rs) and the retry back-off (error_policy), both kept in *)
(* the controller's memory.  One attempt is one call of                     *)
(* handle_emergency_remove; MachineLifecycle has its steps.                 *)
(*                                                                         *)
(* A tick is longer than an attempt, and a due attempt is made within its   *)
(* tick: the runtime's scheduler starts it when its delay is over.          *)
(***************************************************************************)
EXTENDS Integers, Sequences, FiniteSetsExt

CONSTANTS
    Window,        \* RAPID_RE_RECLAIM_WINDOW_SECS, in ticks
    Threshold,     \* RAPID_RE_RECLAIM_THRESHOLD
    MaxTracked,    \* RAPID_RE_RECLAIM_MAX_TRACKED
    Base,          \* ERROR_REQUEUE_SECS
    MaxBackoff,    \* MAX_BACKOFF_SECS
    MaxRetries,    \* MAX_RECONCILE_RETRIES
    MaxClock, MaxRequests, MaxFaults   \* bounds

\* The cap leaves room for the threshold.
ASSUME PacingAssumption ==
    /\ {Window, Threshold, MaxTracked, Base, MaxBackoff, MaxRetries} \subseteq Nat \ {0}
    /\ {MaxClock, MaxRequests, MaxFaults} \subseteq Nat
    /\ Threshold <= MaxTracked /\ Base <= MaxBackoff

VARIABLES
    clock,
    open,       \* a reclaim request is on the Node
    events,     \* recent_reclaims, oldest first
    retries,    \* retry_counts, 0 if there is no entry
    wake,       \* instant of the next attempt
    log,        \* history: all attempts since the controller started
    warned,     \* history: the verdict on the last one
    opened,     \* history: when the request was made,
    failed,     \* and how often its phase patch has failed
    requests, faults

vars == <<clock, open, events, retries, wake, log, warned, opened, failed, requests, faults>>

Fault == faults < MaxFaults /\ faults' = faults + 1

---------------------------------------------------------------------------
(* loop_protection.rs *)

\* Mutant: a cap that leaves less than the threshold.
CappedShort(s) == IF Len(s) >= Threshold THEN Tail(s) ELSE s

\* Oldest dropped; s is at most one too long.
Capped(s) == IF Len(s) > MaxTracked THEN Tail(s) ELSE s

\* prune_old_reclaim_events: from the front, while older than the window.
Pruned(s, now) ==
    LET kept == {i \in 1 .. Len(s) + 1 : \A j \in i .. Len(s) : s[j] >= now - Window}
    IN  SubSeq(s, Min(kept), Len(s))

\* record_emergency_reclaim_event
Recorded(s, now) == Capped(Append(Pruned(s, now), now))
Breach(s) == Len(s) >= Threshold

---------------------------------------------------------------------------
(* error_policy *)

\* Mutant: no cap.
BackoffUncapped(n) == Base * 2 ^ n

\* compute_backoff_secs
Backoff(n) ==
    IF n >= MaxRetries \/ Base * 2 ^ n > MaxBackoff THEN MaxBackoff ELSE Base * 2 ^ n

---------------------------------------------------------------------------

TypeOK ==
    /\ clock \in 0 .. MaxClock /\ open \in BOOLEAN
    /\ events \in Seq(0 .. MaxClock) /\ Len(events) <= MaxTracked
    /\ retries \in Nat /\ wake \in Int
    /\ log \in Seq(0 .. MaxClock) /\ warned \in BOOLEAN
    /\ opened \in 0 .. MaxClock /\ failed \in Nat
    /\ requests \in 0 .. MaxRequests /\ faults \in 0 .. MaxFaults

Init ==
    /\ clock = 0 /\ open = FALSE /\ events = <<>> /\ retries = 0 /\ wake = 0
    /\ log = <<>> /\ warned = FALSE /\ opened = 0 /\ failed = 0 /\ requests = 0 /\ faults = 0

Due == open /\ wake <= clock

Tick ==
    /\ clock < MaxClock /\ ~Due /\ clock' = clock + 1
    /\ UNCHANGED <<open, events, retries, wake, log, warned, opened, failed, requests, faults>>

\* The user has enabled the schedule again and the agent has matched again.
Request ==
    /\ ~open /\ requests < MaxRequests
    /\ open' = TRUE /\ requests' = requests + 1 /\ wake' = clock
    /\ opened' = clock /\ failed' = 0
    /\ UNCHANGED <<clock, events, retries, log, warned, faults>>

\* The phase is written, then the attempt is recorded.
Record ==
    /\ events' = Recorded(events, clock) /\ log' = Append(log, clock)
    /\ warned' = Breach(events')

Retry == retries' = retries + 1 /\ wake' = clock + Backoff(retries')

\* All steps succeed: the annotation is cleared, the retry entry removed.
Serve ==
    /\ Due /\ Record /\ open' = FALSE /\ retries' = 0
    /\ UNCHANGED <<clock, wake, opened, failed, requests, faults>>

\* The phase patch fails: nothing is recorded and the object has not changed.
PhaseFails ==
    /\ Due /\ Fault /\ Retry /\ failed' = failed + 1
    /\ UNCHANGED <<clock, open, events, log, warned, opened, requests>>

\* A later step fails.  The phase patch has changed the object, so its watch event
\* starts the next attempt and not the back-off.
StepFails ==
    /\ Due /\ Fault /\ Record /\ retries' = retries + 1 /\ wake' = clock
    /\ UNCHANGED <<clock, open, opened, failed, requests>>

\* Both tables are gone; the first list enqueues the object.
Restart ==
    /\ Fault /\ events' = <<>> /\ retries' = 0 /\ wake' = clock
    /\ log' = <<>> /\ warned' = FALSE
    /\ UNCHANGED <<clock, open, opened, failed, requests>>

Next == Tick \/ Request \/ Serve \/ PhaseFails \/ StepFails \/ Restart

Spec == Init /\ [][Next]_vars

---------------------------------------------------------------------------
(* Properties *)

\* The warning is raised exactly when the controller has made at least Threshold
\* attempts in the window that ends with this one: neither pruning nor the cap loses one
\* that counts.
Recent(i) == log[i] >= log[Len(log)] - Window
WarnExact ==
    log # <<>> => (warned <=> Cardinality({i \in 1 .. Len(log) : Recent(i)}) >= Threshold)

\* A request waits for at most MaxBackoff after each failure of its phase patch, and for
\* nothing else: not for the retry count that failures of later steps or earlier attempts
\* have run up, and not across a restart of the controller.
ServedInTime == open => clock - opened <= MaxBackoff * failed

=============================================================================
