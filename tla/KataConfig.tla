------------------------------- MODULE KataConfig -------------------------------
(***************************************************************************)
(* Delivery of the Kata drop-in to one Node: the controller's side          *)
(* (reconcile_kata_config_delivery), the agent's poll loop                 *)
(* (kata_config_agent.rs) and what the host service has loaded.  Each API   *)
(* call, each change of the host file and each restart is one action.       *)
(*                                                                         *)
(* SHA-256 is taken to tell contents apart, so a content stands for its     *)
(* hash.  The ScheduledMachine stays Active and bound to the Node.          *)
(***************************************************************************)
EXTENDS Naturals

CONSTANTS
    Contents,    \* drop-in contents
    MaxEdits,    \* bound on edits of the spec, of the source and of the host file
    MaxFaults    \* bound on failed calls, failed restarts, crashes and reboots

ASSUME KataAssumption ==
    /\ Contents \cap {"absent", "none", "missing", "nokey"} = {}
    /\ MaxEdits \in Nat /\ MaxFaults \in Nat

VARIABLES
    want,     \* spec.kata is set
    source,   \* the ConfigMap or Secret on the workload cluster
    node,     \* reference annotation, opt-in label, applied annotation
    file,     \* the drop-in on the host
    loaded,   \* what the host service read when it last started
    ctl,      \* the controller's reconcile
    agent,    \* the agent's tick
    foreign,  \* history: somebody else wrote the file last
    lapse,    \* history: the record says loaded and the service was not told
    crossed,  \* history: the controller opted in while the agent was tearing down
    edits, faults

vars == <<want, source, node, file, loaded, ctl, agent, foreign, lapse, crossed, edits, faults>>
history == <<foreign, lapse, crossed>>
user == <<want, source, edits>>
host == <<file, loaded>>

\* "missing": no such object; "nokey": the object lacks the key.
Sources == Contents \cup {"missing", "nokey"}

\* "absent" is ABSENT_HASH_MARKER, "none" no annotation.
Drops == Contents \cup {"absent"}
Records == Drops \cup {"none"}

Nodes == [ref : BOOLEAN, label : BOOLEAN, applied : Records]
AgentSteps == {"off", "idle", "fetch", "sync", "record", "restart", "unlink", "clear"}
Ticks == [pc : AgentSteps, prev : Records, content : Drops]

TypeOK ==
    /\ want \in BOOLEAN /\ source \in Sources /\ node \in Nodes
    /\ file \in Drops /\ loaded \in Drops
    /\ ctl \in {"idle", "probe", "stamp", "clear"} /\ agent \in Ticks
    /\ foreign \in BOOLEAN /\ lapse \in BOOLEAN /\ crossed \in BOOLEAN
    /\ edits \in Nat /\ faults \in Nat

Tick(pc) == [pc |-> pc, prev |-> "none", content |-> "absent"]

Init ==
    /\ want \in BOOLEAN /\ source \in Sources
    /\ node = [ref |-> FALSE, label |-> FALSE, applied |-> "none"]
    /\ file = "absent" /\ loaded = "absent"
    /\ ctl = "idle" /\ agent = Tick("off")
    /\ foreign = FALSE /\ lapse = FALSE /\ crossed = FALSE
    /\ edits = 0 /\ faults = 0

Edit == edits < MaxEdits /\ edits' = edits + 1
Fault == faults < MaxFaults /\ faults' = faults + 1

---------------------------------------------------------------------------
(* Users and the host's administrator *)

EditSpec ==
    /\ Edit /\ want' = ~want
    /\ UNCHANGED <<source, node, host, ctl, agent, history, faults>>

EditSource(c) ==
    /\ Edit /\ c # source /\ source' = c
    /\ UNCHANGED <<want, node, host, ctl, agent, history, faults>>

Drift(c) ==
    /\ Edit /\ c # file /\ file' = c /\ foreign' = TRUE
    /\ UNCHANGED <<want, source, node, loaded, ctl, agent, lapse, crossed, faults>>

---------------------------------------------------------------------------
(* The controller: reconcile_kata_config_delivery, from handle_active_phase *)

Deliver ==
    /\ ctl = "idle"
    /\ ctl' = IF want THEN "probe" ELSE "clear"
    /\ UNCHANGED <<user, node, host, agent, history, faults>>

Probe ==
    /\ ctl = "probe"
    /\ ctl' = IF source = "missing" THEN "clear" ELSE "stamp"
    /\ UNCHANGED <<user, node, host, agent, history, faults>>

\* Label and annotation in one patch.
Stamp ==
    /\ ctl = "stamp" /\ ctl' = "idle"
    /\ node' = [node EXCEPT !.ref = TRUE, !.label = TRUE]
    /\ crossed' = (crossed \/ agent.pc \in {"unlink", "clear"})
    /\ UNCHANGED <<user, host, agent, foreign, lapse, faults>>

\* Mutant: the label goes with the annotation.
TeardownAll == [node EXCEPT !.ref = FALSE, !.label = FALSE]

\* The label is left to the agent.
Teardown == [node EXCEPT !.ref = FALSE]

Clear ==
    /\ ctl = "clear" /\ ctl' = "idle"
    /\ node' = Teardown
    /\ UNCHANGED <<user, host, agent, history, faults>>

DeliverFails ==
    /\ Fault /\ ctl # "idle" /\ ctl' = "idle"
    /\ UNCHANGED <<user, node, host, agent, history>>

---------------------------------------------------------------------------
(* The agent: reconcile_once *)

At(pc) == agent.pc = pc
Goto(pc) == agent' = [agent EXCEPT !.pc = pc]

\* The DaemonSet runs the agent where the label is.
Schedule ==
    /\ \/ node.label /\ At("off") /\ agent' = Tick("idle")
       \/ ~node.label /\ ~At("off") /\ agent' = Tick("off")
    /\ lapse' = (lapse \/ At("restart"))
    /\ UNCHANGED <<user, node, host, ctl, foreign, crossed, faults>>

ReadNode ==
    /\ At("idle")
    /\ agent' = [agent EXCEPT !.pc = IF node.ref THEN "fetch" ELSE "unlink",
                              !.prev = node.applied]
    /\ UNCHANGED <<user, node, host, ctl, history, faults>>

\* No object and no key are both "no content".
Fetched == IF source \in Contents THEN source ELSE "absent"

Fetch ==
    /\ At("fetch")
    /\ agent' = [agent EXCEPT !.pc = "sync", !.content = Fetched]
    /\ UNCHANGED <<user, node, host, ctl, history, faults>>

\* Mutants: restart at every tick; restart only if this tick wrote the file.
NeedsRestartAlways(prev, intended) == TRUE
NeedsRestartWrote(prev, intended) == file # intended

NeedsRestart(prev, intended) == prev # intended

\* sync_content: an atomic rename or an unlink; then the restart guard.
Sync ==
    /\ At("sync")
    /\ file' = agent.content
    /\ foreign' = (foreign /\ file = agent.content)
    /\ Goto(IF NeedsRestart(agent.prev, agent.content) THEN "record" ELSE "idle")
    /\ UNCHANGED <<user, node, loaded, ctl, lapse, crossed, faults>>

\* Mutant: the guard is asked again with the hash just recorded.
RecordShort ==
    /\ At("record") /\ Goto("idle")
    /\ node' = [node EXCEPT !.applied = agent.content]
    /\ UNCHANGED <<user, host, ctl, history, faults>>

\* The record is written before the restart, which may kill the agent.
Record ==
    /\ At("record") /\ Goto("restart")
    /\ node' = [node EXCEPT !.applied = agent.content]
    /\ UNCHANGED <<user, host, ctl, history, faults>>

\* The service starts with the file as it is now.
Load == loaded' = file /\ lapse' = (node.applied # file)

Restart ==
    /\ At("restart") /\ agent' = Tick("idle")
    /\ Load
    /\ UNCHANGED <<user, node, file, ctl, foreign, crossed, faults>>

Unlink ==
    /\ At("unlink") /\ Goto("clear")
    /\ file' = "absent" /\ foreign' = FALSE
    /\ UNCHANGED <<user, node, loaded, ctl, lapse, crossed, faults>>

\* clear_optin: applied annotation and label in one patch.
ClearOptin ==
    /\ At("clear") /\ agent' = Tick("idle")
    /\ node' = [node EXCEPT !.applied = "none", !.label = FALSE]
    /\ UNCHANGED <<user, host, ctl, history, faults>>

\* A call or the restart fails, or the agent dies: the next tick starts afresh.
\* A restart that was recorded is not tried again.
TickFails ==
    /\ Fault /\ agent.pc \notin {"off", "idle"} /\ agent' = Tick("idle")
    /\ lapse' = (lapse \/ At("restart"))
    /\ UNCHANGED <<user, node, host, ctl, foreign, crossed>>

\* The host, or the service, is restarted by someone else.
Reboot ==
    /\ Fault /\ Load
    /\ agent' = IF At("off") THEN agent ELSE Tick("idle")
    /\ UNCHANGED <<user, node, file, ctl, foreign, crossed>>

---------------------------------------------------------------------------

System ==
    \/ Deliver \/ Probe \/ Stamp \/ Clear
    \/ Schedule \/ ReadNode \/ Fetch \/ Sync \/ Record \/ Restart \/ Unlink \/ ClearOptin

Next ==
    \/ System \/ EditSpec \/ DeliverFails \/ TickFails \/ Reboot
    \/ \E c \in Sources : EditSource(c)
    \/ \E c \in Drops : Drift(c)

\* The controller requeues, the agent polls, the DaemonSet follows the label.
Fairness ==
    /\ WF_vars(Deliver) /\ WF_vars(Probe) /\ WF_vars(Stamp) /\ WF_vars(Clear)
    /\ WF_vars(Schedule) /\ WF_vars(ReadNode) /\ WF_vars(Fetch) /\ WF_vars(Sync)
    /\ WF_vars(Record) /\ WF_vars(Restart) /\ WF_vars(Unlink) /\ WF_vars(ClearOptin)

Spec == Init /\ [][Next]_vars /\ Fairness

---------------------------------------------------------------------------
(* Properties *)

\* The agent is not descheduled before it has cleaned up: without the label the host
\* has no drop-in of ours, as long as the controller does not opt the Node in again
\* between the agent's last read and the patch that removes the label.
HostClean == file = "absent" \/ foreign
CleanBeforeDeschedule == crossed \/ (~node.label => HostClean)

\* If the record names the content on the host, the service has loaded it, unless a
\* recorded restart was lost or the service was started on a file the record does
\* not name.
RecordedIsLoaded ==
    (~lapse /\ ~At("restart") /\ node.applied = file) => loaded = file

\* A wanted configuration that stays is on the host and loaded in the end, with the
\* same exception; one that is not wanted, or has no source, leaves the host, unless
\* the controller's opt-in crossed the tear-down.
Converges ==
    <>[](IF want /\ source # "missing"
         THEN file = Fetched /\ (lapse \/ loaded = Fetched)
         ELSE ~node.label /\ (HostClean \/ crossed))

\* The host service is not bounced for ever (restart-loop guard).
NoRestartLoop == <>[](~At("restart"))

=============================================================================
