------------------------------ MODULE ReclaimAgent ------------------------------
(***************************************************************************)
(* The emergency-reclaim trigger of one Node: the controller's projection   *)
(* (reconcile_reclaim_agent_provision), the DaemonSet, the agent process    *)
(* with its ConfigMap watch, its two detectors and the annotation of the    *)
(* Node (bin/reclaim_agent.rs), and the host's processes.  Each API call    *)
(* and each await point is one action.                                      *)
(*                                                                         *)
(* A configuration is one command (match_commands); a process matches if    *)
(* it runs that command.  A process that is gone before /proc is read is    *)
(* seen by neither detector and left out.  The ScheduledMachine is Active   *)
(* and bound to the Node; --oneshot is off, the host check is on.           *)
(***************************************************************************)
EXTENDS Naturals

CONSTANTS
    Commands,    \* command names
    MaxEdits,    \* bound on edits of the spec, of the ConfigMap and of the Node
    MaxExecs,    \* bound on processes started
    MaxFaults    \* bound on failed calls, watch gaps and crashes

ASSUME ReclaimAssumption ==
    /\ Commands \cap {"none", "bad", "nokey"} = {}
    /\ MaxEdits \in Nat /\ MaxExecs \in Nat /\ MaxFaults \in Nat

VARIABLES
    want,      \* spec.killIfCommands
    cm,        \* the per-node ConfigMap
    node,      \* opt-in label, reclaim request, whose machine id
    ctl,       \* the controller's reconcile, with the commands it read
    procs,     \* commands running on this host
    mode,      \* the resolved detector
    agent,     \* the agent's main task
    watch,     \* the agent's ConfigMap watch
    orphans,   \* abandoned receive threads, by the command they wait for
    missed,    \* history: a deletion fell into a watch gap
    raced,     \* history: the Node was replaced between identity check and patch
    dropped,   \* history: a match was lost on its way to the Node
    edits, execs, faults

vars == <<want, cm, node, ctl, procs, mode, agent, watch, orphans, missed, raced, dropped,
          edits, execs, faults>>
bounds == <<edits, execs, faults>>

Option == Commands \cup {"none"}

\* "none": no object; "bad": reclaim.toml does not parse; "nokey": it is not there.
ConfigMaps == Option \cup {"bad", "nokey"}

Nodes == [label : BOOLEAN, req : Option, ours : BOOLEAN]
Steps == {"off", "start", "run", "wait", "recv", "check", "patch", "ended"}

\* cfg, fresh: the config channel and whether it holds an unseen value; sub: the
\* subscription's command; joined: what its thread returned; found: the match;
\* rearmed: a subscription of this process was abandoned.
Agents ==
    [pc : Steps, cfg : Option, fresh : BOOLEAN, sub : Option, joined : Option, found : Option,
     rearmed : BOOLEAN]

TypeOK ==
    /\ want \in Option /\ cm \in ConfigMaps /\ node \in Nodes
    /\ ctl \in [pc : {"idle", "label", "map"}, cmd : Option]
    /\ procs \in SUBSET Commands /\ mode \in {"poll", "netlink"}
    /\ agent \in Agents /\ watch \in [live : BOOLEAN, seen : ConfigMaps]
    /\ orphans \in SUBSET Commands
    /\ missed \in BOOLEAN /\ raced \in BOOLEAN /\ dropped \in BOOLEAN
    /\ edits \in Nat /\ execs \in Nat /\ faults \in Nat

Process(pc) ==
    [pc |-> pc, cfg |-> "none", fresh |-> FALSE, sub |-> "none", joined |-> "none", found |-> "none",
     rearmed |-> FALSE]

NoWatch == [live |-> FALSE, seen |-> "none"]

Init ==
    /\ want \in Option /\ cm = "none"
    /\ node = [label |-> FALSE, req |-> "none", ours |-> TRUE]
    /\ ctl = [pc |-> "idle", cmd |-> "none"]
    /\ procs = {} /\ mode \in {"poll", "netlink"}
    /\ agent = Process("off") /\ watch = NoWatch
    /\ orphans = {} /\ missed = FALSE /\ raced = FALSE /\ dropped = FALSE
    /\ edits = 0 /\ execs = 0 /\ faults = 0

Edit == edits < MaxEdits /\ edits' = edits + 1 /\ UNCHANGED <<execs, faults>>
Started == execs < MaxExecs /\ execs' = execs + 1
Fault == faults < MaxFaults /\ faults' = faults + 1

At(pc) == agent.pc = pc
Goto(pc) == agent' = [agent EXCEPT !.pc = pc]

\* The agent is past its start-up check and has not ended.
Up == agent.pc \in {"run", "wait", "recv", "check", "patch"}

\* The agent holds a match.
Holding == agent.pc \in {"check", "patch"} \/ (At("recv") /\ agent.joined # "none")

---------------------------------------------------------------------------
(* Users, and the rest of the cluster *)

EditSpec(c) ==
    /\ Edit /\ c # want /\ want' = c
    /\ UNCHANGED <<cm, node, ctl, procs, mode, agent, watch, orphans, missed, raced, dropped>>

\* Somebody edits the ConfigMap the controller projects.
Tamper(v) ==
    /\ Edit /\ cm # v /\ cm' = v
    /\ UNCHANGED <<want, node, ctl, procs, mode, agent, watch, orphans, missed, raced, dropped>>

\* The Node object is deleted and one of the same name joins, this host or another.
Replace(mine) ==
    /\ Edit
    /\ node' = [label |-> FALSE, req |-> "none", ours |-> mine]
    /\ raced' = (raced \/ At("patch"))
    /\ UNCHANGED <<want, cm, ctl, procs, mode, agent, watch, orphans, missed, dropped>>

\* The controller has served the request: clear_reclaim_annotations.
Serve ==
    /\ node.req # "none" /\ node' = [node EXCEPT !.req = "none"]
    /\ UNCHANGED <<want, cm, ctl, procs, mode, agent, watch, orphans, missed, raced, dropped, bounds>>

---------------------------------------------------------------------------
(* The controller: provision_reclaim_agent_best_effort *)

Provision ==
    /\ ctl.pc = "idle" /\ ctl' = [pc |-> "label", cmd |-> want]
    /\ UNCHANGED <<want, cm, node, procs, mode, agent, watch, orphans, missed, raced, dropped, bounds>>

PatchLabel ==
    /\ ctl.pc = "label" /\ ctl' = [ctl EXCEPT !.pc = "map"]
    /\ node' = [node EXCEPT !.label = ctl.cmd # "none"]
    /\ UNCHANGED <<want, cm, procs, mode, agent, watch, orphans, missed, raced, dropped, bounds>>

\* Mutant: an empty list leaves the ConfigMap.
ProjectedKeep(c) == IF c = "none" THEN cm ELSE c

\* Apply the rendered list; delete, 404 included, when it is empty.
Projected(c) == c

PutMap ==
    /\ ctl.pc = "map" /\ ctl' = [ctl EXCEPT !.pc = "idle"]
    /\ cm' = Projected(ctl.cmd)
    /\ UNCHANGED <<want, node, procs, mode, agent, watch, orphans, missed, raced, dropped, bounds>>

ProvisionFails ==
    /\ Fault /\ ctl.pc # "idle" /\ ctl' = [ctl EXCEPT !.pc = "idle"]
    /\ UNCHANGED <<want, cm, node, procs, mode, agent, watch, orphans, missed, raced, dropped, edits, execs>>

---------------------------------------------------------------------------
(* The host's processes *)

\* The kernel tells every subscription; a receive thread that matches returns.
Exec(c) ==
    /\ Started /\ procs' = procs \cup {c}
    /\ agent' = IF At("recv") /\ agent.sub = c /\ agent.joined = "none"
                THEN [agent EXCEPT !.joined = c] ELSE agent
    /\ orphans' = orphans \ {c}
    /\ UNCHANGED <<want, cm, node, ctl, mode, watch, missed, raced, dropped, edits, faults>>

\* A frame is lost: only the first message of a datagram is parsed, a malformed one is
\* dropped.
ExecUnheard(c) ==
    /\ Started /\ Fault /\ procs' = procs \cup {c}
    /\ UNCHANGED <<want, cm, node, ctl, mode, agent, watch, orphans, missed, raced, dropped, edits>>

Exit(c) ==
    /\ c \in procs /\ procs' = procs \ {c}
    /\ UNCHANGED <<want, cm, node, ctl, mode, agent, watch, orphans, missed, raced, dropped, bounds>>

---------------------------------------------------------------------------
(* The DaemonSet and the process *)

\* A new process: nothing of the old one is left.
Fresh(pc) ==
    /\ agent' = Process(pc) /\ watch' = NoWatch /\ orphans' = {} /\ missed' = FALSE
    /\ dropped' = (dropped \/ Holding)

Land ==
    /\ At("off") /\ node.label /\ node.ours /\ Fresh("start")
    /\ UNCHANGED <<want, cm, node, ctl, procs, mode, raced, bounds>>

Evict ==
    /\ ~At("off") /\ ~(node.label /\ node.ours) /\ Fresh("off")
    /\ UNCHANGED <<want, cm, node, ctl, procs, mode, raced, bounds>>

\* main has returned; dropping the runtime waits for every blocking thread.
Respawn ==
    /\ At("ended") /\ orphans = {} /\ Fresh("start")
    /\ UNCHANGED <<want, cm, node, ctl, procs, mode, raced, bounds>>

Crash ==
    /\ Fault /\ ~At("off") /\ Fresh("start")
    /\ UNCHANGED <<want, cm, node, ctl, procs, mode, raced, edits, execs>>

\* Mutant: the start-up check is skipped.
AlreadyRequestedNot == FALSE

AlreadyRequested == node.req # "none"

Start ==
    /\ At("start") /\ Goto(IF AlreadyRequested THEN "ended" ELSE "run")
    /\ UNCHANGED <<want, cm, node, ctl, procs, mode, watch, orphans, missed, raced, dropped, bounds>>

---------------------------------------------------------------------------
(* run_config_watcher *)

\* Mutants: one that does not parse disarms; nothing does.
ChannelBadIsNone(v) ==
    [agent EXCEPT !.cfg = IF v \in Commands THEN v ELSE "none", !.fresh = TRUE]
ChannelKeeps(v) ==
    IF v \in Commands THEN [agent EXCEPT !.cfg = v, !.fresh = TRUE] ELSE agent

\* push_parsed, and None on Delete: a send marks the channel changed, whatever the value.
Channel(v) ==
    IF v = "bad" THEN agent
    ELSE [agent EXCEPT !.cfg = IF v \in Commands THEN v ELSE "none", !.fresh = TRUE]

WatchEvent ==
    /\ Up /\ watch.live /\ watch.seen # cm
    /\ watch' = [watch EXCEPT !.seen = cm] /\ agent' = Channel(cm) /\ missed' = FALSE
    /\ UNCHANGED <<want, cm, node, ctl, procs, mode, orphans, raced, dropped, bounds>>

WatchGap ==
    /\ Fault /\ Up /\ watch.live /\ watch' = NoWatch
    /\ UNCHANGED <<want, cm, node, ctl, procs, mode, agent, orphans, missed, raced, dropped, edits, execs>>

\* The list that opens a watch: InitApply for what exists; Init and InitDone, which
\* alone tell of an object that is gone, are ignored.
Relist ==
    /\ Up /\ ~watch.live /\ watch' = [live |-> TRUE, seen |-> cm]
    /\ agent' = IF cm = "none" THEN agent ELSE Channel(cm)
    /\ missed' = (cm = "none" /\ agent.cfg # "none")
    /\ UNCHANGED <<want, cm, node, ctl, procs, mode, orphans, raced, dropped, bounds>>

---------------------------------------------------------------------------
(* run_scanner, run_netlink_scanner *)

Idle ==
    /\ At("run") /\ agent.cfg = "none" /\ Goto("wait")
    /\ UNCHANGED <<want, cm, node, ctl, procs, mode, watch, orphans, missed, raced, dropped, bounds>>

\* rx.changed() marks the value seen; the 30 s timer does not.
Wake(seen) ==
    /\ At("wait") /\ (agent.fresh \/ ~seen)
    /\ agent' = [agent EXCEPT !.pc = "run", !.fresh = agent.fresh /\ ~seen]
    /\ UNCHANGED <<want, cm, node, ctl, procs, mode, watch, orphans, missed, raced, dropped, bounds>>

\* Mutant: /proc is only walked when the configuration has changed.
ScanFresh ==
    /\ At("run") /\ mode = "poll" /\ agent.cfg \in procs /\ agent.fresh
    /\ agent' = [agent EXCEPT !.pc = "check", !.found = agent.cfg]
    /\ UNCHANGED <<want, cm, node, ctl, procs, mode, watch, orphans, missed, raced, dropped, bounds>>

Scan ==
    /\ At("run") /\ mode = "poll" /\ agent.cfg \in procs
    /\ agent' = [agent EXCEPT !.pc = "check", !.found = agent.cfg]
    /\ UNCHANGED <<want, cm, node, ctl, procs, mode, watch, orphans, missed, raced, dropped, bounds>>

Subscribe ==
    /\ At("run") /\ mode = "netlink" /\ agent.cfg # "none"
    /\ agent' = [agent EXCEPT !.pc = "recv", !.sub = agent.cfg, !.joined = "none"]
    /\ UNCHANGED <<want, cm, node, ctl, procs, mode, watch, orphans, missed, raced, dropped, bounds>>

\* Mutant: the match that arrives is not looked at before the next change.
MatchedLate == At("recv") /\ agent.joined # "none" /\ agent.fresh

Matched == At("recv") /\ agent.joined # "none"

\* Mutant: the thread goes on after its match.
ReceiveLeaks ==
    /\ Matched
    /\ agent' = [agent EXCEPT !.pc = "check", !.found = agent.joined]
    /\ orphans' = orphans \cup {agent.sub}
    /\ UNCHANGED <<want, cm, node, ctl, procs, mode, watch, missed, raced, dropped, bounds>>

Receive ==
    /\ Matched
    /\ agent' = [agent EXCEPT !.pc = "check", !.found = agent.joined]
    /\ UNCHANGED <<want, cm, node, ctl, procs, mode, watch, orphans, missed, raced, dropped, bounds>>

\* A change of the channel drops the JoinHandle; the thread and its socket live on, and
\* what it returns is not read.
Resubscribe ==
    /\ At("recv") /\ agent.fresh
    /\ agent' = [agent EXCEPT !.pc = "run", !.fresh = FALSE, !.sub = "none", !.joined = "none",
                              !.rearmed = TRUE]
    /\ orphans' = IF agent.joined = "none" THEN orphans \cup {agent.sub} ELSE orphans
    /\ dropped' = (dropped \/ Holding)
    /\ UNCHANGED <<want, cm, node, ctl, procs, mode, watch, missed, raced, bounds>>

---------------------------------------------------------------------------
(* annotate_node *)

\* Mutant: whatever Node has the name.
SameHostAny == TRUE

\* compare_machine_ids
SameHost == node.ours

Check ==
    /\ At("check") /\ Goto(IF SameHost THEN "patch" ELSE "ended")
    /\ dropped' = (dropped \/ ~SameHost)
    /\ UNCHANGED <<want, cm, node, ctl, procs, mode, watch, orphans, missed, raced, bounds>>

Annotate ==
    /\ At("patch") /\ Goto("ended")
    /\ node' = [node EXCEPT !.req = agent.found]
    /\ UNCHANGED <<want, cm, ctl, procs, mode, watch, orphans, missed, raced, dropped, bounds>>

\* A failed GET or PATCH, a /proc or socket error: main returns it.
AgentFails ==
    /\ Fault /\ Goto("ended")
    /\ \/ agent.pc \in {"start", "check", "patch"}
       \/ At("run") /\ agent.cfg # "none"
       \/ At("recv") /\ agent.joined = "none"
    /\ dropped' = (dropped \/ Holding)
    /\ UNCHANGED <<want, cm, node, ctl, procs, mode, watch, orphans, missed, raced, edits, execs>>

---------------------------------------------------------------------------

Controller == Provision \/ PatchLabel \/ PutMap
Pod == Land \/ Evict \/ Respawn
Watcher == WatchEvent \/ Relist
Task ==
    \/ Start \/ Idle \/ Scan \/ Subscribe \/ Receive \/ Resubscribe \/ Check \/ Annotate
    \/ \E seen \in BOOLEAN : Wake(seen)

Next ==
    \/ Controller \/ Pod \/ Watcher \/ Task \/ Serve
    \/ ProvisionFails \/ Crash \/ WatchGap \/ AgentFails
    \/ \E mine \in BOOLEAN : Replace(mine)
    \/ \E v \in {"bad", "nokey"} : Tamper(v)
    \/ \E c \in Option : EditSpec(c)
    \/ \E c \in Commands : Exec(c) \/ ExecUnheard(c) \/ Exit(c)

\* The controller requeues and serves requests, DaemonSet and kubelet act, the watch
\* reconnects and delivers, and the agent's task, which is sequential, goes on.
Fairness ==
    /\ WF_vars(Controller) /\ WF_vars(Serve) /\ WF_vars(Pod) /\ WF_vars(Watcher) /\ WF_vars(Task)

Spec == Init /\ [][Next]_vars /\ Fairness

---------------------------------------------------------------------------
(* Properties *)

\* already_requested: "a second firing must not overwrite the original timestamp /
\* reason".  An agent past its start-up check runs on a Node without a request,
\* whatever restarts, evictions and replaced Nodes came before.
NoOverwrite == Up => node.req = "none"

\* Once the watch has delivered the ConfigMap the scanner is armed with what it says,
\* unless it does not parse, or it was deleted while the watch was down.
ArmedTracks ==
    (Up /\ watch.live /\ watch.seen = cm /\ cm # "bad" /\ ~missed)
        => agent.cfg = (IF cm \in Commands THEN cm ELSE "none")

\* push_parsed: "A bad edit must not disarm a correctly-armed agent": a running agent is
\* disarmed only by a ConfigMap that is gone or has no configuration.
BadEditKeepsArmed ==
    [][(Up /\ Up' /\ agent.cfg # "none" /\ agent'.cfg = "none") => cm \in {"none", "nokey"}]_vars

\* annotate_node: a request is only written to this host's Node, unless the Node is
\* replaced between the identity check and the patch, which goes by name.
OwnNodeOnly == (node.req # "none" /\ ~node.ours) => raced

\* In the end label and ConfigMap follow the spec; without commands the agent is gone
\* from the Node and no request is left.
Provisioned ==
    <>[](IF want = "none"
         THEN ~node.label /\ cm = "none" /\ At("off") /\ node.req = "none"
         ELSE node.label /\ cm = want)

\* The /proc detector finds a configured process that keeps running, through restarts,
\* failed calls and watch gaps.
Due == node.ours /\ want \in procs
PollDetects == mode = "poll" => (<>[]Due => []<>(node.req # "none"))

\* A match of the netlink detector reaches the Node, unless one of these loses it: a
\* change of the configuration, a failed call, the end of the process, a foreign Node.
\* Nothing finds the process again: it has already been executed.
NetlinkDetects == Holding ~> (node.req # "none" \/ dropped)

\* emergency-reclaim.md, "Agent sees, signals, exits": an agent that is done ends, so
\* that a new one is started, unless its configuration has changed under it: then an
\* abandoned receive thread keeps the process from ending until the old command is run.
Exits == At("ended") ~> (~At("ended") \/ agent.rearmed)

=============================================================================
