--------------------------- MODULE ReclaimAgentProofs ---------------------------
(***************************************************************************)
(* ReclaimAgent, for any commands and any number of edits, processes and    *)
(* faults.                                                                 *)
(***************************************************************************)
EXTENDS ReclaimAgent, TLAPS

\* A subscription waits for a command.
Subscribed == At("recv") => agent.sub \in Commands

LEMMA ProcessType == \A pc \in Steps : Process(pc) \in Agents /\ Process(pc).pc = pc
BY DEF Process, Agents, Option

LEMMA TypeInit == Init => TypeOK
<1>. SUFFICES ASSUME Init PROVE TypeOK
  OBVIOUS
<1>1. agent \in Agents
  BY ProcessType DEF Init, Steps
<1>2. watch \in [live : BOOLEAN, seen : ConfigMaps]
  BY DEF Init, NoWatch, ConfigMaps, Option
<1>. QED BY <1>1, <1>2 DEF Init, TypeOK, Nodes, ConfigMaps, Option

\* A new process starts from nothing.
LEMMA FreshType ==
    ASSUME TypeOK, NEW pc \in Steps, Fresh(pc)
    PROVE  /\ agent' \in Agents /\ agent'.pc = pc
           /\ watch' \in [live : BOOLEAN, seen : ConfigMaps] /\ ~watch'.live
           /\ orphans' \in SUBSET Commands /\ missed' \in BOOLEAN /\ dropped' \in BOOLEAN
BY ProcessType DEF TypeOK, Fresh, NoWatch, ConfigMaps, Option, Holding, At

LEMMA ChannelType ==
    ASSUME TypeOK, NEW v \in ConfigMaps
    PROVE  /\ Channel(v) \in Agents /\ Channel(v).pc = agent.pc
           /\ v # "bad" => Channel(v).cfg = IF v \in Commands THEN v ELSE "none"
BY DEF TypeOK, Channel, Agents, Option

LEMMA TypeStep == TypeOK /\ Subscribed /\ [Next]_vars => TypeOK'
<1>. SUFFICES ASSUME TypeOK, Subscribed, [Next]_vars PROVE TypeOK'
  OBVIOUS
<1>. USE DEF TypeOK, bounds
<1>a. \A pc \in Steps : [agent EXCEPT !.pc = pc] \in Agents
  BY DEF Agents
<1>b. "none" \in Option /\ Commands \subseteq Option /\ Option \subseteq ConfigMaps
      /\ {"bad", "nokey"} \subseteq ConfigMaps
  BY DEF Option, ConfigMaps
<1>1. ASSUME NEW c \in Option, EditSpec(c) PROVE TypeOK'
  BY <1>1 DEF EditSpec, Edit
<1>2. ASSUME NEW v \in {"bad", "nokey"}, Tamper(v) PROVE TypeOK'
  BY <1>b, <1>2 DEF Tamper, Edit
<1>3. ASSUME NEW mine \in BOOLEAN, Replace(mine) PROVE TypeOK'
  BY <1>b, <1>3 DEF Replace, Edit, Nodes
<1>4. CASE Serve
  BY <1>b, <1>4 DEF Serve, Nodes
<1>5. CASE Provision
  BY <1>5 DEF Provision
<1>6. CASE PatchLabel
  BY <1>6 DEF PatchLabel, Nodes
<1>7. CASE PutMap
  BY <1>b, <1>7 DEF PutMap, Projected
<1>8. CASE ProvisionFails
  BY <1>8 DEF ProvisionFails, Fault
<1>9. ASSUME NEW c \in Commands, Exec(c) PROVE TypeOK'
  <2>1. agent' \in Agents
    BY <1>b, <1>9 DEF Exec, Agents
  <2>. QED BY <1>9, <2>1 DEF Exec, Started
<1>10. ASSUME NEW c \in Commands, ExecUnheard(c) \/ Exit(c) PROVE TypeOK'
  BY <1>10 DEF ExecUnheard, Exit, Started, Fault
<1>11. CASE Land \/ Evict \/ Respawn \/ Crash
  <2>1. PICK pc \in Steps : Fresh(pc)
    BY <1>11 DEF Land, Evict, Respawn, Crash, Steps
  <2>2. /\ UNCHANGED <<want, cm, node, ctl, procs, mode, raced, edits, execs>>
        /\ faults' \in Nat
    BY <1>11 DEF Land, Evict, Respawn, Crash, Fault
  <2>. QED BY <2>1, <2>2, FreshType
<1>12. CASE Start
  BY <1>a, <1>12 DEF Start, Goto, Steps
<1>13. CASE WatchEvent
  BY <1>13, ChannelType DEF WatchEvent
<1>14. CASE WatchGap
  BY <1>b, <1>14 DEF WatchGap, Fault, NoWatch
<1>15. CASE Relist
  <2>1. agent' \in Agents
    BY <1>15, ChannelType DEF Relist
  <2>. QED BY <1>15, <2>1 DEF Relist
<1>16. CASE Idle
  BY <1>a, <1>16 DEF Idle, Goto, Steps
<1>17. ASSUME NEW seen \in BOOLEAN, Wake(seen) PROVE TypeOK'
  BY <1>17 DEF Wake, Agents, Steps
<1>18. CASE Scan
  BY <1>18 DEF Scan, Agents, Steps
<1>19. CASE Subscribe
  BY <1>b, <1>19 DEF Subscribe, Agents, Steps
<1>20. CASE Receive
  BY <1>20 DEF Receive, Agents, Steps
<1>21. CASE Resubscribe
  <2>1. agent' \in Agents
    BY <1>b, <1>21 DEF Resubscribe, Agents, Steps
  <2>. QED BY <1>21, <2>1 DEF Resubscribe, Subscribed, Holding, At
<1>22. CASE Check
  BY <1>a, <1>22 DEF Check, Goto, Steps, SameHost, Nodes
<1>23. CASE Annotate
  <2>1. node' \in Nodes
    BY <1>23 DEF Annotate, Nodes, Agents
  <2>. QED BY <1>a, <1>23, <2>1 DEF Annotate, Goto, Steps
<1>24. CASE AgentFails
  BY <1>a, <1>24 DEF AgentFails, Goto, Steps, Fault, Holding, At
<1>25. CASE UNCHANGED vars
  BY <1>25 DEF vars
<1>. QED BY <1>1, <1>2, <1>3, <1>4, <1>5, <1>6, <1>7, <1>8, <1>9, <1>10, <1>11, <1>12, <1>13,
            <1>14, <1>15, <1>16, <1>17, <1>18, <1>19, <1>20, <1>21, <1>22, <1>23, <1>24, <1>25
            DEF Next, Controller, Pod, Watcher, Task

LEMMA SubscribedStep == TypeOK /\ Subscribed /\ [Next]_vars => Subscribed'
<1>. SUFFICES ASSUME TypeOK, Subscribed, [Next]_vars PROVE Subscribed'
  OBVIOUS
<1>. USE DEF Subscribed, At, Goto, bounds
<1>a. agent \in Agents /\ cm \in ConfigMaps
  BY DEF TypeOK
<1>1. CASE UNCHANGED agent
  BY <1>1
<1>2. CASE agent'.pc # "recv"
  BY <1>2
<1>3. CASE agent'.pc = agent.pc /\ agent'.sub = agent.sub
  BY <1>3
<1>4. ASSUME NEW c \in Commands, Exec(c) PROVE Subscribed'
  BY <1>a, <1>3, <1>4 DEF Exec, Agents
<1>5. CASE Land \/ Evict \/ Respawn \/ Crash
  BY <1>2, <1>5, FreshType DEF Land, Evict, Respawn, Crash, Steps
<1>6. CASE WatchEvent \/ Relist
  BY <1>a, <1>1, <1>3, <1>6 DEF WatchEvent, Relist, Channel, Agents
<1>7. CASE Start \/ Idle \/ Scan \/ Receive \/ Resubscribe \/ Check \/ Annotate \/ AgentFails
  <2>1. CASE Start \/ Idle \/ Check \/ Annotate \/ AgentFails
    BY <1>a, <1>2, <2>1 DEF Start, Idle, Check, Annotate, AgentFails, Agents
  <2>2. CASE Scan \/ Receive
    BY <1>a, <1>2, <2>2 DEF Scan, Receive, Agents
  <2>3. CASE Resubscribe
    BY <1>a, <1>2, <2>3 DEF Resubscribe, Agents
  <2>. QED BY <1>7, <2>1, <2>2, <2>3
<1>8. ASSUME NEW seen \in BOOLEAN, Wake(seen) PROVE Subscribed'
  BY <1>a, <1>2, <1>8 DEF Wake, Agents
<1>9. CASE Subscribe
  BY <1>a, <1>9 DEF Subscribe, Agents, Option
<1>10. CASE \/ (\E c \in Option : EditSpec(c)) \/ (\E v \in {"bad", "nokey"} : Tamper(v))
            \/ (\E mine \in BOOLEAN : Replace(mine))
            \/ (\E c \in Commands : ExecUnheard(c) \/ Exit(c))
  BY <1>1, <1>10 DEF EditSpec, Tamper, Replace, ExecUnheard, Exit
<1>11. CASE Serve \/ Provision \/ PatchLabel \/ PutMap \/ ProvisionFails \/ WatchGap
  BY <1>1, <1>11 DEF Serve, Provision, PatchLabel, PutMap, ProvisionFails, WatchGap
<1>12. CASE UNCHANGED vars
  BY <1>1, <1>12 DEF vars
<1>. QED BY <1>4, <1>5, <1>6, <1>7, <1>8, <1>9, <1>10, <1>11, <1>12
         DEF Next, Controller, Pod, Watcher, Task

\* The reclaim trigger of one Node: every reachable state is well typed.
THEOREM AgentTypes == Spec => []TypeOK
<1>1. Init => Subscribed
  BY DEF Init, Subscribed, At, Process
<1>. QED BY <1>1, TypeInit, TypeStep, SubscribedStep, PTL DEF Spec

---------------------------------------------------------------------------
(* One request, on the right Node *)

LEMMA NoOverwriteStep == TypeOK /\ NoOverwrite /\ [Next]_vars => NoOverwrite'
<1>. SUFFICES ASSUME TypeOK, NoOverwrite, [Next]_vars PROVE NoOverwrite'
  OBVIOUS
<1>. USE DEF NoOverwrite, Up, At, Goto, bounds
<1>a. agent \in Agents /\ cm \in ConfigMaps /\ node \in Nodes
  BY DEF TypeOK
<1>1. CASE UNCHANGED node /\ agent'.pc = agent.pc
  BY <1>1
<1>2. CASE UNCHANGED node /\ agent'.pc \in {"off", "start", "ended"}
  BY <1>2
<1>3. ASSUME NEW c \in Commands, Exec(c) PROVE NoOverwrite'
  BY <1>a, <1>1, <1>3 DEF Exec, Agents
<1>4. CASE Land \/ Evict \/ Respawn \/ Crash
  BY <1>2, <1>4, FreshType DEF Land, Evict, Respawn, Crash, Steps
<1>5. CASE WatchEvent \/ Relist
  BY <1>a, <1>1, <1>5, ChannelType DEF WatchEvent, Relist
<1>6. CASE Start
  BY <1>a, <1>6 DEF Start, AlreadyRequested, Agents
<1>7. CASE Idle \/ Scan \/ Subscribe \/ Receive \/ Resubscribe \/ Check \/ AgentFails
  BY <1>a, <1>7 DEF Idle, Scan, Subscribe, Receive, Resubscribe, Matched, Check, AgentFails, Agents
<1>8. ASSUME NEW seen \in BOOLEAN, Wake(seen) PROVE NoOverwrite'
  BY <1>a, <1>8 DEF Wake, Agents
<1>9. CASE Annotate
  BY <1>a, <1>9 DEF Annotate, Agents
<1>10. CASE Serve \/ PatchLabel \/ (\E mine \in BOOLEAN : Replace(mine))
  BY <1>a, <1>10 DEF Serve, PatchLabel, Replace, Nodes
<1>11. CASE \/ (\E c \in Option : EditSpec(c)) \/ (\E v \in {"bad", "nokey"} : Tamper(v))
            \/ (\E c \in Commands : ExecUnheard(c) \/ Exit(c))
            \/ Provision \/ PutMap \/ ProvisionFails \/ WatchGap
  BY <1>11 DEF EditSpec, Tamper, ExecUnheard, Exit, Provision, PutMap, ProvisionFails, WatchGap
<1>12. CASE UNCHANGED vars
  BY <1>12 DEF vars
<1>. QED BY <1>3, <1>4, <1>5, <1>6, <1>7, <1>8, <1>9, <1>10, <1>11, <1>12
         DEF Next, Controller, Pod, Watcher, Task

\* already_requested: an agent past its start-up check never runs on a Node that
\* carries a request, so it never overwrites one.
THEOREM NoOverwriteHolds == Spec => []NoOverwrite
<1>1. Init => NoOverwrite
  BY DEF Init, NoOverwrite
<1>. QED BY <1>1, NoOverwriteStep, AgentTypes, PTL DEF Spec

\* An agent about to patch has compared the machine id, and the Node has not been
\* replaced since.
OwnInv == OwnNodeOnly /\ (At("patch") => node.ours \/ raced)

LEMMA OwnStep == TypeOK /\ OwnInv /\ [Next]_vars => OwnInv'
<1>. SUFFICES ASSUME TypeOK, OwnInv, [Next]_vars PROVE OwnInv'
  OBVIOUS
<1>. USE DEF OwnInv, OwnNodeOnly, At, Goto, bounds
<1>a. agent \in Agents /\ cm \in ConfigMaps /\ node \in Nodes /\ raced \in BOOLEAN
  BY DEF TypeOK
<1>1. CASE UNCHANGED <<node, raced>> /\ agent'.pc = agent.pc
  BY <1>1
<1>2. CASE UNCHANGED <<node, raced>> /\ agent'.pc # "patch"
  BY <1>2
<1>3. ASSUME NEW c \in Commands, Exec(c) PROVE OwnInv'
  BY <1>a, <1>1, <1>3 DEF Exec, Agents
<1>4. CASE Land \/ Evict \/ Respawn \/ Crash
  BY <1>2, <1>4, FreshType DEF Land, Evict, Respawn, Crash, Steps
<1>5. CASE WatchEvent \/ Relist
  BY <1>a, <1>1, <1>5, ChannelType DEF WatchEvent, Relist
<1>6. CASE Start \/ Idle \/ Scan \/ Subscribe \/ Receive \/ Resubscribe \/ AgentFails
  BY <1>a, <1>2, <1>6 DEF Start, Idle, Scan, Subscribe, Receive, Resubscribe, AgentFails, Agents
<1>7. ASSUME NEW seen \in BOOLEAN, Wake(seen) PROVE OwnInv'
  BY <1>a, <1>2, <1>7 DEF Wake, Agents
<1>8. CASE Check
  BY <1>a, <1>8 DEF Check, SameHost, Agents
<1>9. CASE Annotate
  BY <1>a, <1>9 DEF Annotate, Agents, Nodes
<1>10. CASE Serve \/ PatchLabel
  BY <1>a, <1>10 DEF Serve, PatchLabel, Nodes
<1>11. ASSUME NEW mine \in BOOLEAN, Replace(mine) PROVE OwnInv'
  BY <1>a, <1>11 DEF Replace
<1>12. CASE \/ (\E c \in Option : EditSpec(c)) \/ (\E v \in {"bad", "nokey"} : Tamper(v))
            \/ (\E c \in Commands : ExecUnheard(c) \/ Exit(c))
            \/ Provision \/ PutMap \/ ProvisionFails \/ WatchGap
  BY <1>12 DEF EditSpec, Tamper, ExecUnheard, Exit, Provision, PutMap, ProvisionFails, WatchGap
<1>13. CASE UNCHANGED vars
  BY <1>13 DEF vars
<1>. QED BY <1>3, <1>4, <1>5, <1>6, <1>7, <1>8, <1>9, <1>10, <1>11, <1>12, <1>13
         DEF Next, Controller, Pod, Watcher, Task

\* annotate_node: only a Node that is replaced between the identity check and the patch
\* gets another host's request.
THEOREM OwnNodeOnlyHolds == Spec => []OwnNodeOnly
<1>1. Init => OwnInv
  BY DEF Init, OwnInv, OwnNodeOnly, At, Process
<1>2. OwnInv => OwnNodeOnly
  BY DEF OwnInv
<1>. QED BY <1>1, <1>2, OwnStep, AgentTypes, PTL DEF Spec

---------------------------------------------------------------------------
(* The configuration in force *)

\* A process that has not passed its check has no watch; afterwards the channel holds
\* what the watch has delivered last, unless that did not parse or was missed.
ArmedInv ==
    /\ At("start") => ~watch.live
    /\ (Up /\ watch.live /\ watch.seen # "bad" /\ ~missed)
           => agent.cfg = (IF watch.seen \in Commands THEN watch.seen ELSE "none")

LEMMA ArmedStep == TypeOK /\ ArmedInv /\ [Next]_vars => ArmedInv'
<1>. SUFFICES ASSUME TypeOK, ArmedInv, [Next]_vars PROVE ArmedInv'
  OBVIOUS
<1>. USE DEF ArmedInv, Up, At, Goto, bounds
<1>a. /\ agent \in Agents /\ cm \in ConfigMaps /\ missed \in BOOLEAN
      /\ watch \in [live : BOOLEAN, seen : ConfigMaps]
  BY DEF TypeOK
<1>1. CASE /\ UNCHANGED <<watch, missed>> /\ agent'.cfg = agent.cfg
           /\ agent'.pc \in {agent.pc, "ended"} \/ (Up /\ agent'.pc # "start")
  BY <1>1
<1>2. ASSUME NEW c \in Commands, Exec(c) PROVE ArmedInv'
  BY <1>a, <1>1, <1>2 DEF Exec, Agents
<1>3. CASE Land \/ Evict \/ Respawn \/ Crash
  BY <1>3, FreshType DEF Land, Evict, Respawn, Crash, Steps
<1>4. CASE Start
  BY <1>a, <1>4 DEF Start, Agents
<1>5. CASE WatchEvent
  BY <1>a, <1>5, ChannelType DEF WatchEvent
<1>6. CASE WatchGap
  BY <1>a, <1>6 DEF WatchGap, NoWatch
<1>7. CASE Relist
  <2>1. watch' = [live |-> TRUE, seen |-> cm] /\ ~At("start")
    BY <1>7 DEF Relist
  <2>2. CASE cm = "none"
    <3>1. agent' = agent /\ (missed' <=> agent.cfg # "none")
      BY <1>7, <2>2 DEF Relist
    <3>2. watch'.seen = "none" /\ "none" \notin Commands
      BY <2>1, <2>2, ReclaimAssumption
    <3>. QED BY <2>1, <3>1, <3>2
  <2>3. CASE cm # "none"
    BY <1>a, <1>7, <2>1, <2>3, ChannelType DEF Relist
  <2>. QED BY <2>2, <2>3
<1>8. CASE Idle \/ Scan \/ Subscribe \/ Receive \/ Resubscribe \/ Check \/ Annotate \/ AgentFails
  <2>1. CASE Idle \/ Check \/ Annotate \/ AgentFails
    BY <1>a, <1>1, <2>1 DEF Idle, Check, Annotate, AgentFails, Agents
  <2>2. CASE Scan \/ Subscribe
    BY <1>a, <1>1, <2>2 DEF Scan, Subscribe, Agents
  <2>3. CASE Receive
    BY <1>a, <1>1, <2>3 DEF Receive, Matched, Agents
  <2>4. CASE Resubscribe
    BY <1>a, <1>1, <2>4 DEF Resubscribe, Agents
  <2>. QED BY <1>8, <2>1, <2>2, <2>3, <2>4
<1>9. ASSUME NEW seen \in BOOLEAN, Wake(seen) PROVE ArmedInv'
  BY <1>a, <1>1, <1>9 DEF Wake, Agents
<1>10. CASE \/ (\E c \in Option : EditSpec(c)) \/ (\E v \in {"bad", "nokey"} : Tamper(v))
            \/ (\E mine \in BOOLEAN : Replace(mine))
            \/ (\E c \in Commands : ExecUnheard(c) \/ Exit(c))
  BY <1>1, <1>10 DEF EditSpec, Tamper, Replace, ExecUnheard, Exit
<1>11. CASE Serve \/ Provision \/ PatchLabel \/ PutMap \/ ProvisionFails
  BY <1>1, <1>11 DEF Serve, Provision, PatchLabel, PutMap, ProvisionFails
<1>12. CASE UNCHANGED vars
  BY <1>12 DEF vars
<1>. QED BY <1>2, <1>3, <1>4, <1>5, <1>6, <1>7, <1>8, <1>9, <1>10, <1>11, <1>12
         DEF Next, Controller, Pod, Watcher, Task

\* apply_event and push_parsed: once the watch has delivered the ConfigMap, the scanner
\* is armed with what it says, but for a payload that does not parse and a deletion in a
\* watch gap.
THEOREM ArmedTracksHolds == Spec => []ArmedTracks
<1>1. Init => ArmedInv
  BY DEF Init, ArmedInv, Up, At, Process
<1>2. ArmedInv => ArmedTracks
  BY DEF ArmedInv, ArmedTracks
<1>. QED BY <1>1, <1>2, ArmedStep, AgentTypes, PTL DEF Spec

\* What a step may do to the armed configuration.
LEMMA DisarmStep ==
    ASSUME TypeOK, Next, Up, Up', agent.cfg # "none", agent'.cfg = "none"
    PROVE  cm \in {"none", "nokey"}
<1>. USE DEF Up, At, Goto, bounds
<1>a. agent \in Agents /\ cm \in ConfigMaps
  BY DEF TypeOK
<1>1. CASE agent'.cfg = agent.cfg
  BY <1>1
<1>2. CASE agent'.pc \in {"off", "start", "ended"}
  BY <1>2
<1>3. CASE cm # "bad" /\ agent' = Channel(cm)
  BY <1>a, <1>3 DEF Channel, Agents, ConfigMaps, Option
<1>4. CASE Controller \/ ProvisionFails \/ Serve \/ WatchGap
  BY <1>1, <1>4 DEF Controller, Provision, PatchLabel, PutMap, ProvisionFails, Serve, WatchGap
<1>5. CASE Pod \/ Crash
  BY <1>2, <1>5 DEF Pod, Land, Evict, Respawn, Crash, Fresh, Process
<1>6. CASE WatchEvent
  <2>1. CASE cm = "bad"
    BY <1>1, <1>6, <2>1 DEF WatchEvent, Channel
  <2>2. CASE cm # "bad"
    BY <1>3, <1>6, <2>2 DEF WatchEvent
  <2>. QED BY <2>1, <2>2
<1>7. CASE Relist
  <2>1. CASE cm \in {"none", "bad"}
    BY <1>1, <1>7, <2>1 DEF Relist, Channel
  <2>2. CASE cm \notin {"none", "bad"}
    BY <1>3, <1>7, <2>2 DEF Relist
  <2>. QED BY <2>1, <2>2
<1>8. CASE Task
  BY <1>a, <1>1, <1>8
     DEF Task, Start, Idle, Scan, Subscribe, Receive, Resubscribe, Check, Annotate, Wake, Agents
<1>9. CASE AgentFails
  BY <1>a, <1>1, <1>9 DEF AgentFails, Agents
<1>10. ASSUME NEW c, Exec(c) \/ ExecUnheard(c) \/ Exit(c) \/ EditSpec(c) \/ Tamper(c) \/ Replace(c)
       PROVE  cm \in {"none", "nokey"}
  <2>1. agent'.cfg = agent.cfg
    BY <1>a, <1>10 DEF Exec, ExecUnheard, Exit, EditSpec, Tamper, Replace, Agents
  <2>. QED BY <1>1, <2>1
<1>11. CASE Watcher
  BY <1>6, <1>7, <1>11 DEF Watcher
<1>. QED BY <1>4, <1>5, <1>8, <1>9, <1>10, <1>11 DEF Next

\* "A bad edit must not disarm a correctly-armed agent": whatever happens to the ConfigMap,
\* the watch and the process, push_parsed disarms a running agent only for a ConfigMap that
\* is gone or has no configuration.
THEOREM BadEditKeepsArmedHolds == Spec => BadEditKeepsArmed
<1>1. TypeOK /\ [Next]_vars =>
        [(Up /\ Up' /\ agent.cfg # "none" /\ agent'.cfg = "none") => cm \in {"none", "nokey"}]_vars
  BY DisarmStep
<1>. QED BY <1>1, AgentTypes, PTL DEF Spec, BadEditKeepsArmed

=============================================================================
