---------------------------- MODULE KataConfigProofs ----------------------------
(***************************************************************************)
(* KataConfig, for any contents and any number of edits and faults.        *)
(***************************************************************************)
EXTENDS KataConfig, TLAPS

LEMMA TickType == \A pc \in AgentSteps : Tick(pc) \in Ticks
BY DEF Tick, Ticks, Records, Drops

LEMMA TypeInit == Init => TypeOK
<1>. SUFFICES ASSUME Init PROVE TypeOK
  OBVIOUS
<1>1. agent \in Ticks
  BY TickType DEF Init, AgentSteps
<1>. QED BY <1>1 DEF Init, TypeOK, Nodes, Records, Drops

LEMMA TypeStep == TypeOK /\ [Next]_vars => TypeOK'
<1>. SUFFICES ASSUME TypeOK, [Next]_vars PROVE TypeOK'
  OBVIOUS
<1>. USE DEF TypeOK, history, user, host
<1>0. /\ Tick("off") \in Ticks /\ Tick("idle") \in Ticks
      /\ \A pc \in AgentSteps : [agent EXCEPT !.pc = pc] \in Ticks
  BY TickType DEF AgentSteps, Ticks
<1>1. CASE EditSpec
  BY <1>1 DEF EditSpec, Edit
<1>2. ASSUME NEW c \in Sources, EditSource(c) PROVE TypeOK'
  BY <1>2 DEF EditSource, Edit
<1>3. ASSUME NEW c \in Drops, Drift(c) PROVE TypeOK'
  BY <1>3 DEF Drift, Edit
<1>4. CASE Deliver \/ Probe
  BY <1>4 DEF Deliver, Probe
<1>5. CASE Stamp
  BY <1>5 DEF Stamp, Nodes
<1>6. CASE Clear
  BY <1>6 DEF Clear, Teardown, Nodes
<1>7. CASE DeliverFails
  BY <1>7 DEF DeliverFails, Fault
<1>8. CASE Schedule
  BY <1>0, <1>8 DEF Schedule, At
<1>9. CASE ReadNode
  BY <1>9 DEF ReadNode, At, Ticks, AgentSteps, Nodes
<1>10. CASE Fetch
  BY <1>10 DEF Fetch, Fetched, At, Ticks, AgentSteps, Drops
<1>11. CASE Sync
  <2>1. agent.content \in Drops
    BY DEF Ticks
  <2>. QED BY <1>0, <1>11, <2>1 DEF Sync, Goto, At, AgentSteps
<1>12. CASE Record
  <2>1. node' \in Nodes
    BY <1>12 DEF Record, Nodes, Records, Ticks
  <2>. QED BY <1>0, <1>12, <2>1 DEF Record, Goto, At, AgentSteps
<1>13. CASE Restart
  BY <1>0, <1>13 DEF Restart, Load, At
<1>14. CASE Unlink
  BY <1>0, <1>14 DEF Unlink, Goto, At, AgentSteps, Drops
<1>15. CASE ClearOptin
  BY <1>0, <1>15 DEF ClearOptin, At, Nodes, Records
<1>16. CASE TickFails
  BY <1>0, <1>16 DEF TickFails, Fault, At
<1>17. CASE Reboot
  BY <1>0, <1>17 DEF Reboot, Load, Fault, At
<1>18. CASE UNCHANGED vars
  BY <1>18 DEF vars
<1>. QED BY <1>1, <1>2, <1>3, <1>4, <1>5, <1>6, <1>7, <1>8, <1>9, <1>10, <1>11, <1>12,
            <1>13, <1>14, <1>15, <1>16, <1>17, <1>18 DEF Next, System

\* Delivery of the Kata drop-in: every reachable state is well typed.
THEOREM KataTypes == Spec => []TypeOK
BY TypeInit, TypeStep, PTL DEF Spec

---------------------------------------------------------------------------
(* Clean before descheduled *)

\* Until an opt-in crosses a tear-down: the reference is only there with the label; an
\* agent that tears down found no reference, and none has come since; it reaches the
\* patch that removes the label with a clean host; and without the label the host is
\* clean and nothing but a tear-down runs.
CleanInv ==
    ~crossed =>
        /\ node.ref => node.label
        /\ agent.pc \in {"unlink", "clear"} => ~node.ref
        /\ At("clear") => HostClean
        /\ ~node.label => HostClean /\ agent.pc \in {"off", "idle", "unlink", "clear"}

LEMMA CleanStep == TypeOK /\ CleanInv /\ [Next]_vars => CleanInv'
<1>. SUFFICES ASSUME TypeOK, CleanInv, [Next]_vars PROVE CleanInv'
  OBVIOUS
<1>. USE DEF CleanInv, HostClean, At, history, user, host
<1>a. /\ node \in [ref : BOOLEAN, label : BOOLEAN, applied : Records]
      /\ agent \in [pc : AgentSteps, prev : Records, content : Drops]
      /\ Tick("off").pc = "off" /\ Tick("idle").pc = "idle"
      /\ crossed \in BOOLEAN /\ foreign \in BOOLEAN
  BY DEF TypeOK, Nodes, Ticks, Tick
<1>1. CASE EditSpec \/ (\E c \in Sources : EditSource(c)) \/ Deliver \/ Probe \/ DeliverFails
  BY <1>1 DEF EditSpec, EditSource, Deliver, Probe, DeliverFails
<1>2. ASSUME NEW c \in Drops, Drift(c) PROVE CleanInv'
  BY <1>2 DEF Drift
<1>3. CASE Stamp
  BY <1>a, <1>3 DEF Stamp
<1>4. CASE Clear
  BY <1>a, <1>4 DEF Clear, Teardown
<1>5. CASE Schedule
  BY <1>a, <1>5 DEF Schedule
<1>6. CASE ReadNode
  BY <1>a, <1>6 DEF ReadNode
<1>7. CASE Fetch
  BY <1>a, <1>7 DEF Fetch
<1>8. CASE Sync
  BY <1>a, <1>8 DEF Sync, Goto
<1>9. CASE Record
  BY <1>a, <1>9 DEF Record, Goto
<1>10. CASE Restart
  BY <1>a, <1>10 DEF Restart
<1>11. CASE Unlink
  BY <1>a, <1>11 DEF Unlink, Goto
<1>12. CASE ClearOptin
  BY <1>a, <1>12 DEF ClearOptin
<1>13. CASE TickFails
  BY <1>a, <1>13 DEF TickFails
<1>14. CASE Reboot
  BY <1>a, <1>14 DEF Reboot
<1>15. CASE UNCHANGED vars
  BY <1>15 DEF vars
<1>. QED BY <1>1, <1>2, <1>3, <1>4, <1>5, <1>6, <1>7, <1>8, <1>9, <1>10, <1>11, <1>12,
            <1>13, <1>14, <1>15 DEF Next, System

\* clear_optin removes the label only from a clean host: as long as no opt-in falls
\* between the agent's read of the Node and that patch, the agent is never descheduled
\* with a drop-in of ours left behind.
THEOREM CleanBeforeDescheduleHolds == Spec => []CleanBeforeDeschedule
<1>1. Init => CleanInv
  BY DEF Init, CleanInv, HostClean, At, Tick
<1>2. CleanInv => CleanBeforeDeschedule
  BY DEF CleanInv, CleanBeforeDeschedule
<1>. QED BY <1>1, <1>2, CleanStep, KataTypes, PTL DEF Spec

---------------------------------------------------------------------------
(* The record and the service *)

\* Unless a recorded restart was lost, a record that is not waiting for its restart is
\* what the service has loaded, whatever is on the host by now.
LoadedInv == (~lapse /\ ~At("restart") /\ node.applied # "none") => loaded = node.applied

LEMMA LoadedStep == TypeOK /\ LoadedInv /\ [Next]_vars => LoadedInv'
<1>. SUFFICES ASSUME TypeOK, LoadedInv, [Next]_vars PROVE LoadedInv'
  OBVIOUS
<1>. USE DEF LoadedInv, At, history, user, host
<1>a. /\ node \in [ref : BOOLEAN, label : BOOLEAN, applied : Records]
      /\ agent \in [pc : AgentSteps, prev : Records, content : Drops]
      /\ Tick("off").pc = "off" /\ Tick("idle").pc = "idle"
      /\ lapse \in BOOLEAN
  BY DEF TypeOK, Nodes, Ticks, Tick
<1>1. CASE EditSpec \/ (\E c \in Sources : EditSource(c)) \/ Deliver \/ Probe \/ DeliverFails
  BY <1>1 DEF EditSpec, EditSource, Deliver, Probe, DeliverFails
<1>2. ASSUME NEW c \in Drops, Drift(c) PROVE LoadedInv'
  BY <1>2 DEF Drift
<1>3. CASE Stamp
  BY <1>a, <1>3 DEF Stamp
<1>4. CASE Clear
  BY <1>a, <1>4 DEF Clear, Teardown
<1>5. CASE Schedule
  BY <1>a, <1>5 DEF Schedule
<1>6. CASE ReadNode
  BY <1>a, <1>6 DEF ReadNode
<1>7. CASE Fetch
  BY <1>a, <1>7 DEF Fetch
<1>8. CASE Sync
  BY <1>a, <1>8 DEF Sync, Goto
<1>9. CASE Record
  BY <1>a, <1>9 DEF Record, Goto
<1>10. CASE Restart
  BY <1>a, <1>10 DEF Restart, Load
<1>11. CASE Unlink
  BY <1>a, <1>11 DEF Unlink, Goto
<1>12. CASE ClearOptin
  BY <1>a, <1>12 DEF ClearOptin
<1>13. CASE TickFails
  BY <1>a, <1>13 DEF TickFails
<1>14. CASE Reboot
  BY <1>a, <1>14 DEF Reboot, Load
<1>15. CASE UNCHANGED vars
  BY <1>15 DEF vars
<1>. QED BY <1>1, <1>2, <1>3, <1>4, <1>5, <1>6, <1>7, <1>8, <1>9, <1>10, <1>11, <1>12,
            <1>13, <1>14, <1>15 DEF Next, System

\* restart_if_needed records first and restarts afterwards: if the record names the
\* content on the host, the service has loaded it, for any contents and any failures
\* but a lost restart.
THEOREM RecordedIsLoadedHolds == Spec => []RecordedIsLoaded
<1>1. Init => LoadedInv
  BY DEF Init, LoadedInv
<1>2. TypeOK /\ LoadedInv => RecordedIsLoaded
  BY KataAssumption DEF TypeOK, Drops, LoadedInv, RecordedIsLoaded
<1>. QED BY <1>1, <1>2, LoadedStep, KataTypes, PTL DEF Spec

=============================================================================
