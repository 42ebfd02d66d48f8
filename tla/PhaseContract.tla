------------------------------ MODULE PhaseContract ------------------------------
(***************************************************************************)
(* What a ScheduledMachine's phase promises about its Machine.  This is    *)
(* the state machine drawn at the head of scheduled_machine.rs with the    *)
(* presence of the Machine added: where a Machine may appear, where it may *)
(* disappear, and which phases may only be entered with or without one.    *)
(* MachineLifecycle implements it when caches are fresh and one replica    *)
(* runs (see README).                                                      *)
(***************************************************************************)
VARIABLES
    phase,     \* status.phase, or "Deleted" once the object is gone
    machine,   \* the Machine exists and is not being deleted
    adopted    \* a Machine that was still being torn down was taken for it

vars == <<phase, machine, adopted>>

Init == phase = "Pending" /\ machine = FALSE /\ adopted = FALSE

To(from, to) ==
    /\ phase \in from /\ phase' = to
    /\ adopted' = (adopted /\ to = "Active")
    /\ UNCHANGED machine

\* A Machine appears, or is found, in phase Pending only ...
Provision ==
    /\ phase = "Pending" /\ UNCHANGED phase
    /\ \/ machine' /\ ~adopted'
       \/ ~machine /\ ~machine' /\ adopted'

\* ... and disappears only in the phases whose handlers remove it, or when
\* the garbage collector follows its owner.
Unprovision ==
    /\ phase \in {"Active", "ShuttingDown", "EmergencyRemove", "Deleted"}
    /\ machine /\ ~machine' /\ UNCHANGED <<phase, adopted>>

\* Active is only reported for a Machine that exists, or was taken for one.
Activate == (machine \/ adopted) /\ To({"Pending"}, "Active")

\* Inactive is only reached from ShuttingDown when the Machine is gone.
FinishShutdown == ~machine /\ To({"ShuttingDown"}, "Inactive")

BeginShutdown == To({"Active"}, "ShuttingDown")
Park == To({"Pending"}, "Inactive") \/ To({"Pending"}, "Disabled")
Resume == To({"Inactive", "Disabled"}, "Pending")
Fail == To({"Pending", "ShuttingDown"}, "Error")

\* The kill switch reports Terminated from Active or ShuttingDown only once
\* the Machine is gone; from a phase with no running Machine at once.
Kill == \/ ~machine /\ To({"Active", "ShuttingDown"}, "Terminated")
        \/ To({"Pending", "Inactive", "Disabled", "EmergencyRemove", "Error"}, "Terminated")

Reclaim == To({"Pending", "Active", "ShuttingDown", "Inactive", "Disabled",
               "Terminated", "Error"}, "EmergencyRemove")
FinishReclaim == ~machine /\ To({"EmergencyRemove"}, "Disabled")

Delete == phase # "Deleted" /\ phase' = "Deleted" /\ UNCHANGED <<machine, adopted>>

Next == \/ Provision \/ Unprovision \/ Activate \/ BeginShutdown \/ FinishShutdown
        \/ Park \/ Resume \/ Fail \/ Kill \/ Reclaim \/ FinishReclaim \/ Delete

Spec == Init /\ [][Next]_vars
=============================================================================
