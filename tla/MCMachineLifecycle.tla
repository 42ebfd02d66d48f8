------------------------- MODULE MCMachineLifecycle -------------------------
(***************************************************************************)
(* MachineLifecycle for TLC.  The .cfg files choose the bounds; replicas   *)
(* are interchangeable, so runs of more than one use the symmetry.         *)
(***************************************************************************)
EXTENDS MachineLifecycle, TLC

Symmetry == Permutations(Replicas)
=============================================================================
