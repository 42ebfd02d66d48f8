------------------------------ MODULE MCNodeTaints ------------------------------
(* NodeTaints for TLC. *)
EXTENDS NodeTaints
=============================================================================
