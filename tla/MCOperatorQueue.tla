----------------------------- MODULE MCOperatorQueue -----------------------------
(* Instances of OperatorQueue for TLC. *)
EXTENDS OperatorQueue, TLC

CONSTANTS p1, p2, p3, k1, k2

\* Three providers of two kinds: a change of reference keeps or changes the task.
Grouping == p1 :> k1 @@ p2 :> k1 @@ p3 :> k2

=============================================================================
