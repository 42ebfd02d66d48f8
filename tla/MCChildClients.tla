----------------------------- MODULE MCChildClients -----------------------------
(* ChildClients for TLC. *)
EXTENDS ChildClients, TLC

Symmetry == Permutations(Workers) \cup Permutations(Secrets)
=============================================================================
