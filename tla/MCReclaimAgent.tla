----------------------------- MODULE MCReclaimAgent -----------------------------
(* ReclaimAgent with commands written as strings. *)
EXTENDS ReclaimAgent

TwoCommands == {"java", "idea"}

=============================================================================
