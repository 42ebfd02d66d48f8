---------------------------- MODULE MCReclaimPacing ----------------------------
(* ReclaimPacing with a short window and a cap that is reached. *)
EXTENDS ReclaimPacing
=============================================================================
