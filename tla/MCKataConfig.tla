------------------------------ MODULE MCKataConfig ------------------------------
(* KataConfig with contents written as strings. *)
EXTENDS KataConfig

TwoContents == {"old", "new"}

=============================================================================
