------------------------------ MODULE MCShaping ------------------------------
(* An instance of Shaping for TLC. *)
EXTENDS Shaping

Configured == [enabled |-> TRUE, params |-> "configured"]
=============================================================================
