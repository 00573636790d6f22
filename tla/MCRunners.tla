------------------------------ MODULE MCRunners ------------------------------
(* An instance of Runners for TLC. *)
EXTENDS Runners
=============================================================================
