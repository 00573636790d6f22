------------------------------ MODULE MCForward ------------------------------
(* Instances of Forward for TLC. *)
EXTENDS Forward, TLC

(* Pods are interchangeable. *)
PodSymmetry == Permutations(Pod)
=============================================================================
