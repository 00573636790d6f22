------------------------------- MODULE MCReload -------------------------------
(* Instances of Reload for TLC. *)
EXTENDS Reload

CONSTANTS a, m, mx

(* A single-port service and a multi-port one with one port, which is the  *)
(* local port the other asks for.                                          *)
TwoServices == {a, m}
OneMulti == {m}
OneChild == [x \in OneMulti |-> {mx}]
OneFixed == {a}
OnePort == [n \in {a, m, mx} |-> IF n = m THEN 0 ELSE 8080]
=============================================================================
