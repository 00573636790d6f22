------------------------------ MODULE MCManager ------------------------------
(* Instances of Manager for TLC. *)
EXTENDS Manager

CONSTANTS a, b, m, mx, my

Single(n, q) == [name |-> n, multi |-> FALSE, port |-> q, source |-> Native]
Multi(n) == [name |-> n, multi |-> TRUE, port |-> 0, source |-> Native]
Child(n, q) == [name |-> n, port |-> q]

(* Two single-port services that want the same static port, the second of  *)
(* them also with a dynamic port, which the system may make that very port. *)
SingleNames == {a, b}
Invalid(n, q) == [name |-> n, multi |-> TRUE, port |-> q, source |-> Native]
SingleServices == {Single(a, 1), Single(b, 1), Single(b, 0), Invalid(b, 1)}
SingleConfigured == <<Single(a, 1)>>
NoExpansion == [n \in SingleNames |-> {}]
NoneExternal == {{}}
MaybeExternal == {{}, {a}}

(* One service on one port, for the liveness runs. *)
OneName == {a}
OneService == {Single(a, 1)}
OneNoExpansion == [n \in OneName |-> {}]

(* A multi-port service whose two ports never change. *)
MultiNames == {m, mx, my}
MultiServices == {Multi(m)}
MultiConfigured == <<Multi(m)>>
StableExpansion == [n \in MultiNames |->
    IF n = m THEN {<<Child(mx, 1), Child(my, 0)>>} ELSE {}]
=============================================================================
