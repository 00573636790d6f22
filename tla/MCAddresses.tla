----------------------------- MODULE MCAddresses -----------------------------
(* An instance of Addresses for TLC: one service, and a client of each     *)
(* cluster domain.                                                         *)
EXTENDS Addresses

CONSTANTS f, c1, c2

OneForward == {f}
OneOrder == <<f>>
TwoClients == {c1, c2}
BothDomains == [c \in TwoClients |-> IF c = c1 THEN "custom" ELSE "cluster.local"]
CustomName == {<<f, "custom">>}
=============================================================================
