-------------------------------- MODULE MCFleet --------------------------------
(* Instances of Fleet for TLC. *)
EXTENDS Fleet

CONSTANTS p1, p2, c1, c2, s1, s2

(* Two configs in one directory; their services have different names and the *)
(* same port.                                                                *)
TwoPids == {p1, p2}
TwoConfigs == {c1, c2}
TwoServices == {s1, s2}
OneDir == [c \in TwoConfigs |-> 1]
SamePort == [s \in TwoServices |-> 1]
OneEach == [c \in TwoConfigs |-> IF c = c1 THEN {s1} ELSE {s2}]

(* Configs, with their services, and PIDs are interchangeable until one of   *)
(* them is in use: the first command is about c1, and its daemon is p1.      *)
FirstInUse ==
    /\ events = 0 => \A k \in Cmd : cmd'[k].cfg # c2
    /\ (proc = [p \in Pid |-> Free] /\ \A k \in Cmd : cmd[k].pid = None
        /\ registry = {} /\ \A c \in Cfg : pidFile[c] = None)
       => proc'[p2] = Free
=============================================================================
