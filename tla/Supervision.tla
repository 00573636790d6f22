---------------------------- MODULE Supervision ----------------------------
(***************************************************************************)
(* What superviseSingle promises about one forward, whatever runs its      *)
(* attempts: a broken attempt is counted, reported as failed and waited    *)
(* for before the next one; a preempted one is followed by another at      *)
(* once; the forward is given up only at the restart limit or when the     *)
(* manager stops, and then for good.                                       *)
(***************************************************************************)
EXTENDS Naturals

CONSTANTS MaxRestarts,   \* 0 = unlimited
          RestartCap     \* bound: restarts saturates here

VARIABLES phase,         \* what the supervisor is doing
          state,         \* the state reported
          restarts,      \* broken attempts so far
          stopping       \* the manager's context is cancelled

vars == <<phase, state, restarts, stopping>>

Init ==
    /\ phase \in {"idle", "trying"}
    /\ state = "starting"
    /\ restarts = 0
    /\ stopping = FALSE

Move(from, to) ==
    /\ phase = from
    /\ phase' = to
    /\ UNCHANGED stopping

(* The struct is registered, possibly as failed, before it is supervised. *)
Reserve(st) ==
    /\ phase = "idle"
    /\ phase' \in {"idle", "trying"}
    /\ state' = st
    /\ UNCHANGED <<restarts, stopping>>

Begin == Move("trying", "trying") /\ state' = "starting" /\ UNCHANGED restarts

Ready == Move("trying", "up") /\ state' = "running" /\ UNCHANGED restarts

Break ==
    /\ \/ Move("trying", "broken")
       \/ Move("up", "broken")
       \/ Move("up", "preempted")
    /\ UNCHANGED <<state, restarts>>

(* A preempted forward is tried again without a delay or a restart. *)
RetryNow == Move("preempted", "trying") /\ ~stopping /\ UNCHANGED <<state, restarts>>

Fail ==
    /\ restarts' = IF restarts < RestartCap THEN restarts + 1 ELSE restarts
    /\ state' = "failed"
    /\ Move("broken", IF MaxRestarts > 0 /\ restarts' >= MaxRestarts
                      THEN "done" ELSE "waiting")

Wake == Move("waiting", "trying") /\ UNCHANGED <<state, restarts>>

GiveUp ==
    /\ stopping
    /\ \/ \E ph \in {"trying", "broken", "preempted"} :
             Move(ph, "done") /\ state' = "stopped"
       \/ Move("waiting", "done") /\ UNCHANGED state
    /\ UNCHANGED restarts

(* removeSingle and Stop mark a forward whatever its supervisor is doing. *)
Mark == state' = "stopped" /\ UNCHANGED <<phase, restarts, stopping>>

Shutdown == stopping' = TRUE /\ UNCHANGED <<phase, state, restarts>>

Next ==
    \/ \E st \in {"starting", "failed"} : Reserve(st)
    \/ Begin \/ Ready \/ Break \/ RetryNow \/ Fail \/ Wake \/ GiveUp
    \/ Mark \/ Shutdown

Spec == Init /\ [][Next]_vars
=============================================================================
