---------------------------- MODULE ForwardProofs ----------------------------
(***************************************************************************)
(* Proofs about Forward for every cluster, restart limit, threshold,       *)
(* backoff and channel capacity: its type invariant, and that it           *)
(* implements Supervision step by step.                                    *)
(***************************************************************************)
EXTENDS Forward, TLAPS

(* The initial state is well typed. *)
LEMMA InitTypeOK == Init => TypeOK
<1> SUFFICES ASSUME Init PROVE TypeOK
    OBVIOUS
<1>1. pods \in [Pod -> {"absent", "running", "ready", "terminating"}]
    BY DEF Init
<1>2. events \in Seq(Pod) /\ Len(events) <= EventCap
    BY ForwardAssumption DEF Init
<1>3. /\ failCount \in 0..(HealthCheckThreshold - 1)
      /\ {streamErrors, lastStreamErrors} \subseteq 0..ErrorCap
      /\ restarts \in 0..RestartCap /\ backoff \in Nat \ {0}
    BY ForwardAssumption DEF Init
<1>4. /\ pc \in {"head", "launch", "returned", "backoff", "done"} \cup Attempt
      /\ state \in {"starting", "running", "failed", "stopped"}
      /\ {podName, currentPod, tunnel, handling} \subseteq Pod \cup {NoPod}
      /\ err \in {"error", "preempted"}
    BY DEF Init
<1>5. {fwDone, silent, old, preemptCh, marked, ctxDone} \subseteq BOOLEAN
    BY Zenon DEF Init
<1>6. QED
    BY <1>1, <1>2, <1>3, <1>4, <1>5 DEF TypeOK

(* What a connection leaves behind is there or not. *)
LEMMA OldType ==
    ASSUME TypeOK
    PROVE  /\ {silent, old, preemptCh} \subseteq BOOLEAN
           /\ (old \/ tunnel # NoPod) \in BOOLEAN
           /\ \A S : (preemptCh \/ Candidates \ S # {}) \in BOOLEAN
<1>1. {silent, old, preemptCh} \subseteq BOOLEAN
  BY Zenon DEF TypeOK
<1>2. QED
  BY <1>1, Zenon

(* The cluster changes the phase of a pod and nothing else that has a type *)
(* to lose, breaks the connection, or counts a failed stream up to the cap. *)
LEMMA ClusterTypeOK == TypeOK /\ Cluster => TypeOK'
<1> SUFFICES ASSUME TypeOK, Cluster PROVE TypeOK'
    OBVIOUS
<1>1. ASSUME NEW p \in Pod, PodRuns(p) \/ PodReady(p) \/ PodTerminates(p) \/ PodGone(p)
      PROVE  TypeOK'
  BY <1>1 DEF PodRuns, PodReady, PodTerminates, PodGone, PodChange, TypeOK,
              connVars, superVars, attemptVars, streamVars, watchVars, stopVars
<1>2. CASE TunnelDies \/ TunnelFallsSilent \/ OldCloses
  <2>1. {silent', old'} \subseteq BOOLEAN
    BY <1>2, OldType DEF TunnelDies, TunnelFallsSilent, OldCloses
  <2>2. QED
    BY <1>2, <2>1 DEF TunnelDies, TunnelFallsSilent, OldCloses, TypeOK,
                      connVars, superVars, attemptVars, streamVars, watchVars,
                      stopVars
<1>3. CASE StreamFails \/ LateStreamFails
  <2>1. streamErrors' \in 0..ErrorCap
    BY <1>3, ForwardAssumption DEF StreamFails, LateStreamFails, CountsFailure,
                                   Room, TypeOK
  <2>2. QED
    BY <1>3, <2>1 DEF StreamFails, LateStreamFails, CountsFailure, TypeOK,
                      superVars, attemptVars, connVars, watchVars, stopVars
<1>4. QED
  BY <1>1, <1>2, <1>3 DEF Cluster

(* The watcher and the handler move the names of pods: at most EventCap in *)
(* the channel, and a replacement is a pod of the service.                 *)
LEMMA WatchTypeOK ==
    ASSUME TypeOK, (\E p \in Pod : Drain(p)) \/ Handler
    PROVE  TypeOK'
<1>1. ASSUME NEW p \in Pod, Drain(p) PROVE TypeOK'
  <2>1. events' \in Seq(Pod) /\ Len(events') <= EventCap
    BY <1>1, ForwardAssumption DEF Drain, TypeOK
  <2>2. QED
    BY <1>1, <2>1 DEF Drain, TypeOK, connVars, superVars, attemptVars,
                      streamVars, stopVars
<1>2. CASE HandlerReceives
  <2>1. events' \in Seq(Pod) /\ Len(events') <= EventCap
    BY <1>2, ForwardAssumption DEF HandlerReceives, TypeOK
  <2>2. handling' \in Pod \cup {NoPod}
    BY <1>2 DEF HandlerReceives, TypeOK
  <2>3. QED
    BY <1>2, <2>1, <2>2 DEF HandlerReceives, TypeOK, connVars, superVars,
                            attemptVars, streamVars, stopVars
<1>3. CASE HandlerSignals
  <2>1. Candidates \subseteq Pod
    BY DEF Candidates
  <2>2. QED
    BY <1>3, <2>1 DEF HandlerSignals, TypeOK, connVars, superVars, attemptVars,
                      streamVars, stopVars
<1>4. QED
  BY <1>1, <1>2, <1>3 DEF Handler

(* Whatever way an attempt returns by, it leaves its locals reset. *)
LEMMA ReturnTypeOK ==
    ASSUME TypeOK, NEW from, NEW r \in {"error", "preempted"}, Return(from, r),
           streamErrors' \in 0..ErrorCap,
           preemptCh' \in BOOLEAN, UNCHANGED <<events, handling>>
    PROVE  TypeOK'
<1>1. {silent', old'} \subseteq BOOLEAN
  BY OldType, Zenon DEF Return
<1>2. failCount' \in 0..(HealthCheckThreshold - 1) /\ lastStreamErrors' \in 0..ErrorCap
  BY ForwardAssumption DEF Return
<1>3. QED
  BY <1>1, <1>2 DEF Return, SuperStep, TypeOK, connVars, superVars, stopVars

(* An attempt and its health-check loop keep the types. *)
LEMMA AttemptTypeOK ==
    ASSUME TypeOK,
           \/ Launch \/ ResolveFails \/ ResolveSucceeds \/ Publish \/ DialFails
           \/ DialSucceeds \/ Arm \/ Lost \/ Cancelled \/ Aged \/ Preempted \/ Tick
    PROVE  TypeOK'
<1> USE ForwardAssumption
<1>1. CASE Launch
  BY <1>1 DEF Launch, SuperStep, TypeOK, Attempt, connVars, superVars,
              streamVars, watchVars, stopVars
<1>2. CASE ResolveFails \/ Lost \/ Cancelled \/ Aged \/ TickDegraded
  BY <1>2, ReturnTypeOK DEF ResolveFails, Lost, Cancelled, Aged, TickDegraded,
                            TypeOK, connVars, watchVars
<1>3. CASE ResolveSucceeds
  <2>1. podName' \in Pod
    BY <1>3 DEF ResolveSucceeds, Candidates
  <2>2. QED
    BY <1>3, <2>1 DEF ResolveSucceeds, SuperStep, TypeOK, Attempt, connVars,
                      superVars, streamVars, watchVars, stopVars
<1>4. CASE Publish
  BY <1>4 DEF Publish, SuperStep, TypeOK, Attempt, connVars, superVars,
              streamVars, watchVars, stopVars
<1>5. CASE DialFails
  BY <1>5, ReturnTypeOK DEF DialFails, TypeOK, connVars, watchVars
<1>6. CASE DialSucceeds
  BY <1>6 DEF DialSucceeds, SuperStep, TypeOK, Attempt, connVars, attemptVars,
              watchVars, stopVars
<1>7. CASE Arm
  BY <1>7 DEF Arm, SuperStep, TypeOK, Attempt, connVars, superVars,
              attemptVars, watchVars, stopVars
<1>8. CASE Preempted
  BY <1>8, ReturnTypeOK DEF Preempted, TypeOK
<1>9. CASE TickProbeFails
  <2>1. CASE Return("watch", "error")
    BY <1>9, <2>1, ReturnTypeOK DEF TickProbeFails, TypeOK, connVars, watchVars
  <2>2. CASE ~Return("watch", "error")
    BY <1>9, <2>2 DEF TickProbeFails, SuperStep, TypeOK, connVars, superVars,
                      attemptVars, watchVars, stopVars
  <2>3. QED
    BY <2>1, <2>2
<1>10. CASE TickProbeSucceeds
  BY <1>10 DEF TickProbeSucceeds, SuperStep, TypeOK, connVars, superVars,
               attemptVars, streamVars, watchVars, stopVars
<1>11. QED
  BY <1>1, <1>2, <1>3, <1>4, <1>5, <1>6, <1>7, <1>8, <1>9, <1>10 DEF Tick

(* superviseSingle around its attempts, and the calls that stop it. *)
LEMMA SuperviseTypeOK ==
    ASSUME TypeOK,
           \/ LoopHead \/ ReturnedStopped \/ ReturnedPreempted \/ ReturnedFailed
           \/ BackoffEnds \/ MarkStopped \/ CancelContext
    PROVE  TypeOK'
<1> USE ForwardAssumption
<1>1. CASE LoopHead
  BY <1>1 DEF LoopHead, SuperStep, TypeOK, connVars, attemptVars, streamVars,
              watchVars, stopVars
<1>2. CASE ReturnedStopped \/ ReturnedPreempted
  BY <1>2 DEF ReturnedStopped, ReturnedPreempted, SuperStep, TypeOK, connVars,
              attemptVars, streamVars, watchVars, stopVars
<1>3. CASE ReturnedFailed
  BY <1>3 DEF ReturnedFailed, Bump, SuperStep, TypeOK, connVars, attemptVars,
              streamVars, watchVars, stopVars
<1>4. CASE BackoffEnds
  BY <1>4 DEF BackoffEnds, Smaller, SuperStep, TypeOK, connVars, attemptVars,
              streamVars, watchVars, stopVars
<1>5. CASE MarkStopped
  BY <1>5 DEF MarkStopped, TypeOK, connVars, streamVars, watchVars
<1>6. CASE CancelContext
  BY <1>6 DEF CancelContext, TypeOK, connVars, superVars, attemptVars,
              streamVars, watchVars
<1>7. QED
  BY <1>1, <1>2, <1>3, <1>4, <1>5, <1>6

LEMMA NextTypeOK == TypeOK /\ [Next]_vars => TypeOK'
<1> SUFFICES ASSUME TypeOK, [Next]_vars PROVE TypeOK'
  OBVIOUS
<1>1. CASE UNCHANGED vars
  BY <1>1 DEF connVars, vars, TypeOK, superVars, attemptVars, streamVars,
              watchVars, stopVars
<1>2. CASE Next
  BY <1>2, ClusterTypeOK, WatchTypeOK, AttemptTypeOK, SuperviseTypeOK
     DEF Next, Supervise
<1>3. QED
  BY <1>1, <1>2

(* The types of a forward hold in every reachable state: the consecutive   *)
(* failures stay below the threshold, stream errors and buffered events    *)
(* below their caps, and every name is a pod's or none.                    *)
THEOREM TypeCorrect == Spec => []TypeOK
<1>1. QED
  BY InitTypeOK, NextTypeOK, PTL DEF Spec

-----------------------------------------------------------------------------
(* An attempt publishes the pod it dials before it dials, and the          *)
(* connection it has then is its own.                                      *)
TunnelIsCurrent ==
    /\ pc \in {"dial", "ready", "watch"} => currentPod = podName
    /\ tunnel # NoPod => pc \in {"ready", "watch"} /\ tunnel = podName

(* Backoff never exceeds the larger of its first value and its ceiling. *)
BackoffBounded ==
    backoff <= IF BackoffInitial > BackoffMax THEN BackoffInitial ELSE BackoffMax

(* A step that is not one of the supervisor's leaves its control point, pod *)
(* and backoff alone, and opens no connection.                             *)
LEMMA OthersKeepAttempt ==
    ASSUME \/ Cluster \/ (\E p \in Pod : Drain(p)) \/ Handler \/ MarkStopped
           \/ CancelContext
    PROVE  /\ UNCHANGED <<pc, podName, currentPod, backoff>>
           /\ tunnel' \in {tunnel, NoPod}
<1>1. CASE Cluster
  BY <1>1 DEF Cluster, PodRuns, PodReady, PodTerminates, PodGone, PodChange,
              TunnelDies, TunnelFallsSilent, OldCloses, CountsFailure,
              StreamFails, LateStreamFails, connVars, attemptVars, superVars
<1>2. CASE (\E p \in Pod : Drain(p)) \/ Handler
  BY <1>2 DEF Drain, Handler, HandlerReceives, HandlerSignals, connVars,
              attemptVars, superVars
<1>3. CASE MarkStopped \/ CancelContext
  BY <1>3 DEF MarkStopped, CancelContext, connVars, attemptVars, superVars
<1>4. QED
  BY <1>1, <1>2, <1>3

(* Every step of the supervisor keeps the connection to the current pod. *)
LEMMA NextTunnelIsCurrent == TunnelIsCurrent /\ [Next]_vars => TunnelIsCurrent'
<1> SUFFICES ASSUME TunnelIsCurrent, [Next]_vars PROVE TunnelIsCurrent'
  OBVIOUS
<1> USE DEF TunnelIsCurrent, SuperStep, connVars, attemptVars
<1>1. CASE UNCHANGED vars
  BY <1>1 DEF connVars, vars
<1>2. CASE \/ Cluster \/ (\E p \in Pod : Drain(p)) \/ Handler \/ MarkStopped
           \/ CancelContext
  BY <1>2, OthersKeepAttempt
<1>3. CASE \/ LoopHead \/ Launch \/ ResolveSucceeds \/ Publish \/ DialSucceeds \/ Arm
           \/ ReturnedStopped \/ ReturnedPreempted \/ ReturnedFailed \/ BackoffEnds
           \/ TickProbeSucceeds
  BY <1>3 DEF LoopHead, Launch, ResolveSucceeds, Publish, DialSucceeds, Arm,
              ReturnedStopped, ReturnedPreempted, ReturnedFailed, BackoffEnds,
              TickProbeSucceeds
<1>4. CASE \/ ResolveFails \/ DialFails \/ Lost \/ Cancelled \/ Aged \/ Preempted
           \/ TickDegraded \/ TickProbeFails
  BY <1>4 DEF ResolveFails, DialFails, Lost, Cancelled, Aged, Preempted,
              TickDegraded, TickProbeFails, Return
<1>5. QED
  BY <1>1, <1>2, <1>3, <1>4 DEF Next, Supervise, Tick

(* superviseSingle doubles the backoff up to its ceiling or resets it. *)
LEMMA NextBackoffBounded ==
    TypeOK /\ BackoffBounded /\ [Next]_vars => BackoffBounded'
<1> SUFFICES ASSUME TypeOK, BackoffBounded, [Next]_vars PROVE BackoffBounded'
  OBVIOUS
<1>1. \/ backoff' \in {backoff, BackoffInitial}
      \/ backoff' = Smaller(2 * backoff, BackoffMax)
  <2>1. CASE UNCHANGED vars
    BY <2>1 DEF connVars, vars, superVars
  <2>2. CASE \/ Cluster \/ (\E p \in Pod : Drain(p)) \/ Handler \/ MarkStopped
             \/ CancelContext
    BY <2>2, OthersKeepAttempt
  <2>3. CASE \/ LoopHead \/ Launch \/ ResolveSucceeds \/ Publish \/ DialSucceeds
             \/ Arm \/ ReturnedStopped \/ ReturnedPreempted \/ ReturnedFailed
             \/ BackoffEnds \/ TickProbeSucceeds
    BY <2>3 DEF LoopHead, Launch, ResolveSucceeds, Publish, DialSucceeds, Arm,
                ReturnedStopped, ReturnedPreempted, ReturnedFailed,
                BackoffEnds, TickProbeSucceeds, connVars, superVars
  <2>4. CASE \/ ResolveFails \/ DialFails \/ Lost \/ Cancelled \/ Aged \/ Preempted
             \/ TickDegraded \/ TickProbeFails
    BY <2>4 DEF ResolveFails, DialFails, Lost, Cancelled, Aged, Preempted,
                TickDegraded, TickProbeFails, Return, connVars, superVars
  <2>5. QED
    BY <2>1, <2>2, <2>3, <2>4 DEF Next, Supervise, Tick
<1>2. QED
  BY <1>1, ForwardAssumption DEF BackoffBounded, Smaller, TypeOK

(* In every reachable state the connection in use goes to pf.currentPod,   *)
(* the pod that handlePodEvents compares terminating pods with, however    *)
(* resolutions, preemptions and failures follow one another.  Connections  *)
(* left behind may go to other pods.                                       *)
THEOREM CurrentPodIsServed == Spec => [](tunnel # NoPod => tunnel = currentPod)
<1>1. Init => TunnelIsCurrent
  BY DEF Init, TunnelIsCurrent
<1>2. TunnelIsCurrent => (tunnel # NoPod => tunnel = currentPod)
  BY DEF TunnelIsCurrent
<1>3. QED
  BY <1>1, <1>2, NextTunnelIsCurrent, PTL DEF Spec

(* The delay between two attempts never grows past its ceiling, unless it  *)
(* began above it.                                                         *)
THEOREM BackoffStaysBounded == Spec => []BackoffBounded
<1>1. Init => BackoffBounded
  BY ForwardAssumption DEF Init, BackoffBounded
<1>2. QED
  BY <1>1, NextBackoffBounded, TypeCorrect, PTL DEF Spec

-----------------------------------------------------------------------------
(* Forward implements Supervision: phase is Phase, stopping is ctxDone. *)

(* A step that changes nothing Supervision sees is a stutter. *)
Unseen == UNCHANGED <<pc, err, state, restarts, ctxDone>>

LEMMA UnseenStutters == Unseen => UNCHANGED Supervisor!vars
  BY DEF Unseen, Supervisor!vars, Phase

(* Inside an attempt: becoming ready is Ready, returning is Break. *)
LEMMA AttemptRefines ==
    ASSUME \/ Launch \/ ResolveFails \/ ResolveSucceeds \/ Publish \/ DialFails
           \/ DialSucceeds \/ Arm \/ Lost \/ Cancelled \/ Aged \/ Preempted \/ Tick
    PROVE  [Supervisor!Next]_(Supervisor!vars)
<1> USE DEF SuperStep, connVars, superVars, attemptVars, stopVars, Phase
<1>1. CASE Launch \/ ResolveSucceeds \/ Publish \/ Arm
  BY <1>1 DEF Launch, ResolveSucceeds, Publish, Arm, Supervisor!vars
<1>2. ASSUME NEW from \in {"resolve", "dial", "watch"}, NEW r \in {"error", "preempted"},
             r = "preempted" => from = "watch", Return(from, r)
      PROVE  Supervisor!Break
  BY <1>2 DEF Return, Supervisor!Break, Supervisor!Move
<1>3. CASE ResolveFails \/ DialFails \/ Lost \/ Cancelled \/ Aged \/ Preempted \/ TickDegraded
  BY <1>2, <1>3 DEF ResolveFails, DialFails, Lost, Cancelled, Aged, Preempted,
                    TickDegraded, Supervisor!Next
<1>4. CASE DialSucceeds
  BY <1>4 DEF DialSucceeds, Supervisor!Next, Supervisor!Ready, Supervisor!Move
<1>5. CASE TickProbeFails \/ TickProbeSucceeds
  <2>1. CASE Return("watch", "error")
    BY <1>2, <2>1 DEF Supervisor!Next
  <2>2. CASE ~Return("watch", "error")
    BY <1>5, <2>2 DEF TickProbeFails, TickProbeSucceeds, Supervisor!vars
  <2>3. QED
    BY <2>1, <2>2
<1>6. QED
  BY <1>1, <1>3, <1>4, <1>5 DEF Tick

(* Around an attempt: Begin, GiveUp, RetryNow, Fail and Wake. *)
LEMMA SuperviseRefines ==
    ASSUME \/ LoopHead \/ ReturnedStopped \/ ReturnedPreempted \/ ReturnedFailed
           \/ BackoffEnds
    PROVE  Supervisor!Next
<1> USE DEF SuperStep, connVars, superVars, attemptVars, stopVars, Phase
<1>1. CASE LoopHead
  BY <1>1 DEF LoopHead, Supervisor!Next, Supervisor!Begin, Supervisor!GiveUp,
              Supervisor!Move
<1>2. CASE ReturnedStopped
  BY <1>2 DEF ReturnedStopped, Supervisor!Next, Supervisor!GiveUp,
              Supervisor!Move
<1>3. CASE ReturnedPreempted
  BY <1>3 DEF ReturnedPreempted, Supervisor!Next, Supervisor!RetryNow,
              Supervisor!Move
<1>4. CASE ReturnedFailed
  BY <1>4 DEF ReturnedFailed, Bump, Exhausted, Supervisor!Next,
              Supervisor!Fail, Supervisor!Move
<1>5. CASE BackoffEnds
  BY <1>5 DEF BackoffEnds, Supervisor!Next, Supervisor!GiveUp, Supervisor!Wake,
              Supervisor!Move
<1>6. QED
  BY <1>1, <1>2, <1>3, <1>4, <1>5

(* Every step of Forward is a step of Supervision or a stutter of it. *)
LEMMA StepRefines == [Next]_vars => [Supervisor!Next]_(Supervisor!vars)
<1> SUFFICES ASSUME [Next]_vars PROVE [Supervisor!Next]_(Supervisor!vars)
  OBVIOUS
<1>1. CASE UNCHANGED vars \/ Cluster \/ (\E p \in Pod : Drain(p)) \/ Handler
  <2>1. Unseen
    BY <1>1 DEF connVars, vars, Cluster, PodRuns, PodReady, PodTerminates,
                PodGone, PodChange, TunnelDies, TunnelFallsSilent, OldCloses,
                CountsFailure, StreamFails, LateStreamFails, Drain, Handler,
                HandlerReceives, HandlerSignals, Unseen, superVars,
                attemptVars, stopVars
  <2>2. QED
    BY <2>1, UnseenStutters
<1>2. CASE MarkStopped
  BY <1>2 DEF MarkStopped, Phase, Supervisor!Next, Supervisor!Mark
<1>3. CASE CancelContext
  BY <1>3 DEF CancelContext, Phase, connVars, superVars, attemptVars,
              Supervisor!Next, Supervisor!Shutdown
<1>4. QED
  BY <1>1, <1>2, <1>3, AttemptRefines, SuperviseRefines DEF Next, Supervise

(* A forward lives the life superviseSingle promises whatever the cluster, *)
(* the pod watcher, the health checks and the callers of removeSingle and  *)
(* Stop do: a broken attempt is counted and waited for, a preempted one is *)
(* not, and it is given up only at the restart limit or at shutdown.       *)
THEOREM SupervisionImplemented == Spec => ImplementsSupervision
<1>1. Init => Supervisor!Init
  BY DEF Init, Phase, Supervisor!Init
<1>2. QED
  BY <1>1, StepRefines, PTL DEF Spec, ImplementsSupervision, Supervisor!Spec
=============================================================================
