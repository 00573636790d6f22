------------------------------- MODULE Forward -------------------------------
(***************************************************************************)
(* One service-backed forward in mux mode, in detail: the supervision loop *)
(* (superviseSingle), an attempt with its health-check loop                *)
(* (runPortForward), the stream error counter that all connections of a    *)
(* forward share (counting.go), the pod watcher (pod_watcher.go) and       *)
(* handlePodEvents, over a cluster whose pods come and go.                 *)
(***************************************************************************)
EXTENDS Naturals, Sequences

CONSTANTS
    Pod,                  \* names of the pods the service selects
    NoPod,                \* the empty pod name
    MaxRestarts,          \* m.maxRestarts, 0 = unlimited
    HealthCheckThreshold, \* m.healthCheckThreshold
    BackoffInitial,       \* m.backoffInitial
    BackoffMax,           \* m.backoffMax
    AgeLimited,           \* m.maxConnectionAge > 0
    RestartCap,           \* bound: pf.restarts saturates here
    ErrorCap,             \* bound: stream creation failures counted per connection
    EventCap              \* capacity of the watcher's eventCh

ASSUME ForwardAssumption ==
    /\ NoPod \notin Pod
    /\ MaxRestarts \in Nat
    /\ HealthCheckThreshold \in Nat \ {0}
    /\ BackoffInitial \in Nat \ {0}
    /\ BackoffMax \in Nat \ {0}
    /\ AgeLimited \in BOOLEAN
    /\ RestartCap \in Nat
    /\ RestartCap >= MaxRestarts
    /\ ErrorCap \in Nat
    /\ EventCap \in Nat \ {0}

VARIABLES
    pods,       \* the cluster: the phase of each pod
    pc,         \* control point of superviseSingle and runPortForward
    state,      \* pf.state
    restarts,   \* pf.restarts
    backoff,    \* superviseSingle's backoff
    podName,    \* runPortForward's podName, NoPod outside it
    currentPod, \* pf.currentPod
    fwDone,     \* pf.cancel has cancelled the attempt's fwCtx
    err,        \* what the last attempt returned: "error" or "preempted"
    tunnel,     \* the pod at the other end of the attempt's SPDY connection
    silent,     \* that connection is dead though nothing has closed it
    old,        \* connections left behind are still open, or some client still
                \* waits for a stream on one
    failCount,  \* consecutive failed health checks
    streamErrors,     \* pf.counter.streamErrors
    lastStreamErrors, \* its value when the health-check loop began
    events,     \* watcher.eventCh: names of terminating pods
    handling,   \* the pod handlePodEvents is finding a replacement for
    preemptCh,  \* pf.preemptCh, of capacity one, is full
    marked,     \* removeSingle or Stop has marked the forward
    ctxDone     \* the manager context has been cancelled

attemptVars == <<podName, currentPod, fwDone, err>>
connVars    == <<tunnel, silent, old>>
streamVars  == <<streamErrors, lastStreamErrors>>
watchVars   == <<events, handling, preemptCh>>
superVars   == <<state, restarts, backoff>>
stopVars    == <<marked, ctxDone>>

vars == <<pods, pc, superVars, attemptVars, connVars, failCount, streamVars,
          watchVars, stopVars>>

Attempt == {"resolve", "publish", "dial", "ready", "watch"}

TypeOK ==
    /\ pods \in [Pod -> {"absent", "running", "ready", "terminating"}]
    /\ pc \in {"head", "launch", "returned", "backoff", "done"} \cup Attempt
    /\ state \in {"starting", "running", "failed", "stopped"}
    /\ restarts \in 0..RestartCap
    /\ backoff \in Nat \ {0}
    /\ {podName, currentPod, tunnel, handling} \subseteq Pod \cup {NoPod}
    /\ err \in {"error", "preempted"}
    /\ failCount \in 0..(HealthCheckThreshold - 1)
    /\ {streamErrors, lastStreamErrors} \subseteq 0..ErrorCap
    /\ events \in Seq(Pod) /\ Len(events) <= EventCap
    /\ {fwDone, silent, old, preemptCh, marked, ctxDone} \subseteq BOOLEAN

Init ==
    /\ pods \in [Pod -> {"absent", "ready"}]
    /\ pc = "head"
    /\ state = "starting"
    /\ restarts = 0
    /\ backoff = BackoffInitial
    /\ podName = NoPod
    /\ currentPod = NoPod
    /\ fwDone = FALSE
    /\ err = "error"
    /\ tunnel = NoPod
    /\ silent = FALSE
    /\ old = FALSE
    /\ failCount = 0
    /\ streamErrors = 0
    /\ lastStreamErrors = 0
    /\ events = <<>>
    /\ handling = NoPod
    /\ preemptCh = FALSE
    /\ marked = FALSE
    /\ ctxDone = FALSE

-----------------------------------------------------------------------------
(* The cluster, which is external. *)

PodChange(p, from, to) ==
    /\ pods[p] \in from
    /\ pods' = [pods EXCEPT ![p] = to]
    /\ UNCHANGED <<pc, superVars, attemptVars, connVars, failCount, streamVars,
                   watchVars, stopVars>>

PodRuns(p) == PodChange(p, {"absent", "ready"}, "running")

PodReady(p) == PodChange(p, {"running"}, "ready")

(* DeletionTimestamp is set on a pod that is still running. *)
PodTerminates(p) == PodChange(p, {"running", "ready"}, "terminating")

PodGone(p) == PodChange(p, {"terminating"}, "absent")

(* The connection breaks, as it does when its pod has gone; a client may   *)
(* wait on for a stream of it.                                             *)
TunnelDies ==
    /\ tunnel # NoPod
    /\ tunnel' = NoPod
    /\ silent' = FALSE
    /\ old' \in {old, TRUE}
    /\ UNCHANGED <<pods, pc, superVars, attemptVars, failCount, streamVars,
                   watchVars, stopVars>>

(* It dies without being closed: its local port still accepts clients, who *)
(* wait for streams in vain.                                               *)
TunnelFallsSilent ==
    /\ tunnel # NoPod
    /\ ~silent
    /\ silent' = TRUE
    /\ UNCHANGED <<pods, pc, superVars, attemptVars, tunnel, old, failCount,
                   streamVars, watchVars, stopVars>>

(* fwCtx's end reaches ForwardPorts, which closes the connection it had,   *)
(* and the last client that waited on it gives up.                         *)
OldCloses ==
    /\ old
    /\ old' = FALSE
    /\ UNCHANGED <<pods, pc, superVars, attemptVars, tunnel, silent, failCount,
                   streamVars, watchVars, stopVars>>

-----------------------------------------------------------------------------
(* countingConnection.CreateStream failing, on the connection or, late, on *)
(* one left behind.  The bound leaves room for a failure to be seen by the *)
(* health-check loop.                                                      *)

Room == streamErrors + (IF pc = "watch" THEN 0 ELSE 1) < ErrorCap

CountsFailure ==
    /\ Room
    /\ streamErrors' = streamErrors + 1
    /\ UNCHANGED <<pods, pc, superVars, attemptVars, connVars, failCount,
                   lastStreamErrors, watchVars, stopVars>>

StreamFails == tunnel # NoPod /\ CountsFailure

LateStreamFails == old /\ CountsFailure

-----------------------------------------------------------------------------
(* resolvePod: any Ready pod, else any Running one, never a terminating one. *)

Candidates ==
    LET ready == {p \in Pod : pods[p] = "ready"} IN
    IF ready # {} THEN ready ELSE {p \in Pod : pods[p] = "running"}

(* The pod watcher: a Modified event of a terminating pod is sent, unless  *)
(* eventCh is full; events of a broken watch are lost.                     *)
Drain(p) ==
    /\ ~ctxDone
    /\ pods[p] = "terminating"
    /\ Len(events) < EventCap
    /\ events' = Append(events, p)
    /\ UNCHANGED <<pods, pc, superVars, attemptVars, connVars, failCount, streamVars,
                   handling, preemptCh, stopVars>>

(* handlePodEvents receives an event; one of another pod is skipped. *)
HandlerReceives ==
    /\ ~ctxDone
    /\ handling = NoPod
    /\ events # <<>>
    /\ events' = Tail(events)
    /\ handling' = IF Head(events) = currentPod THEN currentPod ELSE NoPod
    /\ UNCHANGED <<pods, pc, superVars, attemptVars, connVars, failCount, streamVars,
                   preemptCh, stopVars>>

(* It finds a replacement and signals it unless a signal is pending, or    *)
(* finds none.                                                             *)
HandlerSignals ==
    /\ handling # NoPod
    /\ handling' = NoPod
    /\ preemptCh' \in {preemptCh, preemptCh \/ Candidates \ {handling} # {}}
    /\ UNCHANGED <<pods, pc, superVars, attemptVars, connVars, failCount, streamVars,
                   events, stopVars>>

-----------------------------------------------------------------------------
(* superviseSingle up to the attempt *)

SuperStep(from, to) ==
    /\ pc = from
    /\ pc' = to
    /\ UNCHANGED <<pods, stopVars>>

LoopHead ==
    /\ \/ ctxDone /\ SuperStep("head", "done") /\ state' = "stopped"
       \/ ~ctxDone /\ SuperStep("head", "launch") /\ state' = "starting"
    /\ UNCHANGED <<restarts, backoff, attemptVars, connVars, failCount, streamVars,
                   watchVars>>

-----------------------------------------------------------------------------
(* runPortForward *)

Launch ==
    /\ SuperStep("launch", "resolve")
    /\ fwDone' = FALSE
    /\ UNCHANGED <<superVars, podName, currentPod, err, connVars, failCount,
                   streamVars, watchVars>>

(* The attempt returns r: its locals and its fwCtx are gone.  The deferred *)
(* fwCancel has the connection closed in time, nobody waits for it.        *)
Return(from, r) ==
    /\ SuperStep(from, "returned")
    /\ err' = r
    /\ podName' = NoPod
    /\ fwDone' = FALSE
    /\ failCount' = 0
    /\ lastStreamErrors' = 0
    /\ tunnel' = NoPod
    /\ silent' = FALSE
    /\ old' = (old \/ tunnel # NoPod)
    /\ UNCHANGED <<superVars, currentPod>>

ResolveFails ==
    /\ Return("resolve", "error")
    /\ UNCHANGED <<streamErrors, watchVars>>

ResolveSucceeds ==
    /\ SuperStep("resolve", "publish")
    /\ podName' \in Candidates
    /\ UNCHANGED <<superVars, currentPod, fwDone, err, connVars, failCount,
                   streamVars, watchVars>>

Publish ==
    /\ SuperStep("publish", "dial")
    /\ currentPod' = podName
    /\ UNCHANGED <<superVars, podName, fwDone, err, connVars, failCount, streamVars,
                   watchVars>>

(* Dial or listen error, ready timeout, fwCtx.Done: a dial that succeeded  *)
(* has reset the counter all the same.                                     *)
DialFails ==
    /\ Return("dial", "error")
    /\ streamErrors' \in {streamErrors, 0}
    /\ UNCHANGED watchVars

DialSucceeds ==
    /\ SuperStep("dial", "ready")
    /\ pods[podName] # "absent"
    /\ tunnel' = podName
    /\ streamErrors' = 0
    /\ state' = "running"
    /\ UNCHANGED <<restarts, backoff, attemptVars, silent, old, failCount,
                   lastStreamErrors, watchVars>>

(* The health-check loop begins; the tunnel has been serving clients. *)
Arm ==
    /\ SuperStep("ready", "watch")
    /\ failCount' = 0
    /\ lastStreamErrors' = streamErrors
    /\ UNCHANGED <<superVars, attemptVars, connVars, streamErrors, watchVars>>

Lost ==
    /\ tunnel = NoPod
    /\ Return("watch", "error")
    /\ UNCHANGED <<streamErrors, watchVars>>

Cancelled ==
    /\ fwDone \/ ctxDone
    /\ Return("watch", "error")
    /\ UNCHANGED <<streamErrors, watchVars>>

Aged ==
    /\ AgeLimited
    /\ Return("watch", "error")
    /\ UNCHANGED <<streamErrors, watchVars>>

Preempted ==
    /\ preemptCh
    /\ preemptCh' = FALSE
    /\ Return("watch", "preempted")
    /\ UNCHANGED <<streamErrors, events, handling>>

(* Mutant: new stream errors are logged, and the attempt goes on. *)
TickDegradedLogged ==
    /\ streamErrors > lastStreamErrors
    /\ SuperStep("watch", "watch")
    /\ lastStreamErrors' = streamErrors
    /\ UNCHANGED <<superVars, attemptVars, connVars, failCount, streamErrors,
                   watchVars>>

(* The ticker: stream errors first, then the probe of the local port,      *)
(* which a closed tunnel fails and an open one, even a silent one, may but *)
(* need not.                                                               *)
TickDegraded ==
    /\ streamErrors > lastStreamErrors
    /\ Return("watch", "error")
    /\ UNCHANGED <<streamErrors, watchVars>>

(* Mutant: one failed probe too many is tolerated. *)
TickProbeFailsLate ==
    /\ streamErrors <= lastStreamErrors
    /\ \/ /\ failCount >= HealthCheckThreshold
          /\ Return("watch", "error")
       \/ /\ failCount < HealthCheckThreshold
          /\ SuperStep("watch", "watch")
          /\ failCount' = failCount + 1
          /\ UNCHANGED <<superVars, attemptVars, connVars, lastStreamErrors>>
    /\ UNCHANGED <<streamErrors, watchVars>>

TickProbeFails ==
    /\ streamErrors <= lastStreamErrors
    /\ \/ /\ failCount + 1 >= HealthCheckThreshold
          /\ Return("watch", "error")
       \/ /\ failCount + 1 < HealthCheckThreshold
          /\ SuperStep("watch", "watch")
          /\ failCount' = failCount + 1
          /\ UNCHANGED <<superVars, attemptVars, connVars, lastStreamErrors>>
    /\ UNCHANGED <<streamErrors, watchVars>>

TickProbeSucceeds ==
    /\ streamErrors <= lastStreamErrors
    /\ tunnel # NoPod
    /\ SuperStep("watch", "watch")
    /\ failCount' = 0
    /\ UNCHANGED <<superVars, attemptVars, connVars, streamVars, watchVars>>

-----------------------------------------------------------------------------
(* superviseSingle after the attempt *)

Bump(n) == IF n < RestartCap THEN n + 1 ELSE n

Exhausted(n) == MaxRestarts > 0 /\ n >= MaxRestarts

Smaller(x, y) == IF x < y THEN x ELSE y

ReturnedStopped ==
    /\ ctxDone
    /\ SuperStep("returned", "done")
    /\ state' = "stopped"
    /\ UNCHANGED <<restarts, backoff, attemptVars, connVars, failCount, streamVars,
                   watchVars>>

(* Mutant: a preempted forward backs off like a broken one. *)
ReturnedPreemptedBacksOff ==
    /\ ~ctxDone
    /\ err = "preempted"
    /\ SuperStep("returned", "backoff")
    /\ err' = "error"
    /\ UNCHANGED <<superVars, podName, currentPod, fwDone, connVars, failCount,
                   streamVars, watchVars>>

ReturnedPreempted ==
    /\ ~ctxDone
    /\ err = "preempted"
    /\ SuperStep("returned", "head")
    /\ backoff' = BackoffInitial
    /\ err' = "error"
    /\ UNCHANGED <<state, restarts, podName, currentPod, fwDone, connVars, failCount,
                   streamVars, watchVars>>

(* long: the attempt lasted for more than 30 s. *)
ReturnedFailed ==
    /\ ~ctxDone
    /\ err # "preempted"
    /\ state' = "failed"
    /\ restarts' = Bump(restarts)
    /\ SuperStep("returned", IF Exhausted(restarts') THEN "done" ELSE "backoff")
    /\ \E long \in BOOLEAN :
          backoff' = IF ~Exhausted(restarts') /\ long /\ streamErrors = 0
                     THEN BackoffInitial ELSE backoff
    /\ UNCHANGED <<attemptVars, connVars, failCount, streamVars, watchVars>>

BackoffEnds ==
    /\ \/ ctxDone /\ SuperStep("backoff", "done") /\ UNCHANGED backoff
       \/ SuperStep("backoff", "head") /\ backoff' = Smaller(2 * backoff, BackoffMax)
    /\ UNCHANGED <<state, restarts, attemptVars, connVars, failCount, streamVars,
                   watchVars>>

-----------------------------------------------------------------------------
(* removeSingle or Stop, on pf; and the cancellation of the manager's ctx. *)

MarkStopped ==
    /\ ~marked
    /\ marked' = TRUE
    /\ fwDone' = (fwDone \/ pc \in Attempt)
    /\ state' = "stopped"
    /\ UNCHANGED <<pods, pc, restarts, backoff, podName, currentPod, err, connVars,
                   failCount, streamVars, watchVars, ctxDone>>

CancelContext ==
    /\ ~ctxDone
    /\ ctxDone' = TRUE
    /\ UNCHANGED <<pods, pc, superVars, attemptVars, connVars, failCount, streamVars,
                   watchVars, marked>>

-----------------------------------------------------------------------------

Cluster ==
    \/ \E p \in Pod : PodRuns(p) \/ PodReady(p) \/ PodTerminates(p) \/ PodGone(p)
    \/ OldCloses
    \/ TunnelDies
    \/ TunnelFallsSilent
    \/ StreamFails
    \/ LateStreamFails

Handler == HandlerReceives \/ HandlerSignals

Tick == TickDegraded \/ TickProbeFails \/ TickProbeSucceeds

Supervise ==
    \/ LoopHead \/ Launch \/ ResolveFails \/ ResolveSucceeds \/ Publish
    \/ DialFails \/ DialSucceeds \/ Arm \/ Lost \/ Cancelled
    \/ ReturnedStopped \/ ReturnedPreempted \/ ReturnedFailed \/ BackoffEnds

Next ==
    \/ Cluster
    \/ \E p \in Pod : Drain(p)
    \/ Handler
    \/ Supervise
    \/ Aged
    \/ Preempted
    \/ Tick
    \/ MarkStopped
    \/ CancelContext

Spec == Init /\ [][Next]_vars

(* The supervisor runs, API calls and dials return, timers fire: the       *)
(* ticker finds stream errors, and a closed port closed, but an open one   *)
(* it may find open for ever.  A broken connection is noticed, a           *)
(* terminating pod goes, and the connection to a pod that is gone breaks   *)
(* unless it is silent.  On a silent one streams fail: every probe of the  *)
(* ticker asks for one and waits it out.  Of endlessly many resolutions    *)
(* and dials some succeed whenever they can.                               *)
Fairness ==
    /\ WF_vars(Supervise)
    /\ WF_vars(TickDegraded)
    /\ WF_vars(tunnel = NoPod /\ TickProbeFails)
    /\ WF_vars(Handler)
    /\ WF_vars(pc = "watch" /\ silent /\ StreamFails)
    /\ \A p \in Pod : WF_vars(PodGone(p))
    /\ WF_vars(tunnel # NoPod /\ ~silent /\ pods[tunnel] = "absent" /\ TunnelDies)
    /\ SF_vars(ResolveSucceeds)
    /\ SF_vars(DialSucceeds)

FairSpec == Spec /\ Fairness

-----------------------------------------------------------------------------
(* Properties *)

Phase ==
    CASE pc \in {"head", "launch", "resolve", "publish", "dial"} -> "trying"
      [] pc \in {"ready", "watch"} -> "up"
      [] pc = "returned" -> IF err = "preempted" THEN "preempted" ELSE "broken"
      [] pc = "backoff" -> "waiting"
      [] pc = "done" -> "done"

Supervisor == INSTANCE Supervision WITH phase <- Phase, stopping <- ctxDone

(* Whatever the cluster, the watcher and the health checks do, the forward *)
(* goes through the life that superviseSingle promises.                    *)
ImplementsSupervision == Supervisor!Spec

Serviceable == \E p \in Pod : pods[p] = "ready"

(* Self-healing: with unlimited restarts, once the cluster has settled on  *)
(* pods of which one is ready, the forward has a live connection again and *)
(* again, whether the ones before it were closed, fell silent or degraded, *)
(* and whatever termination events were lost.                              *)
SelfHealing ==
    (MaxRestarts = 0 /\ <>[][UNCHANGED pods]_pods /\ <>[]Serviceable)
        => []<>((tunnel # NoPod /\ ~silent) \/ ctxDone)
=============================================================================
