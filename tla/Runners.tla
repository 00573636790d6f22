------------------------------- MODULE Runners -------------------------------
(***************************************************************************)
(* The two other ways superviseSingle runs a forward: lazy.go binds the    *)
(* port and dials one tunnel when the first client arrives, isolated.go    *)
(* dials one tunnel for each client.  Clients come and go while pods       *)
(* terminate, connections break or degrade, the cached SPDY transport      *)
(* (transport_cache.go) goes bad, and the forward is removed or stopped.   *)
(* The restart limit and the backoff are those of Forward.                 *)
(***************************************************************************)
EXTENDS Naturals

CONSTANTS
    Pod,                 \* names of the pods the service selects
    NoPod,               \* the empty pod name, no connection
    Client,              \* TCP clients of the local port
    HealthCheckThreshold, \* m.healthCheckThreshold
    AgeLimited           \* m.maxConnectionAge > 0, which lazy.go does not read

ASSUME RunnersAssumption ==
    /\ NoPod \notin Pod
    /\ HealthCheckThreshold \in Nat \ {0}
    /\ AgeLimited \in BOOLEAN

VARIABLES
    mode,        \* "lazy" or "isolated", by the configuration
    pods,        \* the cluster: the phase of each pod
    pc,          \* control point of superviseSingle and of the runner
    state,       \* pf.state
    tunnelOpen,  \* pf.tunnelOpen
    currentPod,  \* pf.currentPod
    fwDone,      \* the runner's own fwCtx is cancelled
    failCount,   \* consecutive failed health checks of isolatedSupervise
    tunnel,      \* the pod at the other end of lazy's spdyConn, NoPod if nil
    link,        \* what has become of spdyConn: "nil", "open", "degraded" (no
                 \* stream can be created on it) or "closed"
    transport,   \* the cached transport: "none", "good" or "bad"
    client,      \* what happens to each client's connection
    cpod,        \* the handler's podName
    conn,        \* the pod at the other end of the connection that serves it
    orphan,      \* the runner that accepted the client has returned
    ctxDone,     \* the manager context has been cancelled
    calm         \* nothing fails any more that could succeed

statusVars  == <<state, tunnelOpen, currentPod>>
tunnelVars  == <<tunnel, link>>
handlerVars == <<cpod, conn, orphan>>
stopVars    == <<ctxDone, calm>>

vars == <<mode, pods, pc, statusVars, fwDone, failCount, tunnelVars,
          transport, client, handlerVars, stopVars>>

Dialling == {"resolving", "publish", "dial"}

Init ==
    /\ mode \in {"lazy", "isolated"}
    /\ pods \in [Pod -> {"absent", "ready"}]
    /\ pc = "launch"
    /\ state = "starting"
    /\ currentPod = NoPod
    /\ tunnel = NoPod
    /\ failCount = 0
    /\ transport = "none"
    /\ client = [c \in Client |-> "idle"]
    /\ cpod = [c \in Client |-> NoPod]
    /\ conn = [c \in Client |-> NoPod]
    /\ orphan = [c \in Client |-> FALSE]
    /\ tunnelOpen = FALSE
    /\ fwDone = FALSE
    /\ link = "nil"
    /\ ctxDone = FALSE
    /\ calm = FALSE

-----------------------------------------------------------------------------
(* The cluster, the API server and the clients, which are external.  When  *)
(* the cluster has settled with a ready pod there may come a time from     *)
(* which on no call fails that could succeed.                              *)

Settle ==
    /\ ~calm /\ link # "degraded"
    /\ \E p \in Pod : pods[p] = "ready"
    /\ calm' = TRUE
    /\ UNCHANGED <<mode, pods, pc, statusVars, fwDone, failCount, tunnelVars,
                   transport, client, handlerVars, ctxDone>>

PodChange(p, from, to) ==
    /\ pods[p] = from
    /\ pods' = [pods EXCEPT ![p] = to]
    /\ UNCHANGED <<mode, pc, statusVars, fwDone, failCount, tunnelVars,
                   transport, client, handlerVars, stopVars>>

PodReady(p) == ~calm /\ PodChange(p, "absent", "ready")
PodTerminates(p) == ~calm /\ PodChange(p, "ready", "terminating")
PodGone(p) == PodChange(p, "terminating", "absent")

Open == link \in {"open", "degraded"}

(* lazy's tunnel breaks, and with it all that it carries. *)
TunnelCloses(p) ==
    /\ tunnel = p /\ Open
    /\ calm => pods[p] # "ready"
    /\ link' = "closed"
    /\ conn' = [c \in Client |-> IF orphan[c] THEN conn[c] ELSE NoPod]
    /\ UNCHANGED <<mode, pods, pc, statusVars, fwDone, failCount, tunnel,
                   transport, client, cpod, orphan, stopVars>>

(* It stays open but its streams can no longer be created. *)
TunnelDegrades ==
    /\ ~calm
    /\ link = "open"
    /\ link' = "degraded"
    /\ UNCHANGED <<mode, pods, pc, statusVars, fwDone, failCount, tunnel,
                   transport, client, handlerVars, stopVars>>

TransportBreaks ==
    /\ ~calm
    /\ transport = "good"
    /\ transport' = "bad"
    /\ UNCHANGED <<mode, pods, pc, statusVars, fwDone, failCount, tunnelVars,
                   client, handlerVars, stopVars>>

Listening == pc \in {"serve", "dialling"}

(* A client connects to the bound port; the health check's probe of the    *)
(* isolated runner's own port is one too.                                  *)
Connect(c) ==
    /\ Listening
    /\ client[c] = "idle"
    /\ client' = [client EXCEPT ![c] = "queued"]
    /\ UNCHANGED <<mode, pods, pc, statusVars, fwDone, failCount, tunnelVars,
                   transport, handlerVars, stopVars>>

-----------------------------------------------------------------------------
(* resolvePod, on the pods that are Running and not terminating. *)
Candidates == {p \in Pod : pods[p] = "ready"}

-----------------------------------------------------------------------------
(* The runner up to its accept loop *)

FwDone == fwDone \/ ctxDone

(* superviseSingle begins an attempt and the runner publishes its cancel. *)
Launch ==
    /\ pc = "launch"
    /\ pc' = IF mode = "lazy" THEN "bind" ELSE "resolve"
    /\ state' = "starting"
    /\ UNCHANGED <<mode, pods, tunnelOpen, currentPod, fwDone, failCount,
                   tunnelVars, transport, client, handlerVars, stopVars>>

(* The runner returns: its listener, its fwCtx and its variables are gone. *)
(* The connection spdyConn held is not closed: it goes on carrying (conn)  *)
(* the clients accepted, which end on their own, and no later runner knows *)
(* of it.                                                                  *)
Return ==
    /\ pc' = "returned"
    /\ fwDone' = FALSE
    /\ failCount' = 0
    /\ tunnel' = NoPod
    /\ link' = "nil"
    /\ orphan' = [c \in Client |-> client'[c] # "idle"]
    /\ UNCHANGED <<mode, pods, statusVars, stopVars>>

Unqueued == [c \in Client |-> IF client[c] = "queued" THEN "idle" ELSE client[c]]

(* resolvePod or the listen failed. *)
StartFails ==
    /\ pc \in {"resolve", "bind"}
    /\ calm => ctxDone
    /\ client' = Unqueued
    /\ Return
    /\ UNCHANGED <<transport, cpod, conn>>

StartResolved ==
    /\ pc = "resolve"
    /\ ~ctxDone
    /\ currentPod' \in Candidates
    /\ pc' = "bind"
    /\ UNCHANGED <<mode, pods, state, tunnelOpen, fwDone, failCount,
                   tunnelVars, transport, client, handlerVars, stopVars>>

Bind ==
    /\ pc = "bind"
    /\ pc' = "serve"
    /\ state' = IF mode = "lazy" THEN "waiting" ELSE "running"
    /\ tunnelOpen' = (mode # "lazy" /\ tunnelOpen)
    /\ UNCHANGED <<mode, pods, currentPod, fwDone, failCount, tunnelVars,
                   transport, client, handlerVars, stopVars>>

(* Accept fails because the context's end has closed the listener. *)
AcceptFails ==
    /\ pc = "serve"
    /\ FwDone
    /\ client' = Unqueued
    /\ Return
    /\ UNCHANGED <<transport, cpod, conn>>

(* superviseSingle: failed and tried again after the backoff, or stopped. *)
Retry ==
    /\ pc = "returned"
    /\ pc' = IF ctxDone THEN "done" ELSE "launch"
    /\ state' = IF ctxDone THEN "stopped" ELSE "failed"
    /\ UNCHANGED <<mode, pods, tunnelOpen, currentPod, fwDone, failCount,
                   tunnelVars, transport, client, handlerVars, stopVars>>

-----------------------------------------------------------------------------
(* Accepting a client *)

Handler(c, to) == client' = [client EXCEPT ![c] = to]

NeedsDial == ~Open

(* lazy: over the open tunnel, if a stream can be created on it... *)
LazyShare(c) ==
    /\ mode = "lazy" /\ pc = "serve" /\ client[c] = "queued"
    /\ ~NeedsDial
    /\ Handler(c, IF link = "degraded" THEN "idle" ELSE "relay")
    /\ conn' = [conn EXCEPT ![c] = IF link = "degraded" THEN NoPod ELSE tunnel]
    /\ UNCHANGED <<mode, pods, pc, statusVars, fwDone, failCount, tunnelVars,
                   transport, cpod, orphan, stopVars>>

(* Mutant: the report is left as it was until the dial has succeeded. *)
LazyDialKeepsReport(c) ==
    /\ mode = "lazy" /\ pc = "serve" /\ client[c] = "queued"
    /\ NeedsDial
    /\ pc' = "dialling"
    /\ Handler(c, "resolving")
    /\ tunnel' = NoPod
    /\ link' = "nil"
    /\ UNCHANGED <<mode, pods, statusVars, fwDone, failCount, transport,
                   handlerVars, stopVars>>

(* ... or over one that is dialled while the accept loop waits.  One that  *)
(* has closed is noticed only here.                                        *)
LazyDial(c) ==
    /\ mode = "lazy" /\ pc = "serve" /\ client[c] = "queued"
    /\ NeedsDial
    /\ pc' = "dialling"
    /\ Handler(c, "resolving")
    /\ tunnel' = NoPod
    /\ link' = "nil"
    /\ state' = "waiting"
    /\ tunnelOpen' = FALSE
    /\ UNCHANGED <<mode, pods, currentPod, fwDone, failCount, transport,
                   handlerVars, stopVars>>

(* isolated: a handler of its own, to the current pod if there is one. *)
IsolatedAccept(c) ==
    /\ mode = "isolated" /\ pc = "serve" /\ client[c] = "queued"
    /\ Handler(c, IF currentPod = NoPod THEN "resolving" ELSE "dial")
    /\ cpod' = [cpod EXCEPT ![c] = currentPod]
    /\ UNCHANGED <<mode, pods, pc, statusVars, fwDone, failCount, tunnelVars,
                   transport, conn, orphan, stopVars>>

-----------------------------------------------------------------------------
(* Dialling for a client, by lazy's dialTunnel or isolatedHandleConn *)

Cancelled(c) == orphan[c] \/ FwDone

Resolved(c) ==
    /\ client[c] = "resolving"
    /\ ~Cancelled(c)
    /\ \E p \in Candidates : cpod' = [cpod EXCEPT ![c] = p]
    /\ Handler(c, "publish")
    /\ UNCHANGED <<mode, pods, pc, statusVars, fwDone, failCount, tunnelVars,
                   transport, conn, orphan, stopVars>>

(* An isolated handler leaves a pod set in the meantime alone. *)
Publish(c) ==
    /\ client[c] = "publish"
    /\ currentPod' = IF mode = "lazy" \/ currentPod = NoPod THEN cpod[c]
                     ELSE currentPod
    /\ Handler(c, "dial")
    /\ UNCHANGED <<mode, pods, pc, state, tunnelOpen, fwDone, failCount,
                   tunnelVars, transport, handlerVars, stopVars>>

(* getOrCreate and Dial: through the cached transport or, when there is    *)
(* none or it has expired, a fresh one.                                    *)
DialSucceeds(c) ==
    /\ client[c] = "dial"
    /\ transport' = "good"
    /\ pods[cpod[c]] # "absent"
    /\ Handler(c, "relay")
    /\ conn' = [conn EXCEPT ![c] = cpod[c]]
    /\ \/ /\ mode = "lazy"
          /\ tunnel' = cpod[c]
          /\ link' = "open"
          /\ state' = "running"
          /\ tunnelOpen' = TRUE
          /\ pc' = "serve"
       \/ /\ mode = "isolated"
          /\ UNCHANGED <<pc, state, tunnelOpen, tunnelVars>>
    /\ cpod' = [cpod EXCEPT ![c] = NoPod]
    /\ UNCHANGED <<mode, pods, currentPod, fwDone, failCount, orphan, stopVars>>

(* Mutant: the entry that failed stays cached. *)
EvictNothing == transport

Evict == "none"

Forget(c) ==
    /\ cpod' = [cpod EXCEPT ![c] = NoPod]
    /\ UNCHANGED conn

(* A resolution with nothing to find or under a cancelled context, and a   *)
(* dial of an absent pod or through a bad transport, cannot succeed.       *)
MayFail(c) ==
    \/ ~calm
    \/ client[c] = "resolving" /\ (Cancelled(c) \/ Candidates = {})
    \/ client[c] = "dial" /\ (transport = "bad" \/ pods[cpod[c]] = "absent")

(* lazy: whatever fails, the client is dropped and the runner returns. *)
LazyDialFails(c) ==
    /\ mode = "lazy"
    /\ client[c] \in {"resolving", "dial"}
    /\ MayFail(c)
    /\ client' = [Unqueued EXCEPT ![c] = "idle"]
    /\ Forget(c)
    /\ transport' = Evict
    /\ Return

(* Mutant: a client's failure cancels the runner. *)
IsolatedDialFailsAll(c) ==
    /\ mode = "isolated"
    /\ client[c] \in {"resolving", "dial"}
    /\ MayFail(c)
    /\ Handler(c, "idle")
    /\ Forget(c)
    /\ transport' = IF client[c] = "dial" THEN Evict ELSE transport
    /\ orphan' = [orphan EXCEPT ![c] = FALSE]
    /\ fwDone' = TRUE
    /\ UNCHANGED <<mode, pods, pc, statusVars, failCount, tunnelVars,
                   stopVars>>

(* isolated: the client is dropped; a failed dial evicts the transport. *)
IsolatedDialFails(c) ==
    /\ mode = "isolated"
    /\ client[c] \in {"resolving", "dial"}
    /\ MayFail(c)
    /\ Handler(c, "idle")
    /\ Forget(c)
    /\ transport' = IF client[c] = "dial" THEN Evict ELSE transport
    /\ orphan' = [orphan EXCEPT ![c] = FALSE]
    /\ UNCHANGED <<mode, pods, pc, statusVars, fwDone, failCount, tunnelVars,
                   stopVars>>

Broken(c) == conn[c] \notin {p \in Pod : pods[p] # "absent"}

(* Mutant: the relay watches its connection and not the context. *)
MustEndBrokenOnly(c) == Broken(c)

(* spdyForwardConn returns for a broken connection or the context's end... *)
MustEnd(c) == Broken(c) \/ Cancelled(c)

RelayEnds(c) ==
    /\ client[c] = "relay"
    /\ MustEnd(c)
    /\ Handler(c, "idle")
    /\ conn' = [conn EXCEPT ![c] = NoPod]
    /\ orphan' = [orphan EXCEPT ![c] = FALSE]
    /\ UNCHANGED <<mode, pods, pc, statusVars, fwDone, failCount, tunnelVars,
                   transport, cpod, stopVars>>

(* ... and when either end has finished. *)
ClientFinishes(c) ==
    /\ client[c] = "relay"
    /\ ~MustEnd(c)
    /\ Handler(c, "idle")
    /\ conn' = [conn EXCEPT ![c] = NoPod]
    /\ orphan' = [orphan EXCEPT ![c] = FALSE]
    /\ UNCHANGED <<mode, pods, pc, statusVars, fwDone, failCount, tunnelVars,
                   transport, cpod, stopVars>>

-----------------------------------------------------------------------------
(* isolatedSupervise, beside the accept loop *)

Supervising == mode = "isolated" /\ pc = "serve" /\ ~FwDone

SupAged ==
    /\ Supervising
    /\ AgeLimited
    /\ currentPod' = NoPod
    /\ UNCHANGED <<mode, pods, pc, state, tunnelOpen, fwDone, failCount,
                   tunnelVars, transport, client, handlerVars, stopVars>>

(* handlePodEvents has reported that the current pod terminates (Forward   *)
(* has the queues in between); a resolution that fails keeps the pod.      *)
SupPreempt ==
    /\ Supervising
    /\ currentPod # NoPod
    /\ pods[currentPod] = "terminating"
    /\ currentPod' \in {currentPod} \cup Candidates
    /\ UNCHANGED <<mode, pods, pc, state, tunnelOpen, fwDone, failCount,
                   tunnelVars, transport, client, handlerVars, stopVars>>

SupProbe(open) ==
    /\ Supervising
    /\ calm => open
    /\ LET exhausted == ~open /\ failCount + 1 >= HealthCheckThreshold IN
          /\ failCount' = IF open \/ exhausted THEN 0 ELSE failCount + 1
          /\ fwDone' = exhausted
    /\ UNCHANGED <<mode, pods, pc, statusVars, tunnelVars,
                   transport, client, handlerVars, stopVars>>

-----------------------------------------------------------------------------
(* removeSingle on pf, whose supervisor goes on as in Manager, and the     *)
(* cancellation of the manager's context.                                  *)

MarkStopped ==
    /\ ~calm /\ ~ctxDone
    /\ state' = "stopped"
    /\ fwDone' = (fwDone \/ pc \in {"resolve", "bind", "serve", "dialling"})
    /\ UNCHANGED <<mode, pods, pc, tunnelOpen, currentPod, failCount,
                   tunnelVars, transport, client, handlerVars, ctxDone, calm>>

CancelContext ==
    /\ ~ctxDone
    /\ ctxDone' = TRUE
    /\ UNCHANGED <<mode, pods, pc, statusVars, fwDone, failCount, tunnelVars,
                   transport, client, handlerVars, calm>>

-----------------------------------------------------------------------------

Environment ==
    \/ \E p \in Pod :
          PodReady(p) \/ PodTerminates(p) \/ PodGone(p) \/ TunnelCloses(p)
    \/ Settle
    \/ TunnelDegrades
    \/ TransportBreaks
    \/ \E c \in Client : ClientFinishes(c)

Runner ==
    \/ Launch \/ StartFails \/ StartResolved \/ Bind \/ AcceptFails \/ Retry

Accept(c) == LazyShare(c) \/ LazyDial(c) \/ IsolatedAccept(c)

Handle(c) ==
    \/ Resolved(c) \/ Publish(c) \/ DialSucceeds(c)
    \/ LazyDialFails(c) \/ IsolatedDialFails(c) \/ RelayEnds(c)

Supervise ==
    \/ SupAged \/ SupPreempt
    \/ \E open \in BOOLEAN : SupProbe(open)

Next ==
    \/ Environment
    \/ Runner
    \/ \E c \in Client : Connect(c) \/ Accept(c) \/ Handle(c)
    \/ Supervise
    \/ MarkStopped
    \/ CancelContext

Spec == Init /\ [][Next]_vars

(* Goroutines run, calls return and timers fire; clients keep coming back; *)
(* a terminating pod goes and a connection to a pod that is gone breaks.   *)
Fairness ==
    /\ WF_vars(Runner)
    /\ WF_vars(SupAged)
    /\ WF_vars(\E p \in Pod : PodGone(p))
    /\ \A p \in Pod : WF_vars(pods[p] = "absent" /\ TunnelCloses(p))
    /\ \A c \in Client :
          /\ WF_vars(Connect(c))
          /\ WF_vars(Accept(c))
          /\ WF_vars(Handle(c))

FairSpec == Spec /\ Fairness

-----------------------------------------------------------------------------
(* Properties *)

Relaying(c) == client[c] = "relay" /\ ~Broken(c) /\ ~Cancelled(c)

(* What status shows of a lazy forward that listens: its tunnel is open    *)
(* while the runner holds a connection.  The connection may have closed    *)
(* unnoticed, but only until a client comes: while one is dialled for the  *)
(* report has been corrected, and no report outlives its runner's bind.    *)
ReportFollowsTunnel ==
    mode = "lazy" /\ Listening =>
        /\ tunnelOpen <=> link # "nil"
        /\ state = "waiting" => ~tunnelOpen
        /\ state = "running" => tunnelOpen
        /\ \A c \in Client : client[c] \in Dialling => ~tunnelOpen

(* "individual client failures cause that client's connection to be        *)
(* dropped": a client that cannot be connected, in either mode, takes no   *)
(* client with it that is being served.                                    *)
FailedDialHurtsNobody ==
    [][(\E d \in Client : client[d] \in Dialling /\ client'[d] = "idle")
          => \A c \in Client : Relaying(c) => Relaying(c)']_vars

(* Once the manager's context is cancelled the runner returns, and every   *)
(* client it accepted, dialling or being relayed, is closed.               *)
StopEndsClients ==
    ctxDone ~> pc = "done" /\ \A c \in Client : client[c] = "idle"

(* Once the pods have settled, one of them ready, clients are served again *)
(* and again, whatever pod, transport or tunnel was cached before: in lazy *)
(* mode unless a tunnel stays degraded, which its runner does not notice,  *)
(* and in isolated mode under a max_connection_age, without which nothing  *)
(* makes it forget a pod whose termination it missed.                      *)
ClientsServed ==
    mode = "lazy" \/ AgeLimited =>
        (calm ~> ctxDone \/ \E c \in Client : Relaying(c))
=============================================================================
