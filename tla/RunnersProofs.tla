---------------------------- MODULE RunnersProofs ----------------------------
(***************************************************************************)
(* Proofs about Runners for any clients and pods: a lazy forward is        *)
(* reported as its tunnel is, and a client that cannot be connected takes  *)
(* no served client with it.                                               *)
(***************************************************************************)
EXTENDS Runners, TLAPS

RunnersTypeOK ==
    /\ mode \in {"lazy", "isolated"}
    /\ pc \in {"launch", "resolve", "bind", "serve", "dialling", "returned", "done"}
    /\ client \in [Client -> {"idle", "queued", "resolving", "publish", "dial", "relay"}]
    /\ cpod \in [Client -> Pod \cup {NoPod}]
    /\ conn \in [Client -> Pod \cup {NoPod}]
    /\ orphan \in [Client -> BOOLEAN]
    /\ tunnel \in Pod \cup {NoPod}
    /\ link \in {"nil", "open", "degraded", "closed"}
    /\ tunnelOpen \in BOOLEAN
    /\ currentPod \in Pod \cup {NoPod}

(* lazy dials for one client at a time, and its accept loop waits. *)
OneDial ==
    mode = "lazy" =>
        \A c \in Client : client[c] \in Dialling =>
            /\ pc = "dialling"
            /\ \A d \in Client : client[d] \in Dialling => d = c

(* lazy holds a connection in its accept loop only, and while it listens   *)
(* what it reports follows what it holds.                                  *)
TunnelServes ==
    mode = "lazy" =>
        /\ link # "nil" => pc = "serve"
        /\ link = "nil" => tunnel = NoPod
        /\ Listening => (tunnelOpen <=> link # "nil")
        /\ Listening /\ state = "waiting" => ~tunnelOpen
        /\ Listening /\ state = "running" => tunnelOpen

(* What lazy relays goes over its one connection, unless that has closed or *)
(* the runner that accepted the client has returned.                       *)
SharedTunnel ==
    mode = "lazy" =>
        \A c \in Client : client[c] = "relay" /\ ~orphan[c] =>
            conn[c] = NoPod \/ (Open /\ conn[c] = tunnel)

RunnersInv == RunnersTypeOK /\ OneDial /\ TunnelServes /\ SharedTunnel

ClientSteps(c) ==
    Connect(c) \/ Accept(c) \/ Resolved(c) \/ Publish(c) \/ DialSucceeds(c)
        \/ RelayEnds(c) \/ ClientFinishes(c) \/ IsolatedDialFails(c)

(* Every step is the cluster's, the supervisor's, a client's, the runner's *)
(* own or one by which the runner returns.                                 *)
LEMMA NextCases ==
    ASSUME Next
    PROVE  \/ \E p \in Pod : PodReady(p) \/ PodTerminates(p) \/ PodGone(p)
           \/ \E p \in Pod : TunnelCloses(p)
           \/ Settle \/ TunnelDegrades \/ TransportBreaks
           \/ Supervise \/ MarkStopped \/ CancelContext
           \/ Launch \/ StartResolved \/ Bind \/ Retry
           \/ StartFails \/ AcceptFails \/ \E c \in Client : LazyDialFails(c)
           \/ \E c \in Client : ClientSteps(c)
BY DEF Next, Environment, Runner, Handle, ClientSteps

(* The forward starts with no client, no connection and nothing reported. *)
LEMMA RunnersInit == Init => RunnersInv
<1> SUFFICES ASSUME Init PROVE RunnersInv
  OBVIOUS
<1>1. RunnersTypeOK
  BY DEF Init, RunnersTypeOK
<1>2. QED
  BY <1>1 DEF Init, RunnersInv, OneDial, TunnelServes, SharedTunnel, Open,
              Listening, Dialling

(* The cluster and what runs beside the accept loop leave the clients and  *)
(* the connection alone, or close the connection.                          *)
LEMMA OutsideKeeps ==
    ASSUME RunnersInv,
           \/ \E p \in Pod : PodReady(p) \/ PodTerminates(p) \/ PodGone(p)
           \/ \E p \in Pod : TunnelCloses(p)
           \/ Settle \/ TunnelDegrades \/ TransportBreaks
           \/ Supervise \/ MarkStopped \/ CancelContext
    PROVE  RunnersInv'
<1> USE DEF statusVars, tunnelVars, handlerVars, stopVars
<1>1. ASSUME NEW p \in Pod, TunnelCloses(p) PROVE RunnersInv'
  <2>1. RunnersTypeOK'
    BY <1>1 DEF RunnersInv, RunnersTypeOK, TunnelCloses
  <2>2. OneDial' /\ TunnelServes'
    BY <1>1 DEF RunnersInv, RunnersTypeOK, OneDial, TunnelServes, TunnelCloses,
                Open, Listening
  <2>3. SharedTunnel'
    <3> SUFFICES ASSUME mode = "lazy", NEW c \in Client, client[c] = "relay", ~orphan[c]
                 PROVE  conn'[c] = NoPod
      BY <1>1 DEF SharedTunnel, TunnelCloses
    <3> QED
      BY <1>1 DEF TunnelCloses
  <2>4. QED
    BY <2>1, <2>2, <2>3 DEF RunnersInv
<1>2. CASE \/ \E p \in Pod : PodReady(p) \/ PodTerminates(p) \/ PodGone(p)
           \/ Settle \/ TransportBreaks \/ CancelContext
  <2>1. UNCHANGED <<mode, pc, state, tunnelOpen, currentPod, tunnelVars, client, cpod, conn,
                    orphan>>
    BY <1>2 DEF PodReady, PodTerminates, PodGone, PodChange,
                Settle, TransportBreaks, CancelContext
  <2>2. QED
    BY <2>1 DEF RunnersInv, RunnersTypeOK, OneDial, TunnelServes, SharedTunnel,
                Open, Listening
<1>3. CASE Supervise \/ MarkStopped
  <2>1. /\ UNCHANGED <<mode, pc, tunnelOpen, tunnelVars, client, cpod, conn, orphan>>
        /\ currentPod' \in Pod \cup {NoPod}
        /\ state' \in {state, "stopped"}
    BY <1>3 DEF Supervise, SupAged, SupPreempt, SupProbe,
                MarkStopped, Candidates,
                RunnersInv, RunnersTypeOK
  <2>2. QED
    BY <2>1 DEF RunnersInv, RunnersTypeOK, OneDial, TunnelServes, SharedTunnel,
                Open, Listening
<1>4. CASE TunnelDegrades
  BY <1>4 DEF TunnelDegrades, RunnersInv, RunnersTypeOK, OneDial, TunnelServes,
              SharedTunnel, Open, Listening
<1>5. QED
  BY <1>1, <1>2, <1>3, <1>4

(* The runner starts without a connection, since it returned without one. *)
LEMMA RunnerKeeps ==
    ASSUME RunnersInv, Launch \/ StartResolved \/ Bind \/ Retry
    PROVE  RunnersInv'
<1>1. /\ UNCHANGED <<mode, tunnelVars, client, cpod, conn, orphan>>
      /\ currentPod' \in Pod \cup {NoPod}
      /\ pc \in {"launch", "resolve", "bind", "returned"}
      /\ pc' \in {"bind", "resolve", "serve", "launch", "done"}
      /\ tunnelOpen' \in BOOLEAN
      /\ mode = "lazy" /\ pc' = "serve" => ~tunnelOpen' /\ state' = "waiting"
  BY DEF Launch, StartResolved, Bind, Retry, RunnersInv, RunnersTypeOK,
         Candidates, tunnelVars,
         handlerVars
<1>2. RunnersTypeOK' /\ OneDial'
  BY <1>1 DEF RunnersInv, RunnersTypeOK, OneDial, tunnelVars, Dialling
<1>3. TunnelServes'
  BY <1>1 DEF RunnersInv, RunnersTypeOK, OneDial, TunnelServes, tunnelVars,
              Listening
<1>4. SharedTunnel'
  BY <1>1 DEF RunnersInv, SharedTunnel, tunnelVars, Open
<1>5. QED
  BY <1>2, <1>3, <1>4 DEF RunnersInv

(* When the runner returns no client is being dialled for in lazy mode, and *)
(* those it leaves behind are orphans.                                     *)
LEMMA ReturnKeeps ==
    ASSUME RunnersInv, StartFails \/ AcceptFails \/ \E c \in Client : LazyDialFails(c)
    PROVE  RunnersInv'
<1>1. /\ UNCHANGED <<mode, currentPod, conn, tunnelOpen>>
      /\ pc' = "returned"
      /\ tunnel' = NoPod /\ link' = "nil"
      /\ cpod' \in [Client -> Pod \cup {NoPod}]
      /\ orphan' = [c \in Client |-> client'[c] # "idle"]
  BY DEF StartFails, AcceptFails, LazyDialFails, Return, Forget,
         RunnersInv, RunnersTypeOK, statusVars
<1>2. /\ client' \in [Client -> {"idle", "queued", "resolving", "publish", "dial", "relay"}]
      /\ \A c \in Client : client'[c] \in Dialling => client[c] \in Dialling
      /\ mode = "lazy" => \A c \in Client : client'[c] \notin Dialling
  <2>1. Unqueued \in [Client -> {"idle", "queued", "resolving", "publish", "dial", "relay"}]
    BY DEF Unqueued, RunnersInv, RunnersTypeOK
  <2>2. CASE StartFails \/ AcceptFails
    BY <2>1, <2>2 DEF StartFails, AcceptFails, Unqueued, RunnersInv,
                      RunnersTypeOK, OneDial, Dialling
  <2>3. ASSUME NEW c \in Client, LazyDialFails(c)
        PROVE  /\ client' \in [Client -> {"idle", "queued", "resolving", "publish",
                                          "dial", "relay"}]
               /\ \A d \in Client : client'[d] \in Dialling => client[d] \in Dialling
               /\ mode = "lazy" => \A d \in Client : client'[d] \notin Dialling
    BY <2>1, <2>3 DEF LazyDialFails, Unqueued, RunnersInv, RunnersTypeOK,
                      OneDial, Dialling
  <2>4. QED
    BY <2>2, <2>3
<1>3. RunnersTypeOK'
  BY <1>1, <1>2 DEF RunnersInv, RunnersTypeOK
<1>4. OneDial' /\ TunnelServes'
  BY <1>1, <1>2 DEF OneDial, TunnelServes, Listening
<1>5. SharedTunnel'
  BY <1>1, <1>2 DEF SharedTunnel
<1>6. QED
  BY <1>3, <1>4, <1>5 DEF RunnersInv

(* A client's connection is accepted, dialled for, relayed and closed. *)
LEMMA ClientKeeps ==
    ASSUME RunnersInv, NEW c \in Client, ClientSteps(c)
    PROVE  RunnersInv'
<1> USE DEF statusVars, tunnelVars, handlerVars, stopVars, Handler,
            Dialling
<1>1. RunnersTypeOK'
  <2>1. CASE Connect(c) \/ Accept(c)
    BY <2>1 DEF Connect, Accept, LazyShare, LazyDial,
                IsolatedAccept, RunnersInv, RunnersTypeOK
  <2>2. CASE Resolved(c) \/ Publish(c)
    BY <2>2 DEF Resolved, Publish, Candidates, RunnersInv, RunnersTypeOK
  <2>3. CASE DialSucceeds(c)
    BY <2>3 DEF DialSucceeds, RunnersInv, RunnersTypeOK
  <2>4. CASE RelayEnds(c) \/ ClientFinishes(c) \/ IsolatedDialFails(c)
    BY <2>4 DEF RelayEnds, ClientFinishes, IsolatedDialFails, Forget,
                RunnersInv, RunnersTypeOK
  <2>5. QED
    BY <2>1, <2>2, <2>3, <2>4 DEF ClientSteps
<1>2. CASE Connect(c) \/ IsolatedAccept(c) \/ IsolatedDialFails(c)
  BY <1>1, <1>2 DEF Connect, IsolatedAccept, IsolatedDialFails, Forget,
                    RunnersInv, RunnersTypeOK, OneDial, TunnelServes,
                    SharedTunnel, Open, Listening
<1>3. CASE LazyShare(c) \/ RelayEnds(c) \/ ClientFinishes(c)
  BY <1>1, <1>3 DEF LazyShare, RelayEnds, ClientFinishes, NeedsDial,
                    RunnersInv, RunnersTypeOK, OneDial, TunnelServes,
                    SharedTunnel, Open, Listening
<1>4. CASE LazyDial(c)
  BY <1>1, <1>4 DEF LazyDial, NeedsDial, RunnersInv, RunnersTypeOK, OneDial,
                    TunnelServes, SharedTunnel, Open, Listening
<1>5. CASE Resolved(c) \/ Publish(c)
  BY <1>1, <1>5 DEF Resolved, Publish, RunnersInv, RunnersTypeOK, OneDial,
                    TunnelServes, SharedTunnel, Open, Listening
<1>6. CASE DialSucceeds(c)
  <2>1. CASE mode = "isolated"
    BY <1>1, <1>6, <2>1 DEF DialSucceeds, RunnersInv, RunnersTypeOK, OneDial,
                            TunnelServes, SharedTunnel
  <2>2. CASE mode = "lazy"
    <3>1. OneDial' /\ TunnelServes'
      BY <1>6, <2>2 DEF DialSucceeds, RunnersInv, RunnersTypeOK, OneDial,
                        TunnelServes, Listening
    <3>2. link = "nil"
      BY <1>6, <2>2 DEF DialSucceeds, RunnersInv, RunnersTypeOK, OneDial,
                        TunnelServes
    <3>3. SharedTunnel'
      <4>1. ASSUME NEW d \in Client, client'[d] = "relay", ~orphan'[d]
            PROVE  conn'[d] = NoPod \/ conn'[d] = tunnel'
        <5>1. CASE d = c
          BY <1>6, <2>2, <5>1 DEF DialSucceeds, RunnersInv, RunnersTypeOK
        <5>2. CASE d # c
          BY <1>6, <2>2, <3>2, <4>1, <5>2 DEF DialSucceeds, RunnersInv,
                                              RunnersTypeOK, SharedTunnel, Open
        <5>3. QED
          BY <5>1, <5>2
      <4>2. link' = "open"
        BY <1>6, <2>2 DEF DialSucceeds
      <4>3. QED
        BY <4>1, <4>2 DEF SharedTunnel, Open
    <3>4. QED
      BY <1>1, <3>1, <3>3 DEF RunnersInv
  <2>3. QED
    BY <2>1, <2>2 DEF RunnersInv, RunnersTypeOK
<1>7. QED
  BY <1>2, <1>3, <1>4, <1>5, <1>6 DEF ClientSteps, Accept

LEMMA RunnersNext == RunnersInv /\ [Next]_vars => RunnersInv'
<1> SUFFICES ASSUME RunnersInv, [Next]_vars PROVE RunnersInv'
  OBVIOUS
<1>1. CASE UNCHANGED vars
  BY <1>1 DEF vars, statusVars, tunnelVars, handlerVars, RunnersInv,
              RunnersTypeOK, OneDial,
              TunnelServes, SharedTunnel, Open, Listening
<1>2. CASE Next
  BY <1>2, NextCases, OutsideKeeps, RunnerKeeps, ReturnKeeps, ClientKeeps
<1>3. QED
  BY <1>1, <1>2

LEMMA RunnersInvariance == Spec => []RunnersInv
  BY RunnersInit, RunnersNext, PTL DEF Spec

(* While a lazy forward listens it is reported open as long as its runner  *)
(* holds a connection; one that has closed unnoticed is no longer reported *)
(* once a client is dialled for, and none is once another runner listens,  *)
(* whoever dials, fails, returns or is removed in between.                 *)
THEOREM ReportIsCorrected == Spec => []ReportFollowsTunnel
<1>1. RunnersInv => ReportFollowsTunnel
  BY DEF RunnersInv, OneDial, TunnelServes, ReportFollowsTunnel, Dialling
<1>2. QED
  BY <1>1, RunnersInvariance, PTL

(* The step in which a dial fails: in isolated mode it touches its own     *)
(* client only, in lazy mode there is no connection to serve another with. *)
LEMMA FailedDialStep ==
    ASSUME RunnersInv, Next, NEW d \in Client, client[d] \in Dialling, client'[d] = "idle",
           NEW c \in Client, Relaying(c)
    PROVE  Relaying(c)'
<1> USE DEF Dialling, Handler, statusVars, tunnelVars, handlerVars,
            stopVars
<1>1. ASSUME NEW b \in Client, LazyDialFails(b) PROVE FALSE
  <2>1. tunnel = NoPod
    BY <1>1 DEF LazyDialFails, RunnersInv, OneDial, TunnelServes
  <2>2. conn[c] = NoPod
    BY <1>1, <2>1 DEF LazyDialFails, RunnersInv, SharedTunnel, Relaying,
                      Cancelled
  <2>3. QED
    BY <2>2, RunnersAssumption DEF Relaying, Broken
<1>2. ASSUME NEW b \in Client, IsolatedDialFails(b) PROVE Relaying(c)'
  BY <1>2 DEF IsolatedDialFails, Forget, RunnersInv, RunnersTypeOK,
              Relaying, Broken, Cancelled, FwDone
<1>3. CASE StartFails \/ AcceptFails
  BY <1>3 DEF StartFails, AcceptFails, Unqueued, RunnersInv, RunnersTypeOK
<1>4. ASSUME NEW b \in Client, ClientSteps(b), ~IsolatedDialFails(b) PROVE FALSE
  BY <1>4 DEF ClientSteps, Connect, Accept, LazyShare, LazyDial,
              IsolatedAccept,
              Resolved, Publish, DialSucceeds, RelayEnds,
              ClientFinishes, RunnersInv, RunnersTypeOK
<1>5. CASE \/ \E p \in Pod : PodReady(p) \/ PodTerminates(p) \/ PodGone(p)
           \/ \E p \in Pod : TunnelCloses(p)
           \/ Settle \/ TunnelDegrades \/ TransportBreaks
           \/ Supervise \/ MarkStopped \/ CancelContext
           \/ Launch \/ StartResolved \/ Bind \/ Retry
  BY <1>5 DEF PodReady, PodTerminates, PodGone, PodChange,
              TunnelCloses, Settle,
              TunnelDegrades, TransportBreaks, Supervise, SupAged,
              SupPreempt, SupProbe,
              MarkStopped, CancelContext, Launch, StartResolved,
              Bind, Retry
<1>6. QED
  BY <1>1, <1>2, <1>3, <1>4, <1>5, NextCases

(* "Individual client failures cause that client's connection to be        *)
(* dropped": no step in which a client fails to be connected ends another  *)
(* that is being served.                                                   *)
THEOREM FailedDialIsLocal == Spec => FailedDialHurtsNobody
<1>1. ASSUME RunnersInv, [Next]_vars
      PROVE  [(\E d \in Client : client[d] \in Dialling /\ client'[d] = "idle")
                  => \A c \in Client : Relaying(c) => Relaying(c)']_vars
  BY <1>1, FailedDialStep
<1>2. QED
  BY <1>1, RunnersInvariance, PTL DEF Spec, FailedDialHurtsNobody
=============================================================================
