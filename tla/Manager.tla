------------------------------- MODULE Manager -------------------------------
(***************************************************************************)
(* The proxy manager of internal/proxy/manager.go: the directory of port   *)
(* forwards (m.forwards, m.order, m.children), the event loop that         *)
(* serialises AddService and RemoveService, the goroutines that resolve    *)
(* multi-port services and supervise single forwards, and Stop.            *)
(*                                                                         *)
(* One action is one critical section of m.mu or pf.mu, or one select.     *)
(* A portForward struct outlives its entry in m.forwards, because its      *)
(* supervisor goroutine keeps a pointer to it; structs are therefore       *)
(* numbered 1..MaxPf in allocation order and the directory maps a name to  *)
(* the number of the struct registered under it.                           *)
(***************************************************************************)
EXTENDS Naturals, SequencesExt

CONSTANTS
    Name,            \* names of services and of expanded children ("parent/port")
    Port,            \* local port numbers
    DynamicPort,     \* the ports the operating system may assign for local port 0
    Source,          \* svc.SourceConfig values: the configs that contribute services
    Native,          \* the empty SourceConfig, of the manager's own services
    Service,         \* the service configurations that callers may pass in
    Configured,      \* m.cfg.Services at Start
    ExternalChoices, \* the sets of names SetExternalForwards may install before Start
    Expansion,       \* Expansion[n]: the port lists resolveServicePorts may return for n
    Caller,          \* goroutines that call AddService and RemoveService
    MaxRestarts,     \* m.maxRestarts, 0 = unlimited
    RestartCap,      \* bound: pf.restarts saturates here
    MaxCalls,        \* bound: calls of AddService and RemoveService in a behaviour
    MaxPf,           \* bound: portForward structs allocated in a behaviour
    None             \* the absent value (nil pointer, missing map key)

Pf == 1..MaxPf

(* A child produced by the expansion of a multi-port service. *)
ResolvedPort == [name : Name, port : Port \cup {0}]

(* superviseMulti between its check of the reservation and the end of the  *)
(* registration: the next port to register, and the structs there were.    *)
Registration == [svc : Service, ports : Seq(ResolvedPort), next : Nat \ {0}, base : Nat]

Request == [op : {"add"}, arg : Service] \cup [op : {"remove"}, arg : Name]

ASSUME ConstantsAssumption ==
    /\ Port \subseteq Nat \ {0}
    /\ DynamicPort \subseteq Port
    /\ Native \in Source
    /\ Service \subseteq [name : Name, multi : BOOLEAN, port : Port \cup {0},
                          source : Source]
    /\ Configured \in Seq(Service)
    /\ ExternalChoices \subseteq SUBSET Name
    /\ Expansion \in [Name -> SUBSET Seq(ResolvedPort)]
    /\ MaxRestarts \in Nat
    /\ RestartCap \in Nat
    /\ RestartCap >= MaxRestarts
    /\ MaxCalls \in Nat
    /\ MaxPf \in Nat

(* A child is named after its parent, "parent/port".                       *)
ASSUME ChildAssumption ==
    \A n \in Name : \A ports \in Expansion[n] : \A i \in 1..Len(ports) : ports[i].name # n

ASSUME NoneAssumption ==
    /\ None \notin Pf
    /\ None \notin Name
    /\ None \notin Caller
    /\ None \notin Seq(Name)
    /\ None \notin Registration
    /\ None \notin Request
    /\ None \notin [op : {"add", "remove"}, name : Name]

VARIABLES
    forwards,    \* m.forwards: name -> struct, None when the key is missing
    order,       \* m.order
    children,    \* m.children: parent -> child names; None = no key, <<>> = nil slice
    external,    \* the keys of m.externalForwards
    registering, \* superviseMulti's registration loop, which holds m.mu; None outside it
    resolving,   \* superviseMulti goroutines still waiting for resolveServicePorts
    nPf,         \* number of portForward structs allocated so far
    svc,         \* pf.svc: name, static local port, parent; and pf.sourceConfig
    state,       \* pf.state
    restarts,    \* pf.restarts
    actualPort,  \* pf.actualPort
    sup,         \* control point of the goroutine running superviseSingle(pf)
    cancelled,   \* structs whose current attempt context fwCtx has been cancelled
    bound,       \* local port -> struct whose listener holds it
    loop,        \* control point of Start and its event loop
    booted,      \* configured services that Start has already handled
    serving,     \* the caller whose command the event loop is executing
    pending,     \* names doRemove still has to pass to removeSingle
    victim,      \* struct that removeSingle has unlinked and not yet cancelled
    removeErr,   \* doRemove's firstErr
    at,          \* control point of each caller
    req,         \* the command of each caller
    ret,         \* the result of each caller's last call
    calls,       \* calls made so far
    ctxDone,     \* the manager context has been cancelled
    stopMarked   \* Stop has run its loop over m.forwards

directory  == <<forwards, order, children>>
structs    == <<nPf, svc, state, restarts, actualPort>>
goroutines == <<sup, cancelled, bound>>
loopVars   == <<loop, booted, serving, pending, victim, removeErr>>
callerVars == <<at, req, ret, calls>>
multiVars  == <<registering, resolving>>
stopVars   == <<ctxDone, stopMarked>>

vars == <<directory, external, multiVars, structs, goroutines, loopVars,
          callerVars, stopVars>>

Entry   == [name : Name, port : Port \cup {0}, parent : Name \cup {None},
            source : Source]
State   == {"starting", "running", "failed", "stopped"}
Phase   == {"unspawned", "head", "begin", "launch", "dial", "up", "errored",
            "preempted", "fail", "backoff", "done"}
LoopPc  == {"off", "boot", "idle", "add", "remove", "unlink", "cancel", "exit"}
Result  == {"none", "ok", "exists", "port", "notfound", "invalid",
            "notstarted", "stopped"}

TypeOK ==
    /\ forwards \in [Name -> Pf \cup {None}]
    /\ order \in Seq(Name)
    /\ children \in [Name -> Seq(Name) \cup {None}]
    /\ external \subseteq Name
    /\ registering \in Registration \cup {None}
    /\ resolving \in [Service -> Nat]
    /\ nPf \in 0..MaxPf
    /\ svc \in [Pf -> Entry \cup {None}]
    /\ state \in [Pf -> State]
    /\ restarts \in [Pf -> 0..RestartCap]
    /\ actualPort \in [Pf -> Port \cup {0}]
    /\ sup \in [Pf -> Phase]
    /\ cancelled \subseteq Pf
    /\ bound \in [Port -> Pf \cup {None}]
    /\ loop \in LoopPc
    /\ booted \in 0..Len(Configured)
    /\ serving \in Caller \cup {None}
    /\ pending \in Seq(Name)
    /\ victim \in Pf \cup {None}
    /\ removeErr \in Result
    /\ at \in [Caller -> {"idle", "sending", "waiting"}]
    /\ req \in [Caller -> Request \cup {None}]
    /\ ret \in [Caller -> Result]
    /\ calls \in 0..MaxCalls
    /\ ctxDone \in BOOLEAN
    /\ stopMarked \in BOOLEAN

Init ==
    /\ forwards = [n \in Name |-> None]
    /\ order = <<>>
    /\ children = [n \in Name |-> None]
    /\ external \in ExternalChoices
    /\ registering = None
    /\ resolving = [s \in Service |-> 0]
    /\ nPf = 0
    /\ svc = [p \in Pf |-> None]
    /\ state = [p \in Pf |-> "starting"]
    /\ restarts = [p \in Pf |-> 0]
    /\ actualPort = [p \in Pf |-> 0]
    /\ sup = [p \in Pf |-> "unspawned"]
    /\ cancelled = {}
    /\ bound = [q \in Port |-> None]
    /\ loop = "off"
    /\ booted = 0
    /\ serving = None
    /\ pending = <<>>
    /\ victim = None
    /\ removeErr = "none"
    /\ at = [c \in Caller |-> "idle"]
    /\ req = [c \in Caller |-> None]
    /\ ret = [c \in Caller |-> "none"]
    /\ calls = 0
    /\ ctxDone = FALSE
    /\ stopMarked = FALSE

-----------------------------------------------------------------------------
(* The directory.  All of these run under m.mu, which superviseMulti holds *)
(* for the whole of its registration loop.                                 *)

MuFree == registering = None

Registered(n) == forwards[n] # None

Exists(n) == Registered(n) \/ children[n] # None

(* The port reserveForward compares with: the static one, else the last    *)
(* port the forward was ready on.                                          *)
PortOf(p) == IF svc[p].port # 0 THEN svc[p].port ELSE actualPort[p]

(* Mutant: only the ports of forwards that have been ready are compared. *)
PortTakenByReadyOnly(s) ==
    /\ ~s.multi
    /\ s.port # 0
    /\ \E n \in Name : Registered(n) /\ actualPort[forwards[n]] = s.port

PortTaken(s) ==
    /\ ~s.multi
    /\ s.port # 0
    /\ \E n \in Name : Registered(n) /\ PortOf(forwards[n]) = s.port

(* Mutant: the name is not checked on the serial path. *)
VerdictByPortOnly(s) == IF PortTaken(s) THEN "port" ELSE "ok"

(* The verdict of reserveForward. *)
Verdict(s) == IF Exists(s.name) THEN "exists"
              ELSE IF PortTaken(s) THEN "port" ELSE "ok"

(* Allocates the next struct for entry e in forward state st, its          *)
(* supervisor at phase ph, and registers it when reg holds.                *)
NewForward(e, st, ph, reg) ==
    LET p == nPf + 1 IN
    /\ p \in Pf
    /\ nPf' = p
    /\ svc' = [svc EXCEPT ![p] = e]
    /\ state' = [state EXCEPT ![p] = st]
    /\ sup' = [sup EXCEPT ![p] = ph]
    /\ forwards' = IF reg THEN [forwards EXCEPT ![e.name] = p] ELSE forwards
    /\ order' = IF reg THEN Append(order, e.name) ELSE order
    /\ UNCHANGED <<restarts, actualPort, cancelled, bound>>

(* reserveForward's success path followed by `go m.supervise(...)`: a      *)
(* multi-port parent is reserved with a nil child list and its resolver    *)
(* spawned, a single forward is registered and its supervisor spawned.     *)
ReserveAndSpawn(s) ==
    \/ /\ s.multi
       /\ children' = [children EXCEPT ![s.name] = <<>>]
       /\ resolving' = [resolving EXCEPT ![s] = @ + 1]
       /\ UNCHANGED <<forwards, order, structs, goroutines>>
    \/ /\ ~s.multi
       /\ NewForward([name |-> s.name, port |-> s.port, parent |-> None,
                      source |-> s.source], "starting", "head", TRUE)
       /\ UNCHANGED <<children, resolving>>

(* Mutant: the name stays in m.order. *)
UnlinkKeepsOrder(n) ==
    /\ forwards' = [forwards EXCEPT ![n] = None]
    /\ UNCHANGED order

(* delete(m.forwards, n) and the removal of n's first occurrence in order. *)
Unlink(n) ==
    /\ forwards' = [forwards EXCEPT ![n] = None]
    /\ order' = RemoveFirst(order, n)

-----------------------------------------------------------------------------
(* Start *)

StartBegin ==
    /\ loop = "off"
    /\ MuFree
    /\ loop' = "boot"
    /\ UNCHANGED <<directory, external, multiVars, structs, goroutines, booted,
                   serving, pending, victim, removeErr, callerVars, stopVars>>

(* One iteration of the loop over m.cfg.Services. *)
StartReserve ==
    /\ loop = "boot"
    /\ booted < Len(Configured)
    /\ MuFree
    /\ booted' = booted + 1
    /\ LET s == Configured[booted + 1] IN
       \/ /\ s.name \notin external
          /\ Verdict(s) = "ok"
          /\ ReserveAndSpawn(s)
       \/ /\ s.name \in external \/ Verdict(s) # "ok"
          /\ UNCHANGED <<directory, resolving, structs, goroutines>>
    /\ UNCHANGED <<external, registering, loop, serving, pending, victim,
                   removeErr, callerVars, stopVars>>

StartLoop ==
    /\ loop = "boot"
    /\ booted = Len(Configured)
    /\ loop' = "idle"
    /\ UNCHANGED <<directory, external, multiVars, structs, goroutines, booted,
                   serving, pending, victim, removeErr, callerVars, stopVars>>

-----------------------------------------------------------------------------
(* AddService and RemoveService, on the caller's side of cmdCh. *)

ValidateService(s) == s.multi => s.port = 0

Call(c, r, verdict) ==
    /\ at[c] = "idle"
    /\ calls < MaxCalls
    /\ MuFree
    /\ calls' = calls + 1
    /\ req' = [req EXCEPT ![c] = IF verdict = "none" THEN r ELSE None]
    /\ ret' = [ret EXCEPT ![c] = verdict]
    /\ at' = [at EXCEPT ![c] = IF verdict = "none" THEN "sending" ELSE "idle"]
    /\ UNCHANGED <<directory, external, multiVars, structs, goroutines,
                   loopVars, stopVars>>

CallAdd(c, s) ==
    Call(c, [op |-> "add", arg |-> s],
         IF ~ValidateService(s) THEN "invalid"
         ELSE IF loop = "off" THEN "notstarted" ELSE "none")

CallRemove(c, n) ==
    Call(c, [op |-> "remove", arg |-> n],
         IF loop = "off" THEN "notstarted" ELSE "none")

(* Mutant: doneCh is never closed. *)
DoneNeverClosed(c) == at[c] = "closed" /\ UNCHANGED vars

(* The select takes the doneCh branch once the event loop has exited. *)
CallerSeesDone(c) ==
    /\ at[c] = "sending"
    /\ loop = "exit"
    /\ at' = [at EXCEPT ![c] = "idle"]
    /\ req' = [req EXCEPT ![c] = None]
    /\ ret' = [ret EXCEPT ![c] = "stopped"]
    /\ UNCHANGED <<directory, external, multiVars, structs, goroutines,
                   loopVars, calls, stopVars>>

-----------------------------------------------------------------------------
(* The event loop *)

(* cmd.result <- r: the call of the served caller returns r. *)
Reply(r) ==
    /\ loop' = "idle"
    /\ at' = [at EXCEPT ![serving] = "idle"]
    /\ req' = [req EXCEPT ![serving] = None]
    /\ ret' = [ret EXCEPT ![serving] = r]
    /\ serving' = None
    /\ pending' = <<>>
    /\ victim' = None
    /\ removeErr' = "none"

(* The rendezvous on the unbuffered cmdCh. *)
LoopReceive(c) ==
    /\ loop = "idle"
    /\ at[c] = "sending"
    /\ loop' = req[c].op
    /\ serving' = c
    /\ at' = [at EXCEPT ![c] = "waiting"]
    /\ UNCHANGED <<directory, external, multiVars, structs, goroutines, booted,
                   pending, victim, removeErr, req, ret, calls, stopVars>>

LoopExit ==
    /\ loop = "idle"
    /\ ctxDone
    /\ loop' = "exit"
    /\ UNCHANGED <<directory, external, multiVars, structs, goroutines, booted,
                   serving, pending, victim, removeErr, callerVars, stopVars>>

LoopAdd ==
    /\ loop = "add"
    /\ MuFree
    /\ LET s == req[serving].arg IN
       /\ Reply(Verdict(s))
       /\ \/ Verdict(s) = "ok" /\ ReserveAndSpawn(s)
          \/ /\ Verdict(s) # "ok"
             /\ UNCHANGED <<directory, resolving, structs, goroutines>>
    /\ UNCHANGED <<external, registering, booted, calls, stopVars>>

(* doRemove's first critical section. *)
LoopRemove ==
    /\ loop = "remove"
    /\ MuFree
    /\ LET n == req[serving].arg IN
       \/ /\ children[n] # None
          /\ children' = [children EXCEPT ![n] = None]
          /\ IF Registered(n) THEN Unlink(n) ELSE UNCHANGED <<forwards, order>>
          /\ \/ /\ children[n] = <<>>
                /\ Reply("ok")
             \/ /\ children[n] # <<>>
                /\ loop' = "unlink"
                /\ pending' = children[n]
                /\ UNCHANGED <<serving, victim, removeErr, at, req, ret>>
       \/ /\ children[n] = None
          /\ loop' = "unlink"
          /\ pending' = <<n>>
          /\ UNCHANGED <<directory, serving, victim, removeErr, at, req, ret>>
    /\ UNCHANGED <<external, multiVars, structs, goroutines, booted, calls,
                   stopVars>>

FirstErr(e) == IF removeErr = "none" THEN e ELSE removeErr

(* doRemove moves on to the next child, or returns. *)
NextChild(err) ==
    IF Len(pending) > 1
    THEN /\ loop' = "unlink"
         /\ pending' = Tail(pending)
         /\ victim' = None
         /\ removeErr' = err
         /\ UNCHANGED <<serving, at, req, ret>>
    ELSE Reply(IF err = "none" THEN "ok" ELSE err)

(* removeSingle's critical section of m.mu. *)
LoopUnlink ==
    /\ loop = "unlink"
    /\ MuFree
    /\ \/ /\ Registered(Head(pending))
          /\ Unlink(Head(pending))
          /\ victim' = forwards[Head(pending)]
          /\ loop' = "cancel"
          /\ UNCHANGED <<serving, pending, removeErr, at, req, ret>>
       \/ /\ ~Registered(Head(pending))
          /\ NextChild(FirstErr("notfound"))
          /\ UNCHANGED <<forwards, order>>
    /\ UNCHANGED <<children, external, multiVars, structs, goroutines, booted,
                   calls, stopVars>>

(* pf.cancel(): it ends the attempt in progress, if there is one. *)
InAttempt(p) == sup[p] \in {"dial", "up"}

(* removeSingle's critical section of pf.mu. *)
LoopCancel ==
    /\ loop = "cancel"
    /\ cancelled' = IF InAttempt(victim) THEN cancelled \cup {victim} ELSE cancelled
    /\ state' = [state EXCEPT ![victim] = "stopped"]
    /\ NextChild(removeErr)
    /\ UNCHANGED <<directory, external, multiVars, nPf, svc, restarts,
                   actualPort, sup, bound, booted, calls, stopVars>>

-----------------------------------------------------------------------------
(* superviseMulti *)

(* resolveServicePorts fails: the parent gets a failed entry of its own,   *)
(* if it is still reserved and has none.  That entry carries no            *)
(* sourceConfig.                                                           *)
ResolveFails(s) ==
    /\ resolving[s] > 0
    /\ MuFree
    /\ resolving' = [resolving EXCEPT ![s] = @ - 1]
    /\ \/ /\ children[s.name] # None
          /\ ~Registered(s.name)
          /\ NewForward([name |-> s.name, port |-> 0, parent |-> None,
                         source |-> Native], "failed", "unspawned", TRUE)
       \/ /\ children[s.name] = None \/ Registered(s.name)
          /\ UNCHANGED <<forwards, order, structs, goroutines>>
    /\ UNCHANGED <<children, external, registering, loopVars, callerVars, stopVars>>

(* Mutant: the reservation of the parent is not checked again. *)
ResolveSucceedsUnchecked(s, ports) ==
    /\ resolving[s] > 0
    /\ MuFree
    /\ nPf + Len(ports) <= MaxPf
    /\ resolving' = [resolving EXCEPT ![s] = @ - 1]
    /\ registering' = [svc |-> s, ports |-> ports, next |-> 1, base |-> nPf]
    /\ UNCHANGED <<directory, external, structs, goroutines, loopVars,
                   callerVars, stopVars>>

(* resolveServicePorts returns ports: registration starts if the parent is *)
(* still reserved.                                                         *)
ResolveSucceeds(s, ports) ==
    /\ resolving[s] > 0
    /\ MuFree
    /\ nPf + Len(ports) <= MaxPf
    /\ resolving' = [resolving EXCEPT ![s] = @ - 1]
    /\ registering' = IF children[s.name] = None THEN None
                      ELSE [svc |-> s, ports |-> ports, next |-> 1, base |-> nPf]
    /\ UNCHANGED <<directory, external, structs, goroutines, loopVars,
                   callerVars, stopVars>>

(* One iteration of the registration loop; a name already taken is skipped. *)
RegisterChild ==
    /\ registering # None
    /\ registering.next <= Len(registering.ports)
    /\ LET child == registering.ports[registering.next] IN
       NewForward([name |-> child.name, port |-> child.port,
                   parent |-> registering.svc.name, source |-> registering.svc.source],
                  "starting", "unspawned", ~Registered(child.name))
    /\ registering' = [registering EXCEPT !.next = @ + 1]
    /\ UNCHANGED <<children, external, resolving, loopVars, callerVars, stopVars>>

(* Mutant: the child registered last is not recorded. *)
RegisterDoneMissesLast ==
    /\ registering # None
    /\ registering.next > Len(registering.ports)
    /\ LET ports == registering.ports IN
       children' = [children EXCEPT ![registering.svc.name] =
                       [i \in 1..(Len(ports) - 1) |-> ports[i].name]]
    /\ sup' = [p \in Pf |-> IF p > registering.base /\ p <= nPf THEN "head" ELSE sup[p]]
    /\ registering' = None
    /\ UNCHANGED <<forwards, order, external, resolving, structs, cancelled,
                   bound, loopVars, callerVars, stopVars>>

(* The child list is stored, m.mu released and a supervisor spawned for    *)
(* every struct of the loop, the skipped ones included.                    *)
RegisterDone ==
    /\ registering # None
    /\ registering.next > Len(registering.ports)
    /\ LET P == registering.svc.name
           ports == registering.ports IN
       children' = [children EXCEPT ![P] = [i \in 1..Len(ports) |-> ports[i].name]]
    /\ sup' = [p \in Pf |-> IF p > registering.base /\ p <= nPf THEN "head" ELSE sup[p]]
    /\ registering' = None
    /\ UNCHANGED <<forwards, order, external, resolving, structs, cancelled,
                   bound, loopVars, callerVars, stopVars>>

-----------------------------------------------------------------------------
(* superviseSingle and, as one step each, the outcomes of runPortForward.  *)

(* Mutants: fwCtx does not see pf.cancel, or does not derive from ctx. *)
FwDoneByManagerOnly(p) == ctxDone
FwDoneByCancelOnly(p) == p \in cancelled

FwDone(p) == p \in cancelled \/ ctxDone

SupStep(p, from, to) ==
    /\ sup[p] = from
    /\ sup' = [sup EXCEPT ![p] = to]
    /\ UNCHANGED <<directory, external, multiVars, nPf, svc, loopVars,
                   callerVars, stopVars>>

Goto(p, from, to) ==
    /\ SupStep(p, from, to)
    /\ UNCHANGED <<state, restarts, actualPort, cancelled, bound>>

GotoIn(p, from, to, st) ==
    /\ SupStep(p, from, to)
    /\ state' = [state EXCEPT ![p] = st]
    /\ UNCHANGED <<restarts, actualPort, cancelled, bound>>

(* The select at the head of the loop. *)
SupHead(p) ==
    \/ ctxDone /\ GotoIn(p, "head", "done", "stopped")
    \/ ~ctxDone /\ Goto(p, "head", "begin")

(* Mutant: the state is not reset when a new attempt begins. *)
SupBeginKeepsState(p) == Goto(p, "begin", "launch")

SupBegin(p) == GotoIn(p, "begin", "launch", "starting")

(* runPortForward creates fwCtx and publishes its cancel function. *)
SupLaunch(p) ==
    /\ SupStep(p, "launch", "dial")
    /\ cancelled' = cancelled \ {p}
    /\ UNCHANGED <<state, restarts, actualPort, bound>>

(* ForwardPorts binds the local port and readyChan is closed. *)
SupReady(p) ==
    \E q \in Port :
       /\ SupStep(p, "dial", "up")
       /\ IF svc[p].port # 0 THEN q = svc[p].port ELSE q \in DynamicPort
       /\ bound[q] = None
       /\ bound' = [bound EXCEPT ![q] = p]
       /\ state' = [state EXCEPT ![p] = "running"]
       /\ actualPort' = [actualPort EXCEPT ![p] = q]
       /\ UNCHANGED <<restarts, cancelled>>

(* No pod, dial or listen error, ready timeout, or fwCtx.Done. *)
SupDialFails(p) == Goto(p, "dial", "errored")

Listening(p) == \E q \in Port : q = actualPort[p] /\ bound[q] = p

(* errChan: ForwardPorts has returned, its listener is closed. *)
SupLost(p) ==
    /\ ~Listening(p)
    /\ Goto(p, "up", "errored")

(* Failed health checks, stream errors, connection age. *)
SupDrops(p) == Goto(p, "up", "errored")

SupCancelled(p) == FwDone(p) /\ Goto(p, "up", "errored")

SupPreempted(p) == Goto(p, "up", "preempted")

(* Mutant: the supervisor returns when it is preempted. *)
SupReturnedForGood(p) ==
    \/ /\ ctxDone
       /\ \/ GotoIn(p, "errored", "done", "stopped")
          \/ GotoIn(p, "preempted", "done", "stopped")
    \/ /\ ~ctxDone
       /\ \/ Goto(p, "errored", "fail")
          \/ Goto(p, "preempted", "done")

(* Mutant: a preempted attempt is counted as a broken one. *)
SupReturnedCounts(p) ==
    \/ /\ ctxDone
       /\ \/ GotoIn(p, "errored", "done", "stopped")
          \/ GotoIn(p, "preempted", "done", "stopped")
    \/ /\ ~ctxDone
       /\ \/ Goto(p, "errored", "fail")
          \/ Goto(p, "preempted", "fail")

(* The tests of ctx.Err() and errPreempted after the attempt. *)
SupReturned(p) ==
    \/ /\ ctxDone
       /\ \/ GotoIn(p, "errored", "done", "stopped")
          \/ GotoIn(p, "preempted", "done", "stopped")
    \/ /\ ~ctxDone
       /\ \/ Goto(p, "errored", "fail")
          \/ Goto(p, "preempted", "head")

(* Mutant: a failure is counted twice. *)
BumpTwice(n) == n + 2

Bump(n) == IF n < RestartCap THEN n + 1 ELSE n

Exhausted(n) == MaxRestarts > 0 /\ n >= MaxRestarts

SupFail(p) ==
    /\ SupStep(p, "fail", IF Exhausted(Bump(restarts[p])) THEN "done" ELSE "backoff")
    /\ state' = [state EXCEPT ![p] = "failed"]
    /\ restarts' = [restarts EXCEPT ![p] = Bump(@)]
    /\ UNCHANGED <<actualPort, cancelled, bound>>

SupBackoff(p) ==
    \/ ctxDone /\ Goto(p, "backoff", "done")
    \/ Goto(p, "backoff", "head")

(* The connection to the pod breaks: ForwardPorts closes its listener and  *)
(* returns, which the supervisor learns from errChan.                      *)
TunnelDies(p) ==
    /\ sup[p] = "up"
    /\ Listening(p)
    /\ bound' = [bound EXCEPT ![actualPort[p]] = None]
    /\ UNCHANGED <<directory, external, multiVars, structs, sup, cancelled,
                   loopVars, callerVars, stopVars>>

(* The ForwardPorts goroutine closes its listener some time after its      *)
(* attempt has been cancelled or has returned.                             *)
CloseListener(q) ==
    /\ bound[q] # None
    /\ LET p == bound[q] IN
       sup[p] # "up" \/ actualPort[p] # q \/ FwDone(p)
    /\ bound' = [bound EXCEPT ![q] = None]
    /\ UNCHANGED <<directory, external, multiVars, structs, sup, cancelled,
                   loopVars, callerVars, stopVars>>

-----------------------------------------------------------------------------
(* Stop, and the cancellation of the context Start was given. *)

CancelContext ==
    /\ ~ctxDone
    /\ ctxDone' = TRUE
    /\ UNCHANGED <<directory, external, multiVars, structs, goroutines, loopVars,
                   callerVars, stopMarked>>

StopMark ==
    /\ ctxDone
    /\ ~stopMarked
    /\ MuFree
    /\ stopMarked' = TRUE
    /\ LET live == {p \in Pf : \E n \in Name : forwards[n] = p} IN
       /\ cancelled' = cancelled \cup {p \in live : InAttempt(p)}
       /\ state' = [p \in Pf |-> IF p \in live THEN "stopped" ELSE state[p]]
    /\ UNCHANGED <<directory, external, multiVars, nPf, svc, restarts, actualPort,
                   sup, bound, loopVars, callerVars, ctxDone>>

-----------------------------------------------------------------------------

LoopWork == LoopAdd \/ LoopRemove \/ LoopUnlink \/ LoopCancel

StartWork == StartBegin \/ StartReserve \/ StartLoop

Resolve(s) == ResolveFails(s) \/ \E ports \in Expansion[s.name] : ResolveSucceeds(s, ports)

Register == RegisterChild \/ RegisterDone

(* What a supervisor does by itself; a healthy tunnel need not drop. *)
SupProgress(p) ==
    \/ SupHead(p) \/ SupBegin(p) \/ SupLaunch(p) \/ SupReady(p) \/ SupDialFails(p)
    \/ SupLost(p) \/ SupCancelled(p) \/ SupReturned(p) \/ SupFail(p) \/ SupBackoff(p)

Next ==
    \/ StartWork
    \/ \E c \in Caller, s \in Service : CallAdd(c, s)
    \/ \E c \in Caller, n \in Name : CallRemove(c, n)
    \/ \E c \in Caller : LoopReceive(c)
    \/ \E c \in Caller : CallerSeesDone(c)
    \/ LoopExit
    \/ LoopWork
    \/ \E s \in Service : Resolve(s)
    \/ Register
    \/ \E p \in Pf : SupProgress(p)
    \/ \E p \in Pf : SupDrops(p)
    \/ \E p \in Pf : SupPreempted(p)
    \/ \E p \in Pf : TunnelDies(p)
    \/ \E q \in Port : CloseListener(q)
    \/ CancelContext
    \/ StopMark

Spec == Init /\ [][Next]_vars

(* Every goroutine of the program that can run does run, API calls and     *)
(* dials return (they carry timeouts), timers fire, and a select with a    *)
(* ready branch takes one.  Nobody is obliged to call or to stop.          *)
Fairness ==
    /\ WF_vars(StartReserve \/ StartLoop)
    /\ WF_vars(LoopWork)
    /\ WF_vars(LoopExit \/ \E c \in Caller : LoopReceive(c))
    /\ \A c \in Caller : WF_vars(CallerSeesDone(c))
    /\ \A s \in Service : WF_vars(Resolve(s))
    /\ WF_vars(Register)
    /\ \A p \in Pf : WF_vars(SupProgress(p))
    /\ \A q \in Port : WF_vars(CloseListener(q))

FairSpec == Spec /\ Fairness

-----------------------------------------------------------------------------
(* Safety properties. *)

(* m.order lists the keys of m.forwards, each once: Status and Mappings    *)
(* dereference m.forwards[name] for every name of m.order, so a name too   *)
(* many is a nil pointer dereference and a name too few a forward that is  *)
(* never reported.                                                         *)
OrderEnumeratesForwards ==
    /\ \A n \in Name : Registered(n) <=> n \in ToSet(order)
    /\ \A i, j \in 1..Len(order) : order[i] = order[j] => i = j

(* Two single-port services never hold the same static local port at the   *)
(* same time: reserveForward is the only gate and runs serially.           *)
StaticPortsDistinct ==
    \A n, k \in Name :
        /\ Registered(n) /\ Registered(k) /\ n # k
        /\ svc[forwards[n]].parent = None /\ svc[forwards[k]].parent = None
        /\ svc[forwards[n]].port # 0
        => svc[forwards[n]].port # svc[forwards[k]].port

(* A registered child can be reached through its parent, or is about to be *)
(* removed: doRemove of the parent takes its children with it.             *)
ChildrenReachable ==
    MuFree => \A n \in Name :
        Registered(n) /\ svc[forwards[n]].parent # None =>
            \/ /\ children[svc[forwards[n]].parent] # None
               /\ n \in ToSet(children[svc[forwards[n]].parent])
            \/ n \in ToSet(pending)

(* What Status reports of a registered forward of a live manager agrees    *)
(* with what its supervisor is doing, although removals and Stop write the *)
(* state of supervisors that are still running.                            *)
StatusTruthful ==
    ~ctxDone => \A n \in Name : Registered(n) =>
        LET p == forwards[n] IN
        /\ sup[p] = "up" => state[p] = "running"
        /\ sup[p] \in {"launch", "dial"} => state[p] = "starting"
        /\ sup[p] \in {"backoff", "done"} => state[p] = "failed"

(* A registered forward is given up only when the manager stops or when    *)
(* it has failed as often as max_restarts allows; preemptions do not count. *)
GivesUpOnlyWhenExhausted ==
    \A n \in Name : Registered(n) /\ sup[forwards[n]] = "done" =>
        ctxDone \/ (MaxRestarts > 0 /\ restarts[forwards[n]] >= MaxRestarts)

-----------------------------------------------------------------------------
(* Liveness properties, under FairSpec. *)

(* AddService and RemoveService return, whether the event loop serves the  *)
(* command or exits before it does.                                        *)
CallersReturn == \A c \in Caller : at[c] # "idle" ~> at[c] = "idle"

Quiescent ==
    /\ loop = "exit"
    /\ registering = None
    /\ \A s \in Service : resolving[s] = 0
    /\ \A p \in Pf : sup[p] \in {"unspawned", "done"}
    /\ \A q \in Port : bound[q] = None

(* Once its context is cancelled Start returns: the event loop, every      *)
(* resolver and every supervisor end, removed ones included, and all local *)
(* ports are released.                                                     *)
StopTerminates == ctxDone /\ loop # "off" ~> Quiescent

(* pf.cancel() ends the attempt it is aimed at, even when the tunnel       *)
(* becomes ready at the same moment.                                       *)
CancelledAttemptEnds == \A p \in Pf : p \in cancelled ~> ~InAttempt(p)

-----------------------------------------------------------------------------
(* The manager implements the abstract directory. *)

(* Names the expansion of n may produce. *)
ChildNames(n) == UNION {{ports[i].name : i \in 1..Len(ports)} : ports \in Expansion[n]}

(* A removal has taken its name out once removeSingle has unlinked it, or  *)
(* once doRemove has gone on to the children of a parent.                  *)
HasDropped(c) ==
    /\ serving = c
    /\ \/ loop = "cancel"
       \/ loop = "unlink" /\ pending # <<req[c].arg>>

AbstractRequest(r) ==
    [op |-> r.op, name |-> IF r.op = "add" THEN r.arg.name ELSE r.arg]

Directory == INSTANCE ServiceDirectory WITH
    ChildOf <- [n \in Name |-> ChildNames(n)],
    open    <- loop \notin {"off", "boot"},
    names   <- {n \in Name : Exists(n)},
    req     <- [c \in Caller |-> IF req[c] = None THEN None ELSE AbstractRequest(req[c])],
    dropped <- {c \in Caller : HasDropped(c)}

(* Concurrent adds, removes, expansions and the shutdown of the event loop *)
(* are indistinguishable, for the callers, from operations on one atomic   *)
(* set: of two concurrent adds of a name exactly one wins, an add that was *)
(* acknowledged is seen by the next remove, and no name reappears after    *)
(* its removal unless its parent is expanded or it is added again.         *)
ImplementsDirectory == Directory!Spec

(* What the supervisor of struct p is doing, in the terms of Supervision. *)
PhaseOf(p) ==
    CASE sup[p] = "unspawned" -> "idle"
      [] sup[p] \in {"head", "begin", "launch", "dial"} -> "trying"
      [] sup[p] \in {"errored", "fail"} -> "broken"
      [] sup[p] = "backoff" -> "waiting"
      [] OTHER -> sup[p]

Supervisor(p) == INSTANCE Supervision WITH
    phase <- PhaseOf(p), state <- state[p], restarts <- restarts[p],
    stopping <- ctxDone

(* Every forward goes through the life that superviseSingle promises,      *)
(* whatever the event loop, the resolvers and Stop do to its struct: it is *)
(* the life the detailed model of one forward is shown to go through.      *)
ImplementsSupervision ==
    /\ \A p \in Pf : Supervisor(p)!Init
    /\ [][\A p \in Pf : [Supervisor(p)!Next]_(Supervisor(p)!vars)]_vars

-----------------------------------------------------------------------------
(* What comments and docs say of removal, which the code does not do.      *)

(* "RemoveService stops and removes a service by name": the goroutine of   *)
(* an unregistered forward ends.                                           *)
RemovedForwardStops ==
    \A p \in Pf :
        (p <= nPf /\ MuFree /\ forwards[svc[p].name] # p) ~> sup[p] \in {"unspawned", "done"}
=============================================================================
