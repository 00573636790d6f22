--------------------------------- MODULE Fleet ---------------------------------
(***************************************************************************)
(* Several instances on one machine: the start, stop, restart, delegate    *)
(* and offload commands, the daemons they launch from boot to clean-up,    *)
(* and what they share - the instance registry, PID files, sockets and the *)
(* services themselves, each of which one instance is to own.  Daemons and *)
(* commands crash or interleave at every step that other processes can     *)
(* see; PIDs are reused.                                                   *)
(***************************************************************************)
EXTENDS Naturals

CONSTANTS Pid,        \* process ids
          Cfg,        \* config files; each has its PID file and socket
          DirOf,      \* DirOf[c]: the directory with them and with c's registry
          Svc,        \* services
          Wanted,     \* Wanted[c]: the services of config c
          PortOf,     \* PortOf[s]: the static local port of s
          Cmd,        \* command line processes
          None,
          MaxEvents   \* bound: commands, reloads, crashes and failures of files,
                      \* registries and RPCs

ASSUME FleetAssumption ==
    /\ None \notin Pid \cup Cfg /\ "stale" \notin Pid
    /\ Wanted \in [Cfg -> SUBSET Svc]

VARIABLES
    proc,       \* the process behind every PID
    registry,   \* instances.json of every directory; an entry is in that of its config
    pidFile,    \* the PID in each config's PID file, or None
    sock,       \* the listener each socket path leads to, "stale", or None
    cmd,        \* the command line processes
    events,     \* counts what MaxEvents bounds
    reached,    \* live daemons that served their socket to a stop command that has
                \* reported them stopped
    excused     \* what has happened that the code does not guard against

vars == <<proc, registry, pidFile, sock, cmd, events, reached, excused>>
history == <<reached, excused>>

Nothing == [s \in Svc |-> None]
Free == [at |-> "free", cfg |-> None, delegate |-> FALSE, primary |-> None,
         srv |-> "off", term |-> FALSE, reg |-> "none", forwards |-> Nothing, external |-> Nothing]
IdleCmd == [op |-> "none", cfg |-> None, at |-> "idle", pid |-> None,
            primary |-> None, clean |-> {}, serving |-> {}]

(* isAlive: the signal 0 reaches any process, a zombie included. *)
IsAlive(p) == proc[p].at # "free"
Daemon(p) == proc[p].at \notin {"free", "zombie", "other"}

(* p is a daemon of config c that has not given up its PID file yet. *)
Current(p, c) == /\ Daemon(p) /\ proc[p].cfg = c
                 /\ proc[p].at \notin {"unfiled", "leaving"}

Connectable(c) == sock[c] \in Pid /\ proc[sock[c]].srv = "on"

IsRunning(c) == pidFile[c] # None /\ IsAlive(pidFile[c])

(* isRunning removes the PID file of a process that is gone. *)
IsRunningCleans(c) == [pidFile EXCEPT ![c] = IF IsRunning(c) THEN @ ELSE None]

Init ==
    /\ proc = [p \in Pid |-> Free]
    /\ registry = {}
    /\ pidFile = [c \in Cfg |-> None]
    /\ sock = [c \in Cfg |-> None]
    /\ cmd = [k \in Cmd |-> IdleCmd]
    /\ events = 0
    /\ reached = {} /\ excused = {}

-----------------------------------------------------------------------------
(* The registry, each operation under its file lock.  CentralDir gives     *)
(* every config its directory; instances of two directories do not see     *)
(* each other.                                                             *)

Together(c, d) == DirOf[c] = DirOf[d]

Entry(p) == [pid |-> p, cfg |-> proc[p].cfg, delegate |-> proc[p].delegate]

Register(e) == {x \in registry : ~(x.pid = e.pid /\ Together(x.cfg, e.cfg))} \cup {e}

(* Mutant: entries are told apart by their config. *)
DeregisterByConfig(p) == {x \in registry : x.cfg # proc[p].cfg}

Deregister(p) == {x \in registry : ~(x.pid = p /\ Together(x.cfg, proc[p].cfg))}

(* List returns the living of the directory and drops the others. *)
List(c) == {x \in registry : Together(x.cfg, c) /\ IsAlive(x.pid)}
Pruned(c) == {x \in registry : Together(x.cfg, c) => IsAlive(x.pid)}

FindByConfig(c) == {x \in List(c) : x.cfg = c}

(* A file, a registry or an RPC may fail; a failed operation changes no entry. *)
Event == events < MaxEvents /\ events' = events + 1
Fails == Event
Works == UNCHANGED events

Listing(c) ==
    \/ registry' = Pruned(c) /\ Works
    \/ UNCHANGED registry /\ Fails

-----------------------------------------------------------------------------
(* Ownership of services. *)

(* Manager.Status: the daemon's forwards and the services it has found to  *)
(* be another instance's; a delegate reports nothing.                      *)
Status(p) ==
    IF proc[p].delegate THEN {}
    ELSE {s \in Svc : proc[p].forwards[s] # None \/ proc[p].external[s] # None}

(* queryLiveInstances: an entry is asked on its socket, and an unreachable *)
(* one is skipped.                                                         *)
Live(E) == {e \in E : Connectable(e.cfg)}
Reports(e) == Status(sock[e.cfg])

(* DetectExternalConflicts: matched by name, then by static port. *)
Owners(p, s) ==
    LET live == Live({e \in List(proc[p].cfg) : e.pid # p /\ ~e.delegate})
        byName == {e \in live : s \in Reports(e)}
        byPort == {e \in live : \E x \in Reports(e) : PortOf[x] = PortOf[s]}
    IN  {e.pid : e \in IF byName # {} THEN byName ELSE byPort}

(* Mutant: services are matched by name only. *)
DetectsByName(p, ext) ==
    \A s \in Svc :
        LET live == Live({e \in List(proc[p].cfg) : e.pid # p /\ ~e.delegate})
            own == {e.pid : e \in {x \in live : s \in Reports(x)}}
        IN  ext[s] \in IF s \in Wanted[proc[p].cfg] /\ own # {} THEN own ELSE {None}

(* ext is a possible outcome of detectExternalConflicts in daemon p. *)
Detects(p, ext) ==
    \A s \in Svc :
        ext[s] \in IF s \in Wanted[proc[p].cfg] /\ Owners(p, s) # {}
                   THEN Owners(p, s) ELSE {None}

(* A look at the other instances: one that has looked itself and not yet   *)
(* added what it found free, that does not answer, or that could not       *)
(* register is not seen.  If the registry cannot be read or nobody answers *)
(* in time, nothing is.                                                    *)
Unseen(p) ==
    \E q \in Pid \ {p} :
        /\ proc[q].at \in {"detected", "running", "reloading"} /\ ~proc[q].delegate
        /\ Together(proc[q].cfg, proc[p].cfg)
        /\ \/ proc[q].at # "running"
           \/ sock[proc[q].cfg] # q
           \/ proc[q].reg # "listed"

Sees(p, ext) ==
    /\ Detects(p, ext)
    /\ registry' = Pruned(proc[p].cfg)
    /\ excused' = excused \cup (IF Unseen(p) THEN {"unseen"} ELSE {})

SeesNobody(ext) ==
    /\ ext = Nothing
    /\ UNCHANGED registry
    /\ excused' = excused \cup {"unseen"}

-----------------------------------------------------------------------------
(* A daemon, from its first step to its last. *)

DaemonFrame == UNCHANGED <<cmd, events>>

Step(p, from, to) ==
    /\ proc[p].at = from
    /\ proc' = [proc EXCEPT ![p].at = to]

(* A failed write, which may have emptied the file, and a failed           *)
(* registration are warned of and no more.                                 *)
WritePidFile(p) ==
    /\ Step(p, "boot", "pid")
    /\ \/ /\ pidFile' = [pidFile EXCEPT ![proc[p].cfg] = p]
          /\ Works /\ UNCHANGED excused
       \/ /\ pidFile' = pidFile \/ pidFile' = [pidFile EXCEPT ![proc[p].cfg] = None]
          /\ Fails /\ excused' = excused \cup {"unfiled"}
    /\ UNCHANGED <<registry, sock, reached, cmd>>

(* openRegistry and Register; without the first nothing is deregistered at *)
(* the end either.                                                         *)
RegisterSelf(p) ==
    /\ proc[p].at = "pid"
    /\ \E reg \in {"none", "open", "listed"} :
         /\ proc' = [proc EXCEPT ![p].at = "registered", ![p].reg = reg]
         /\ IF reg = "listed" THEN registry' = Register(Entry(p)) /\ Works
            ELSE UNCHANGED registry /\ Fails
    /\ UNCHANGED <<pidFile, sock, history, cmd>>

(* The process is gone.  Its parent, if still there, does not reap it.     *)
(* Its socket file, if still there, leads nowhere.                         *)
Gone(p) ==
    /\ proc' = [proc EXCEPT ![p] =
                  IF \E k \in Cmd : cmd[k].at # "idle" /\ cmd[k].pid = p
                  THEN [Free EXCEPT !.at = "zombie"] ELSE Free]
    /\ sock' = [c \in Cfg |-> IF sock[c] = p THEN "stale" ELSE sock[c]]
    /\ reached' = reached \ {p}

(* The start gate's hook or NewManager fails: os.Exit, and no clean-up. *)
StartupFails(p) ==
    /\ proc[p].at = "registered" /\ ~proc[p].delegate
    /\ Gone(p)
    /\ cmd' = [k \in Cmd |-> [cmd[k] EXCEPT !.serving = @ \ {p}]]
    /\ UNCHANGED <<registry, pidFile, events, excused>>

DetectExternal(p) ==
    /\ ~proc[p].delegate
    /\ proc[p].at = "registered"
    /\ \E ext \in [Svc -> Pid \cup {None}] :
         /\ \/ Sees(p, ext) /\ Works
            \/ SeesNobody(ext) /\ Fails
         /\ proc' = [proc EXCEPT ![p].at = "detected", ![p].srv = "check",
                                 ![p].external = ext]
    /\ UNCHANGED <<pidFile, sock, reached, cmd>>

Lease(p) ==
    /\ proc[p].delegate
    /\ proc[p].at = "registered"
    /\ proc' = [proc EXCEPT ![p].at = "lease", ![p].srv = "check"]
    /\ UNCHANGED <<registry, pidFile, sock, history>> /\ DaemonFrame

(* CleanStaleSocket and Listen, on the server's own goroutine. *)
CleanStaleSocket(p) ==
    /\ Daemon(p)
    /\ LET c == proc[p].cfg
       IN  \/ /\ proc[p].srv = "check"
              /\ proc' = [proc EXCEPT ![p].srv =
                    IF sock[c] = None THEN "listen"
                    ELSE IF Connectable(c) THEN "failed" ELSE "remove"]
              /\ UNCHANGED sock
           \/ /\ proc[p].srv = "remove"
              /\ sock' = [sock EXCEPT ![c] = None]
              /\ proc' = [proc EXCEPT ![p].srv = "listen"]
    /\ UNCHANGED <<registry, pidFile, history>> /\ DaemonFrame

StartUnix(p) ==
    /\ Daemon(p)
    /\ proc[p].srv = "listen"
    /\ LET c == proc[p].cfg
       IN  IF sock[c] = None
           THEN /\ sock' = [sock EXCEPT ![c] = p]
                /\ proc' = [proc EXCEPT ![p].srv = "on"]
           ELSE /\ proc' = [proc EXCEPT ![p].srv = "failed"]
                /\ UNCHANGED sock
    /\ UNCHANGED <<registry, pidFile, history>> /\ DaemonFrame

(* mgr.Start: every service that is not external. *)
StartManager(p) ==
    /\ proc[p].at = "detected"
    /\ LET c == proc[p].cfg
       IN  proc' = [proc EXCEPT ![p].at = "running",
              ![p].forwards = [s \in Svc |->
                 IF s \in Wanted[c] /\ proc[p].external[s] = None THEN c ELSE None]]
    /\ UNCHANGED <<registry, pidFile, sock, history>> /\ DaemonFrame

(* Manager.Reload first looks at the others again and stops what has newly *)
(* become external...                                                      *)
RefreshExternal(p) ==
    /\ proc[p].at = "running" /\ ~proc[p].term
    /\ Event
    /\ \E ext \in [Svc -> Pid \cup {None}] :
         /\ Sees(p, ext) \/ SeesNobody(ext)
         /\ proc' = [proc EXCEPT ![p].at = "reloading", ![p].external = ext,
              ![p].forwards = [s \in Svc |->
                 IF ext[s] # None /\ proc[p].external[s] = None THEN None ELSE @[s]]]
    /\ UNCHANGED <<pidFile, sock, cmd, reached>>

(* ...and then removes and adds services, which Reload has in detail.      *)
ReloadServices(p) ==
    /\ proc[p].at = "reloading"
    /\ LET c == proc[p].cfg
       IN  proc' = [proc EXCEPT ![p].at = "running",
              ![p].forwards = [s \in Svc |->
                 IF s \notin Wanted[c] THEN None
                 ELSE IF @[s] = None /\ proc[p].external[s] = None THEN c
                 ELSE @[s]]]
    /\ UNCHANGED <<registry, pidFile, sock, history>> /\ DaemonFrame

(* The context is cancelled: the manager's forwards stop; a delegate       *)
(* releases what it has handed to its primary.                             *)
StopServing(p) ==
    /\ proc[p].term
    /\ proc[p].at \in {"running", "reloading", "lease"}
    /\ LET c == proc[p].cfg
           q == IF proc[p].at = "lease" /\ Connectable(proc[p].primary)
                THEN sock[proc[p].primary] ELSE p
       IN  proc' = [proc EXCEPT
              ![q].forwards = [s \in Svc |-> IF @[s] = c THEN None ELSE @[s]],
              ![p].at = "stopping", ![p].forwards = Nothing]
    /\ UNCHANGED <<registry, pidFile, sock, history>> /\ DaemonFrame

(* Shutdown removes the socket by its path. *)
Shutdown(p) ==
    /\ proc[p].at = "stopping"
    /\ IF proc[p].srv = "on"
       THEN /\ sock' = [sock EXCEPT ![proc[p].cfg] = None]
            /\ proc' = [proc EXCEPT ![p].at = "shut", ![p].srv = "off"]
       ELSE /\ proc' = [proc EXCEPT ![p].at = "shut"]
            /\ UNCHANGED sock
    /\ UNCHANGED <<registry, pidFile, history>> /\ DaemonFrame

RemovePidFile(p) ==
    /\ Step(p, "shut", "unfiled")
    /\ \/ pidFile' = [pidFile EXCEPT ![proc[p].cfg] = None] /\ Works
       \/ UNCHANGED pidFile /\ Fails
    /\ UNCHANGED <<registry, sock, history, cmd>>

DeregisterSelf(p) ==
    /\ Step(p, "unfiled", "leaving")
    /\ \/ proc[p].reg # "none" /\ registry' = Deregister(p) /\ Works
       \/ proc[p].reg # "none" /\ UNCHANGED registry /\ Fails
       \/ proc[p].reg = "none" /\ UNCHANGED registry /\ Works
    /\ UNCHANGED <<pidFile, sock, history, cmd>>

Exit(p) ==
    /\ proc[p].at = "leaving"
    /\ Gone(p)
    /\ cmd' = [k \in Cmd |-> [cmd[k] EXCEPT !.serving = @ \ {p}]]
    /\ UNCHANGED <<registry, pidFile, events, excused>>

(* A daemon dies where it stands, and its PID may go to another program. *)
Crash(p) ==
    /\ Daemon(p)
    /\ Fails
    /\ Gone(p)
    /\ cmd' = [k \in Cmd |-> [cmd[k] EXCEPT !.serving = @ \ {p}]]
    /\ UNCHANGED <<registry, pidFile, excused>>

ReusePid(p) ==
    /\ proc[p].at = "free"
    /\ \E e \in registry : e.pid = p
    /\ proc' = [proc EXCEPT ![p].at = "other"]
    /\ UNCHANGED <<registry, pidFile, sock, history>> /\ DaemonFrame

DaemonStep(p) ==
    \/ WritePidFile(p) \/ RegisterSelf(p) \/ DetectExternal(p) \/ Lease(p)
    \/ CleanStaleSocket(p) \/ StartUnix(p) \/ StartManager(p)
    \/ ReloadServices(p) \/ StopServing(p)
    \/ Shutdown(p) \/ RemovePidFile(p) \/ DeregisterSelf(p) \/ Exit(p)

-----------------------------------------------------------------------------
(* The commands. *)

CmdFrame == UNCHANGED <<events, excused>>

Goto(k, at) == cmd' = [cmd EXCEPT ![k].at = at]

(* The command reports and ends; a child that has died is reaped at last. *)
Finish(k) ==
    /\ cmd' = [cmd EXCEPT ![k] = IdleCmd]
    /\ proc' = [p \in Pid |-> IF p = cmd[k].pid /\ proc[p].at = "zombie"
                              THEN Free ELSE proc[p]]

Starts == {"start", "restart", "delegate"}
Excludes(op1, op2) == {op1, op2} \cap Starts # {} /\ {op1, op2} \subseteq Starts \cup {"stop"}

(* A start of a config at the same time as another start or a stop of it is *)
(* noted.                                                                   *)
Issue(k, op, c) ==
    /\ cmd[k].at = "idle"
    /\ Event
    /\ cmd' = [cmd EXCEPT ![k] = [IdleCmd EXCEPT
          !.op = op, !.cfg = c,
          !.at = CASE op = "start" -> "check" [] op \in {"stop", "restart"} -> "dial"
                   [] op = "delegate" -> "scan" [] op = "offload" -> "offload"]]
    /\ excused' = excused \cup
          (IF \E j \in Cmd : cmd[j].at # "idle" /\ cmd[j].cfg = c /\ Excludes(op, cmd[j].op)
           THEN {"concurrent"} ELSE {})
    /\ UNCHANGED <<proc, registry, pidFile, sock, reached>>

(* Mutant: the PID file is not looked at. *)
StartCheckSkipped(k) ==
    /\ cmd[k].at = "check"
    /\ Goto(k, "spawn")
    /\ UNCHANGED <<proc, pidFile, registry, sock, reached>> /\ CmdFrame

StartCheck(k) ==
    /\ cmd[k].at = "check"
    /\ pidFile' = IsRunningCleans(cmd[k].cfg)
    /\ IF ~IsRunning(cmd[k].cfg)
       THEN /\ Goto(k, IF cmd[k].op = "delegate" THEN "spawn" ELSE "find")
            /\ UNCHANGED proc
       ELSE (Goto(k, "wait") /\ UNCHANGED proc) \/ Finish(k)
    /\ UNCHANGED <<registry, sock, reached>> /\ CmdFrame

(* Without the registry the start goes on. *)
StartFind(k) ==
    LET c == cmd[k].cfg
    IN  /\ cmd[k].at = "find"
        /\ \/ FindByConfig(c) # {} /\ registry' = Pruned(c) /\ Works /\ Finish(k)
           \/ /\ FindByConfig(c) = {} /\ registry' = Pruned(c) /\ Works
              /\ Goto(k, "spawn") /\ UNCHANGED proc
           \/ UNCHANGED registry /\ Fails /\ Goto(k, "spawn") /\ UNCHANGED proc
        /\ UNCHANGED <<pidFile, sock, history>>

(* launchDaemon re-executes the binary; with --delegate the child is given *)
(* the primary's socket, and the PID file is not looked at.                *)
Spawn(k, p) ==
    /\ cmd[k].at = "spawn"
    /\ proc[p].at = "free"
    /\ proc' = [proc EXCEPT ![p] = [Free EXCEPT
          !.at = "boot", !.cfg = cmd[k].cfg,
          !.delegate = cmd[k].primary # None, !.primary = cmd[k].primary]]
    /\ cmd' = [cmd EXCEPT ![k].at = "pidfile", ![k].pid = p]
    /\ excused' = excused \cup
          (IF cmd[k].primary # None /\ \E q \in Pid : Current(q, cmd[k].cfg)
           THEN {"overlaid"} ELSE {})
    /\ UNCHANGED <<registry, pidFile, sock, events, reached>>

(* If the file cannot be written the command gives up; the daemon runs on. *)
ParentPidFile(k) ==
    LET c == cmd[k].cfg
    IN  /\ cmd[k].at = "pidfile"
        /\ \/ /\ pidFile' = [pidFile EXCEPT ![c] = cmd[k].pid]
              /\ Works /\ UNCHANGED <<proc, excused>>
              /\ Goto(k, "poll")
           \/ /\ pidFile' = pidFile \/ pidFile' = [pidFile EXCEPT ![c] = None]
              /\ Fails /\ excused' = excused \cup {"unfiled"}
              /\ Finish(k)
        /\ UNCHANGED <<registry, sock, reached>>

(* Until the socket file is there or for five seconds, when the PID        *)
(* decides; a failure lists the other instances, and a delegate's parent   *)
(* goes on in any case.                                                    *)
Poll(k) ==
    LET c == cmd[k].cfg
    IN  /\ cmd[k].at = "poll"
        /\ IF cmd[k].primary # None
           THEN Goto(k, "handoff") /\ UNCHANGED <<proc, pidFile, registry>> /\ Works
           ELSE /\ pidFile' = IsRunningCleans(c)
                /\ \/ IsRunning(c) /\ Goto(k, "wait") /\ UNCHANGED <<proc, registry>> /\ Works
                   \/ IsRunning(c) /\ Finish(k) /\ UNCHANGED registry /\ Works
                   \/ ~IsRunning(c) /\ Finish(k) /\ Listing(c)
        /\ UNCHANGED <<sock, history>>

(* waitForReady, with --wait: until every forward is up, the daemon is     *)
(* found dead, or time is up.                                              *)
WaitForReady(k) ==
    LET c == cmd[k].cfg
    IN  /\ cmd[k].at = "wait"
        /\ pidFile' = IF sock[c] = None THEN IsRunningCleans(c) ELSE pidFile
        /\ Finish(k)
        /\ UNCHANGED <<registry, sock, reached>> /\ CmdFrame

(* cmdStop looks for a delegate in the registry, and stops the daemon over *)
(* the socket if its file is there, else by the PID.                       *)
StopDial(k) ==
    LET c == cmd[k].cfg
    IN  /\ cmd[k].at = "dial"
        /\ Listing(c)
        /\ cmd' = [cmd EXCEPT
              ![k].at = IF sock[c] # None THEN "rpc" ELSE "legacy",
              ![k].serving = {p \in Pid : sock[c] = p /\ proc[p].srv = "on"
                                          /\ proc[p].at \in {"running", "reloading", "lease"}}]
        /\ UNCHANGED <<proc, pidFile, sock, history>>

(* The report of a stop; a restart goes on to wait for the exit. *)
Stopped(k) ==
    /\ reached' = reached \cup cmd[k].serving
    /\ IF cmd[k].op = "restart" THEN Goto(k, "waitexit")
       ELSE cmd' = [cmd EXCEPT ![k] = IdleCmd]

(* Mutant: the Stop handler answers and does not stop the manager. *)
StopRpcAnswersOnly(k) ==
    /\ cmd[k].at = "rpc"
    /\ Stopped(k)
    /\ UNCHANGED <<proc, registry, pidFile, sock>> /\ CmdFrame

(* Stop calls the manager's Stop, which before mgr.Start has nothing to    *)
(* cancel.  A connection that fails counts as success; after any other     *)
(* error, the Stop having reached the daemon or not, the PID is tried.     *)
StopRpc(k) ==
    LET c == cmd[k].cfg
        stops == IF Connectable(c) /\ proc[sock[c]].at # "detected"
                 THEN [proc EXCEPT ![sock[c]].term = TRUE] ELSE proc
    IN  /\ cmd[k].at = "rpc"
        /\ \/ proc' = stops /\ Works /\ Stopped(k)
           \/ /\ proc' = stops \/ proc' = proc
              /\ Fails
              /\ cmd' = [cmd EXCEPT ![k].at = "legacy", ![k].serving = {}]
              /\ UNCHANGED reached
        /\ UNCHANGED <<registry, pidFile, sock, excused>>

(* SIGTERM to the process group of the PID in the file. *)
StopLegacy(k) ==
    LET c == cmd[k].cfg
        p == pidFile[c]
    IN  /\ cmd[k].at = "legacy"
        /\ pidFile' = IsRunningCleans(c)
        /\ IF ~IsRunning(c)
           THEN /\ cmd' = [cmd EXCEPT ![k] =
                      IF cmd[k].op = "restart" THEN [@ EXCEPT !.at = "waitexit"]
                      ELSE IdleCmd]
                /\ UNCHANGED proc
           ELSE /\ proc' = IF Daemon(p) THEN [proc EXCEPT ![p].term = TRUE]
                           ELSE IF proc[p].at = "other" THEN [proc EXCEPT ![p] = Free]
                           ELSE proc
                /\ cmd' = [cmd EXCEPT ![k].at = "kill", ![k].pid = p]
        /\ UNCHANGED <<registry, sock, reached>> /\ CmdFrame

(* After five seconds what is still alive is killed, and the file removed. *)
StopKill(k) ==
    LET p == cmd[k].pid
        dies == Daemon(p)
    IN  /\ cmd[k].at = "kill"
        /\ proc' = IF dies THEN [proc EXCEPT ![p] = Free] ELSE proc
        /\ sock' = [c \in Cfg |-> IF dies /\ sock[c] = p THEN "stale" ELSE sock[c]]
        /\ \/ pidFile' = [pidFile EXCEPT ![cmd[k].cfg] = None] /\ Works
           \/ UNCHANGED pidFile /\ Fails
        /\ reached' = reached \ {p}
        /\ cmd' = [j \in Cmd |->
              IF j # k THEN [cmd[j] EXCEPT !.serving = @ \ {p}]
              ELSE IF cmd[k].op = "restart" THEN [cmd[k] EXCEPT !.at = "waitexit", !.pid = None]
              ELSE IdleCmd]
        /\ UNCHANGED <<registry, excused>>

(* waitForExit: no process and no socket, or ten seconds. *)
WaitForExit(k) ==
    /\ cmd[k].at = "waitexit"
    /\ pidFile' = IsRunningCleans(cmd[k].cfg)
    /\ cmd' = [cmd EXCEPT ![k].at = "check", ![k].pid = None]
    /\ UNCHANGED <<proc, registry, sock, reached>> /\ CmdFrame

(* buildConflictReport: the services whose static port no live instance    *)
(* reports.                                                                *)
Clean(c, live) ==
    {s \in Wanted[c] : \A e \in live : \A x \in Reports(e) : PortOf[x] # PortOf[s]}

DelegateScan(k) ==
    LET c == cmd[k].cfg
        live == Live({e \in List(c) : ~e.delegate})
        clean == Clean(c, live)
    IN  /\ cmd[k].at = "scan"
        /\ \/ /\ registry' = Pruned(c) /\ Works
              /\ \/ live = {} /\ Goto(k, "check") /\ UNCHANGED proc
                 \/ live # {} /\ clean = {} /\ Finish(k)
                 \/ /\ clean # {} /\ UNCHANGED proc
                    /\ \E e \in live :
                         cmd' = [cmd EXCEPT ![k].at = "spawn", ![k].primary = e.cfg,
                                            ![k].clean = clean]
           \/ UNCHANGED registry /\ Fails /\ Finish(k)
        /\ UNCHANGED <<pidFile, sock, history>>

(* AddService on whoever listens on the socket and has a manager at work,  *)
(* refused if it has the name or the port.                                 *)
Takes(c) ==
    /\ Connectable(c)
    /\ proc[sock[c]].at \in {"running", "reloading"} /\ ~proc[sock[c]].delegate

AddsTo(q, S, source) ==
    [proc EXCEPT ![q].forwards = [s \in Svc |->
        IF s \in S /\ \A x \in Svc : @[x] # None => PortOf[x] # PortOf[s]
        THEN source ELSE @[s]]]

(* The parent hands the services over; the primary does not look whether   *)
(* another instance has them by now.                                       *)
HandOff(k) ==
    LET c == cmd[k].primary
    IN  /\ cmd[k].at = "handoff"
        /\ LET after == IF Takes(c) THEN AddsTo(sock[c], cmd[k].clean, cmd[k].cfg) ELSE proc
           IN  proc' = [p \in Pid |-> IF p = cmd[k].pid /\ proc[p].at = "zombie"
                                      THEN Free ELSE after[p]]
        /\ cmd' = [cmd EXCEPT ![k] = IdleCmd]
        /\ excused' = excused \cup (IF Takes(c) THEN {"handed"} ELSE {})
        /\ UNCHANGED <<registry, pidFile, sock, events, reached>>

(* start --offload: the same, over this config's own socket. *)
Offload(k) ==
    LET c == cmd[k].cfg
    IN  /\ cmd[k].at = "offload"
        /\ Listing(c)
        /\ proc' = IF Takes(c) THEN AddsTo(sock[c], Wanted[c], c) ELSE proc
        /\ cmd' = [cmd EXCEPT ![k] = IdleCmd]
        /\ excused' = excused \cup (IF Takes(c) THEN {"handed"} ELSE {})
        /\ UNCHANGED <<pidFile, sock, reached>>

CmdStep(k) ==
    \/ StartCheck(k) \/ StartFind(k) \/ \E p \in Pid : Spawn(k, p)
    \/ ParentPidFile(k) \/ Poll(k) \/ WaitForReady(k)
    \/ StopDial(k) \/ StopRpc(k) \/ StopLegacy(k) \/ StopKill(k) \/ WaitForExit(k)
    \/ DelegateScan(k) \/ HandOff(k) \/ Offload(k)

Ops == {"start", "stop", "restart", "delegate", "offload"}

Next ==
    \/ \E p \in Pid :
         DaemonStep(p) \/ StartupFails(p) \/ RefreshExternal(p) \/ Crash(p) \/ ReusePid(p)
    \/ \E k \in Cmd :
         \/ CmdStep(k)
         \/ \E op \in Ops, c \in Cfg : Issue(k, op, c)

Spec == Init /\ [][Next]_vars

(* Processes that can take a step take it; nobody has to reload or crash. *)
FairSpec ==
    /\ Spec
    /\ \A p \in Pid : WF_vars(DaemonStep(p))
    /\ \A k \in Cmd : WF_vars(CmdStep(k))

-----------------------------------------------------------------------------
(* runProxy, detectExternalConflicts and Reload: no two daemons of one     *)
(* registry forward services of one port, over any sequence of starts,     *)
(* stops, crashes and reloads, unless one of them looked while the other   *)
(* was between its own look and its adds, could not be reached or had not  *)
(* been registered, or could not look at all, or services were handed to a *)
(* running daemon.                                                         *)
SingleOwner ==
    \A p, q \in Pid : \A s, t \in Svc :
        (/\ p # q /\ PortOf[s] = PortOf[t]
         /\ proc[p].forwards[s] # None /\ proc[q].forwards[t] # None
         /\ Together(proc[p].cfg, proc[q].cfg))
        => excused \cap {"unseen", "handed"} # {}

(* cmdStart's check of the PID file, which both the parent and the daemon  *)
(* write: a config has one daemon that has not given up its PID file yet,  *)
(* its own or a delegate, whatever crashed, failed or was stopped before,  *)
(* as long as no start of it runs at the same time as another start or a   *)
(* stop, no PID file fails to be written, and no delegate is started over  *)
(* a daemon of the same config.                                            *)
OneDaemonPerConfig ==
    \A p, q \in Pid : \A c \in Cfg :
        (p # q /\ Current(p, c) /\ Current(q, c))
        => excused \cap {"concurrent", "overlaid", "unfiled"} # {}

(* The registry: a daemon that has registered and serves is listed, under  *)
(* its own config, whatever other instances register, prune and deregister *)
(* and although PIDs are reused.                                           *)
RunningIsRegistered ==
    \A p \in Pid :
        /\ proc[p].reg = "listed"
        /\ proc[p].at \in {"running", "reloading", "lease", "stopping"}
        => Entry(p) \in registry

(* CleanStaleSocket and Shutdown, which remove the socket by its path: a    *)
(* daemon that serves and has begun to listen keeps its socket, whatever    *)
(* daemon of the config went before it and however that ended, as long as   *)
(* the config has had one daemon at a time in the sense above.              *)
ServerKeepsSocket ==
    \A p \in Pid :
        proc[p].srv = "on" /\ proc[p].at \in {"running", "reloading", "lease"}
        => \/ sock[proc[p].cfg] = p
           \/ excused \cap {"concurrent", "overlaid", "unfiled"} # {}

(* cmdStopGRPC and the clean-up in runProxy and runDelegateProxy: a daemon *)
(* that serves its socket when a stop command dials it, and is reported    *)
(* stopped, does exit.                                                     *)
ReachedDaemonStops == \A p \in Pid : []<>(p \notin reached)
=============================================================================
