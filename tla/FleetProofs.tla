------------------------------ MODULE FleetProofs ------------------------------
(* What Fleet promises of the registry, of a config's daemons and of the   *)
(* services, proved for any processes, configs, services and bounds.       *)
EXTENDS Fleet, TLAPS

Place == {"free", "zombie", "other", "boot", "pid", "registered", "detected", "lease",
          "running", "reloading", "stopping", "shut", "unfiled", "leaving"}

Process == [at : Place, cfg : Cfg \cup {None}, delegate : BOOLEAN,
            primary : Cfg \cup {None},
            srv : {"off", "check", "remove", "listen", "failed", "on"},
            term : BOOLEAN, reg : {"none", "open", "listed"},
            forwards : [Svc -> Cfg \cup {None}],
            external : [Svc -> Pid \cup {None}]]

Command == [op : Ops \cup {"none"}, cfg : Cfg \cup {None},
            at : {"idle", "check", "find", "spawn", "pidfile", "poll", "wait", "dial",
                  "rpc", "legacy", "kill", "waitexit", "scan", "handoff", "offload"},
            pid : Pid \cup {None}, primary : Cfg \cup {None},
            clean : SUBSET Svc, serving : SUBSET Pid]

Entries == [pid : Pid, cfg : Cfg, delegate : BOOLEAN]

TypeOK ==
    /\ proc \in [Pid -> Process]
    /\ registry \subseteq Entries
    /\ pidFile \in [Cfg -> Pid \cup {None}]
    /\ sock \in [Cfg -> Pid \cup {"stale", None}]
    /\ cmd \in [Cmd -> Command]

(* A process r with PID p, under a registry reg: a daemon has a config, one *)
(* of its own runs and forwards, and every one that could register is       *)
(* listed from before it detects the other instances' services to after it  *)
(* has stopped.                                                             *)
Gap == {"free", "zombie", "other"}
Running == {"running", "reloading"}
Looking == {"detected", "reloading"}
Listed == {"registered", "detected", "lease", "running", "reloading", "stopping", "shut",
           "unfiled"}

Sound(p, r, reg) ==
    /\ r.at \notin Gap => r.cfg \in Cfg
    /\ r.at \in Gap \cup {"boot", "pid", "registered"} => r.srv = "off"
    /\ r.at \in {"detected"} \cup Running => ~r.delegate
    /\ \A s \in Svc : r.forwards[s] # None => r.at \in Running
    /\ r.reg = "listed" /\ r.at \in Listed
          => [pid |-> p, cfg |-> r.cfg, delegate |-> r.delegate] \in reg

DaemonInv == \A p \in Pid : Sound(p, proc[p], registry)

(* A socket leads to a server that is on, and of its config.               *)
SocketInv ==
    \A c \in Cfg : sock[c] \in Pid => proc[sock[c]].srv = "on" /\ proc[sock[c]].cfg = c

(* The step a command is at goes with what it was asked to do.             *)
Apt(d) ==
    /\ d.at # "idle" => d.cfg \in Cfg
    /\ d.at \in {"check", "find", "spawn", "pidfile"} => d.op \in Starts
    /\ d.at \in {"dial", "rpc", "legacy", "kill"} => d.op \in {"stop", "restart"}
    /\ d.at = "waitexit" => d.op = "restart"
    /\ d.at = "scan" => d.op = "delegate"
    /\ d.at \in {"pidfile", "kill"} => d.pid \in Pid

CmdInv == \A k \in Cmd : Apt(cmd[k])

StateInv == TypeOK /\ DaemonInv /\ SocketInv /\ CmdInv

(* As long as nobody starts a config while somebody else starts or stops   *)
(* it, no delegate is started over a daemon and every PID file is written: *)
(* the PID file leads to the config's daemon or the daemon's parent is     *)
(* about to write it; a start that is past its check finds none; and       *)
(* neither the parent's write nor the end of a stop is about another       *)
(* daemon.                                                                 *)
Alone ==
    \A j, k \in Cmd :
        (j # k /\ cmd[j].at # "idle" /\ cmd[k].at # "idle" /\ cmd[j].cfg = cmd[k].cfg)
        => ~Excludes(cmd[j].op, cmd[k].op)

Filed ==
    \A q \in Pid : \A c \in Cfg :
        Current(q, c) => \/ pidFile[c] = q
                         \/ \E k \in Cmd : cmd[k].at = "pidfile" /\ cmd[k].cfg = c

Aimed ==
    \A k \in Cmd : \A q \in Pid :
        Current(q, cmd[k].cfg) =>
            /\ cmd[k].at \in {"pidfile", "kill"} => q = cmd[k].pid
            /\ ~(cmd[k].at \in {"find", "spawn"} /\ cmd[k].primary = None)

OneInv == excused \cap {"concurrent", "overlaid", "unfiled"} = {} => Alone /\ Filed /\ Aimed

(* As long as nobody looks while another is between its look and its adds  *)
(* or out of reach, everybody who looks sees, and nothing is handed over:  *)
(* of the daemons of one registry one at most is between its look and its  *)
(* adds, it has seen every service of the others that it wants, and no     *)
(* port is forwarded twice.                                                *)
OneLooks ==
    \A p, q \in Pid :
        (/\ proc[p].at \in Looking /\ proc[q].at \in Looking
         /\ Together(proc[p].cfg, proc[q].cfg))
        => p = q

Seen ==
    \A p, q \in Pid : \A s, t \in Svc :
        (/\ p # q /\ PortOf[s] = PortOf[t] /\ proc[p].forwards[s] # None
         /\ proc[q].at \in Looking /\ t \in Wanted[proc[q].cfg]
         /\ Together(proc[p].cfg, proc[q].cfg))
        => proc[q].external[t] # None

NoneTwice ==
    \A p, q \in Pid : \A s, t \in Svc :
        ~(/\ p # q /\ PortOf[s] = PortOf[t]
          /\ proc[p].forwards[s] # None /\ proc[q].forwards[t] # None
          /\ Together(proc[p].cfg, proc[q].cfg))

OwnerInv == excused \cap {"unseen", "handed"} = {} => OneLooks /\ Seen /\ NoneTwice

IInv == StateInv /\ OneInv /\ OwnerInv

-----------------------------------------------------------------------------
(* What a step leaves alone.                                               *)

CurrentKept == \A q \in Pid : \A c \in Cfg : Current(q, c)' => Current(q, c)

CmdKept ==
    \A k \in Cmd : /\ cmd'[k].at = cmd[k].at /\ cmd'[k].op = cmd[k].op
                    /\ cmd'[k].cfg = cmd[k].cfg /\ cmd'[k].pid = cmd[k].pid
                    /\ cmd'[k].primary = cmd[k].primary

OwnersKept ==
    \A q \in Pid :
        /\ \A s \in Svc : proc'[q].forwards[s] # None =>
               proc[q].forwards[s] # None /\ proc'[q].cfg = proc[q].cfg
        /\ proc'[q].at \in Looking =>
               /\ proc[q].at \in Looking /\ proc'[q].cfg = proc[q].cfg
               /\ proc'[q].external = proc[q].external

FileKept ==
    Alone /\ Filed /\ Aimed =>
        \A q \in Pid : \A c \in Cfg : Current(q, c)' /\ pidFile[c] = q => pidFile'[c] = q

LEMMA OnlyOne ==
    ASSUME Filed, Aimed, NEW p \in Pid, NEW q \in Pid, NEW c \in Cfg,
           Current(p, c), Current(q, c)
    PROVE  p = q
BY DEF Filed, Aimed

(* No new daemon, the commands as they are, and the PID files of the       *)
(* daemons that are left: nothing is lost.                                 *)
LEMMA OneKept ==
    ASSUME OneInv, CmdInv, CurrentKept, CmdKept, excused \subseteq excused', FileKept
    PROVE  OneInv'
<1>1. CASE excused' \cap {"concurrent", "overlaid", "unfiled"} # {}
  BY <1>1 DEF OneInv
<1>2. CASE excused' \cap {"concurrent", "overlaid", "unfiled"} = {}
  <2>1. Alone /\ Filed /\ Aimed
    BY <1>2 DEF OneInv
  <2>2. Alone'
    BY <2>1 DEF Alone, CmdKept
  <2>3. Filed'
    BY <2>1 DEF Filed, CmdKept, CurrentKept, FileKept
  <2>4. Aimed'
    <3> SUFFICES ASSUME NEW k \in Cmd, NEW q \in Pid, Current(q, cmd[k].cfg)'
                 PROVE  /\ cmd'[k].at \in {"pidfile", "kill"} => q = cmd'[k].pid
                        /\ ~(cmd'[k].at \in {"find", "spawn"} /\ cmd'[k].primary = None)
      BY DEF Aimed
    <3>1. CASE cmd[k].at = "idle"
      BY <3>1 DEF CmdKept
    <3>2. CASE cmd[k].at # "idle"
      <4>1. cmd[k].cfg \in Cfg /\ cmd'[k].cfg = cmd[k].cfg
        BY <3>2 DEF CmdInv, Apt, CmdKept
      <4>2. Current(q, cmd[k].cfg)
        BY <4>1 DEF CurrentKept, Current
      <4> QED
        BY <4>2, <2>1 DEF Aimed, CmdKept
    <3> QED
      BY <3>1, <3>2
  <2> QED
    BY <2>2, <2>3, <2>4 DEF OneInv
<1> QED
  BY <1>1, <1>2

LEMMA OwnerKept ==
    ASSUME OwnerInv, OwnersKept, excused \subseteq excused'
    PROVE  OwnerInv'
<1>1. CASE excused' \cap {"unseen", "handed"} # {}
  BY <1>1 DEF OwnerInv
<1>2. CASE excused' \cap {"unseen", "handed"} = {}
  <2>1. OneLooks /\ Seen /\ NoneTwice
    BY <1>2 DEF OwnerInv
  <2>2. OneLooks'
    BY <2>1 DEF OneLooks, OwnersKept
  <2>3. Seen'
    BY <2>1 DEF Seen, OwnersKept
  <2>4. NoneTwice'
    BY <2>1 DEF NoneTwice, OwnersKept
  <2> QED
    BY <2>2, <2>3, <2>4 DEF OwnerInv
<1> QED
  BY <1>1, <1>2

-----------------------------------------------------------------------------

(* One process changes, and it may take its socket or leave it.            *)
LEMMA OneTurns ==
    ASSUME StateInv, NEW p \in Pid, NEW r \in Process, Sound(p, r, registry'),
           proc' = [proc EXCEPT ![p] = r],
           registry' \subseteq Entries,
           \A e \in registry : IsAlive(e.pid) /\ e.pid # p => e \in registry',
           pidFile' \in [Cfg -> Pid \cup {None}], sock' \in [Cfg -> Pid \cup {"stale", None}],
           \A c \in Cfg : sock'[c] \in Pid =>
              IF sock'[c] = p THEN r.srv = "on" /\ r.cfg = c ELSE sock'[c] = sock[c],
           cmd' \in [Cmd -> Command], CmdKept
    PROVE  StateInv'
<1>1. /\ proc' \in [Pid -> Process] /\ proc'[p] = r
      /\ \A q \in Pid \ {p} : proc'[q] = proc[q]
  BY DEF StateInv, TypeOK
<1>2. TypeOK'
  BY <1>1 DEF TypeOK
<1>3. DaemonInv'
  <2> SUFFICES ASSUME NEW q \in Pid, q # p
               PROVE  Sound(q, proc[q], registry')
    BY <1>1 DEF DaemonInv
  <2>1. Sound(q, proc[q], registry)
    BY DEF StateInv, DaemonInv
  <2>2. proc[q].at \in Listed => IsAlive(q)
    BY DEF Listed, IsAlive
  <2> QED
    BY <2>1, <2>2 DEF Sound
<1>4. SocketInv'
  BY <1>1 DEF StateInv, SocketInv
<1>5. CmdInv'
  BY DEF StateInv, CmdInv, Apt, CmdKept
<1> QED
  BY <1>2, <1>3, <1>4, <1>5 DEF StateInv

LEMMA Turned ==
    ASSUME StateInv, NEW p \in Pid, NEW r \in Process, proc' = [proc EXCEPT ![p] = r]
    PROVE  proc'[p] = r /\ \A q \in Pid \ {p} : proc'[q] = proc[q]
BY DEF StateInv, TypeOK

LEMMA FileSame ==
    ASSUME StateInv, pidFile' = pidFile
    PROVE  FileKept /\ pidFile' \in [Cfg -> Pid \cup {None}]
BY DEF StateInv, TypeOK, FileKept

LEMMA FrameKept == ASSUME StateInv, cmd' = cmd PROVE CmdKept /\ cmd' \in [Cmd -> Command]
BY DEF StateInv, TypeOK, CmdKept

(* The registry as an operation of it may leave it, for all but process p. *)
RegistryKept(p) ==
    /\ registry' \subseteq Entries
    /\ \A e \in registry : IsAlive(e.pid) /\ e.pid # p => e \in registry'

LEMMA RegistryOperations ==
    ASSUME StateInv, NEW p \in Pid
    PROVE  /\ registry' = registry => RegistryKept(p)
           /\ \A c \in Cfg : registry' = Pruned(c) => RegistryKept(p)
           /\ registry' = Deregister(p) => RegistryKept(p)
           /\ registry' = Register(Entry(p)) /\ proc[p].at \notin Gap => RegistryKept(p)
<1>1. proc[p].at \notin Gap => Entry(p) \in Entries /\ Entry(p).pid = p
  BY DEF StateInv, TypeOK, DaemonInv, Sound, Entry, Entries, Process
<1>2. registry \subseteq Entries
  BY DEF StateInv, TypeOK
<1> QED
  BY <1>1, <1>2 DEF RegistryKept, Pruned, Deregister, Register

(* The sockets after a step of p, which is r from now on.                  *)
SocketsKept(p, r) ==
    /\ sock' \in [Cfg -> Pid \cup {"stale", None}]
    /\ \A c \in Cfg : sock'[c] \in Pid =>
          IF sock'[c] = p THEN r.srv = "on" /\ r.cfg = c ELSE sock'[c] = sock[c]

LEMMA SocketsSame ==
    ASSUME StateInv, NEW p \in Pid, NEW r, sock' = sock,
           r.cfg = proc[p].cfg, proc[p].srv = "on" => r.srv = "on"
    PROVE  SocketsKept(p, r)
BY DEF StateInv, TypeOK, SocketInv, SocketsKept

(* A daemon goes on, or ends.                                              *)
LEMMA Turn ==
    ASSUME IInv, NEW p \in Pid, NEW r \in Process, proc' = [proc EXCEPT ![p] = r],
           Sound(p, r, registry'), RegistryKept(p), SocketsKept(p, r),
           pidFile' \in [Cfg -> Pid \cup {None}], FileKept \/ "unfiled" \in excused',
           cmd' \in [Cmd -> Command], CmdKept, excused \subseteq excused',
           r.at \in Gap \/ r.cfg = proc[p].cfg,
           proc[p].at \in Gap \cup {"unfiled", "leaving"}
              => r.at \in Gap \cup {"unfiled", "leaving"}
    PROVE  StateInv' /\ OneInv'
<1>0. StateInv
  BY DEF IInv
<1>1. StateInv'
  BY <1>0, OneTurns DEF StateInv, TypeOK, RegistryKept, SocketsKept
<1>2. proc'[p] = r /\ \A q \in Pid \ {p} : proc'[q] = proc[q]
  BY <1>0, Turned
<1>3. CurrentKept
  BY <1>2 DEF CurrentKept, Current, Daemon, Gap
<1>4. CASE "unfiled" \in excused'
  BY <1>1, <1>4 DEF OneInv
<1> QED
  BY <1>1, <1>3, <1>4, OneKept DEF IInv, StateInv

(* It neither forwards more than it did nor is about to.                   *)
LEMMA Quiet ==
    ASSUME IInv, NEW p \in Pid, NEW r \in Process, proc' = [proc EXCEPT ![p] = r],
           excused \subseteq excused',
           r.cfg = proc[p].cfg \/ (r.at \in Gap /\ \A s \in Svc : r.forwards[s] = None),
           \A s \in Svc : r.forwards[s] # None => proc[p].forwards[s] # None,
           r.at \in Looking => proc[p].at \in Looking /\ r.external = proc[p].external
    PROVE  OwnerInv'
<1>1. proc'[p] = r /\ \A q \in Pid \ {p} : proc'[q] = proc[q]
  BY Turned DEF IInv
<1>2. OwnersKept
  BY <1>1 DEF OwnersKept, Gap, Looking
<1> QED
  BY <1>2, OwnerKept DEF IInv

-----------------------------------------------------------------------------
(* The steps of a daemon that come to neither its PID file nor to what it  *)
(* forwards.                                                               *)

LEMMA RegisterSelfKeeps ==
    ASSUME IInv, NEW p \in Pid, RegisterSelf(p)
    PROVE  IInv'
<1>0. StateInv /\ Sound(p, proc[p], registry) /\ proc[p].at = "pid"
  BY DEF IInv, StateInv, DaemonInv, RegisterSelf
<1>a. PICK g \in {"none", "open", "listed"} :
         /\ proc' = [proc EXCEPT ![p].at = "registered", ![p].reg = g]
         /\ IF g = "listed" THEN registry' = Register(Entry(p)) ELSE registry' = registry
  BY DEF RegisterSelf
<1> DEFINE r == [proc[p] EXCEPT !.at = "registered", !.reg = g]
<1>1. /\ r \in Process /\ r.at = "registered" /\ r.cfg = proc[p].cfg /\ r.srv = proc[p].srv
      /\ r.delegate = proc[p].delegate /\ r.reg = g /\ r.forwards = proc[p].forwards
  BY <1>0 DEF StateInv, TypeOK, Process, Place
<1>2. proc' = [proc EXCEPT ![p] = r]
  BY <1>a
<1> HIDE DEF r
<1>3. RegistryKept(p) /\ (g = "listed" => Entry(p) \in registry')
  BY <1>0, <1>a, RegistryOperations DEF Gap, Register
<1>4. Sound(p, r, registry')
  BY <1>0, <1>1, <1>3 DEF Sound, Gap, Running, Entry
<1>5. SocketsKept(p, r)
  BY <1>0, <1>1, SocketsSame DEF RegisterSelf
<1>6. StateInv' /\ OneInv'
  BY <1>0, <1>1, <1>2, <1>3, <1>4, <1>5, FileSame, FrameKept, Turn DEF
     RegisterSelf, history, DaemonFrame, Gap
<1>7. OwnerInv'
  <2>1. excused' = excused
    BY DEF RegisterSelf, history
  <2> QED
    BY <1>1, <1>2, <2>1, Quiet DEF Looking, Gap
<1> QED
  BY <1>6, <1>7 DEF IInv

LEMMA DeregisterSelfKeeps ==
    ASSUME IInv, NEW p \in Pid, DeregisterSelf(p)
    PROVE  IInv'
<1> DEFINE r == [proc[p] EXCEPT !.at = "leaving"]
<1>0. StateInv /\ Sound(p, proc[p], registry)
  BY DEF IInv, StateInv, DaemonInv
<1>1. /\ r \in Process /\ r.at = "leaving" /\ r.cfg = proc[p].cfg /\ r.srv = proc[p].srv
      /\ r.delegate = proc[p].delegate /\ r.reg = proc[p].reg
      /\ r.forwards = proc[p].forwards
      /\ proc[p].at = "unfiled"
  BY <1>0 DEF StateInv, TypeOK, Process, Place, DeregisterSelf, Step
<1>2. proc' = [proc EXCEPT ![p] = r]
  BY DEF DeregisterSelf, Step
<1> HIDE DEF r
<1>3. RegistryKept(p)
  BY <1>0, RegistryOperations DEF DeregisterSelf
<1>4. Sound(p, r, registry')
  BY <1>0, <1>1 DEF Sound, Gap, Running, Listed
<1>5. SocketsKept(p, r)
  BY <1>0, <1>1, SocketsSame DEF DeregisterSelf
<1>6. StateInv' /\ OneInv'
  BY <1>0, <1>1, <1>2, <1>3, <1>4, <1>5, FileSame, FrameKept, Turn DEF
     DeregisterSelf, history, DaemonFrame, Gap
<1>7. OwnerInv'
  <2>1. excused' = excused
    BY DEF DeregisterSelf, history
  <2> QED
    BY <1>1, <1>2, <2>1, Quiet DEF Looking, Gap
<1> QED
  BY <1>6, <1>7 DEF IInv

LEMMA LeaseKeeps ==
    ASSUME IInv, NEW p \in Pid, Lease(p)
    PROVE  IInv'
<1> DEFINE r == [proc[p] EXCEPT !.at = "lease", !.srv = "check"]
<1>0. StateInv /\ Sound(p, proc[p], registry)
  BY DEF IInv, StateInv, DaemonInv
<1>1. /\ r \in Process /\ r.at = "lease" /\ r.cfg = proc[p].cfg /\ r.srv = "check"
      /\ r.delegate = proc[p].delegate /\ r.reg = proc[p].reg
      /\ r.forwards = proc[p].forwards
      /\ proc[p].at = "registered"
  <2>1. proc[p] \in Process /\ "lease" \in Place /\ proc[p].at = "registered"
    BY <1>0 DEF StateInv, TypeOK, Place, Lease
  <2> QED
    BY <2>1 DEF Process
<1>2. proc' = [proc EXCEPT ![p] = r]
  BY DEF Lease
<1> HIDE DEF r
<1>3. RegistryKept(p)
  BY <1>0, RegistryOperations DEF Lease
<1>4. Sound(p, r, registry')
  BY <1>0, <1>1 DEF Sound, Gap, Running, Listed, Lease
<1>5. SocketsKept(p, r)
  BY <1>0, <1>1, SocketsSame DEF Lease, Sound
<1>6. StateInv' /\ OneInv'
  BY <1>0, <1>1, <1>2, <1>3, <1>4, <1>5, FileSame, FrameKept, Turn DEF Lease,
     history, DaemonFrame, Gap
<1>7. OwnerInv'
  <2>1. excused' = excused
    BY DEF Lease, history
  <2> QED
    BY <1>1, <1>2, <2>1, Quiet DEF Looking, Gap
<1> QED
  BY <1>6, <1>7 DEF IInv

LEMMA CleanStaleSocketKeeps ==
    ASSUME IInv, NEW p \in Pid, CleanStaleSocket(p)
    PROVE  IInv'
<1>0. StateInv /\ Sound(p, proc[p], registry) /\ proc[p].at \notin Gap
  BY DEF IInv, StateInv, DaemonInv, CleanStaleSocket, Daemon, Gap
<1>1. PICK v \in {"listen", "failed", "remove"} :
         /\ proc' = [proc EXCEPT ![p].srv = v]
         /\ proc[p].srv \in {"check", "remove"}
         /\ sock' = sock \/ sock' = [sock EXCEPT ![proc[p].cfg] = None]
  BY DEF CleanStaleSocket
<1> DEFINE r == [proc[p] EXCEPT !.srv = v]
<1>2. /\ r \in Process /\ r.at = proc[p].at /\ r.cfg = proc[p].cfg
      /\ r.delegate = proc[p].delegate /\ r.reg = proc[p].reg
      /\ r.forwards = proc[p].forwards
      /\ r.external = proc[p].external
  BY <1>0 DEF StateInv, TypeOK, Process
<1>3. proc' = [proc EXCEPT ![p] = r]
  BY <1>1
<1> HIDE DEF r
<1>4. RegistryKept(p) /\ registry' = registry
  BY <1>0, RegistryOperations DEF CleanStaleSocket
<1>5. Sound(p, r, registry')
  BY <1>0, <1>1, <1>2, <1>4 DEF Sound
<1>6. SocketsKept(p, r)
  BY <1>0, <1>1, <1>2, FleetAssumption
  DEF SocketsKept, StateInv, TypeOK, SocketInv, Sound, Gap
<1>7. StateInv' /\ OneInv'
  BY <1>0, <1>2, <1>3, <1>4, <1>5, <1>6, FileSame, FrameKept, Turn DEF
     CleanStaleSocket, history, DaemonFrame, Gap
<1>8. OwnerInv'
  <2>1. excused' = excused
    BY DEF CleanStaleSocket, history
  <2> QED
    BY <1>2, <1>3, <2>1, Quiet DEF Looking, Gap
<1> QED
  BY <1>7, <1>8 DEF IInv

LEMMA StartUnixKeeps ==
    ASSUME IInv, NEW p \in Pid, StartUnix(p)
    PROVE  IInv'
<1>0. StateInv /\ Sound(p, proc[p], registry) /\ proc[p].at \notin Gap
  BY DEF IInv, StateInv, DaemonInv, StartUnix, Daemon, Gap
<1>1. PICK v \in {"on", "failed"} :
         /\ proc' = [proc EXCEPT ![p].srv = v]
         /\ proc[p].srv = "listen"
         /\ \/ sock' = sock
            \/ v = "on" /\ sock' = [sock EXCEPT ![proc[p].cfg] = p]
  BY DEF StartUnix
<1> DEFINE r == [proc[p] EXCEPT !.srv = v]
<1>2. /\ r \in Process /\ r.at = proc[p].at /\ r.cfg = proc[p].cfg /\ r.srv = v
      /\ r.delegate = proc[p].delegate /\ r.reg = proc[p].reg
      /\ r.forwards = proc[p].forwards
      /\ r.external = proc[p].external
  BY <1>0 DEF StateInv, TypeOK, Process
<1>3. proc' = [proc EXCEPT ![p] = r]
  BY <1>1
<1> HIDE DEF r
<1>4. RegistryKept(p) /\ registry' = registry
  BY <1>0, RegistryOperations DEF StartUnix
<1>5. Sound(p, r, registry')
  BY <1>0, <1>1, <1>2, <1>4 DEF Sound
<1>6. SocketsKept(p, r)
  BY <1>0, <1>1, <1>2, FleetAssumption
  DEF SocketsKept, StateInv, TypeOK, SocketInv, Sound, Gap
<1>7. StateInv' /\ OneInv'
  BY <1>0, <1>2, <1>3, <1>4, <1>5, <1>6, FileSame, FrameKept, Turn DEF
     StartUnix, history, DaemonFrame, Gap
<1>8. OwnerInv'
  <2>1. excused' = excused
    BY DEF StartUnix, history
  <2> QED
    BY <1>2, <1>3, <2>1, Quiet DEF Looking, Gap
<1> QED
  BY <1>7, <1>8 DEF IInv

LEMMA ShutdownKeeps ==
    ASSUME IInv, NEW p \in Pid, Shutdown(p)
    PROVE  IInv'
<1>0. StateInv /\ Sound(p, proc[p], registry) /\ proc[p].at = "stopping"
  BY DEF IInv, StateInv, DaemonInv, Shutdown
<1>1. PICK v \in {"off", proc[p].srv} :
         /\ proc' = [proc EXCEPT ![p].at = "shut", ![p].srv = v]
         /\ \/ sock' = sock /\ proc[p].srv # "on"
            \/ sock' = [sock EXCEPT ![proc[p].cfg] = None]
  <2>1. CASE proc[p].srv = "on"
    BY <2>1 DEF Shutdown
  <2>2. CASE proc[p].srv # "on"
    <3>1. [proc EXCEPT ![p].at = "shut"] = [proc EXCEPT ![p].at = "shut", ![p].srv = proc[p].srv]
      BY <1>0 DEF StateInv, TypeOK, Process
    <3> QED
      BY <2>2, <3>1 DEF Shutdown
  <2> QED
    BY <2>1, <2>2
<1> DEFINE r == [proc[p] EXCEPT !.at = "shut", !.srv = v]
<1>2. /\ r \in Process /\ r.at = "shut" /\ r.cfg = proc[p].cfg
      /\ r.delegate = proc[p].delegate /\ r.reg = proc[p].reg
      /\ r.forwards = proc[p].forwards
  BY <1>0 DEF StateInv, TypeOK, Process, Place
<1>3. proc' = [proc EXCEPT ![p] = r]
  BY <1>1
<1> HIDE DEF r
<1>4. RegistryKept(p) /\ registry' = registry
  BY <1>0, RegistryOperations DEF Shutdown
<1>5. Sound(p, r, registry')
  BY <1>0, <1>1, <1>2, <1>4 DEF Sound, Gap, Running, Listed
<1>6. SocketsKept(p, r)
  BY <1>0, <1>1, <1>2, FleetAssumption
  DEF SocketsKept, StateInv, TypeOK, SocketInv, Sound, Gap
<1>7. StateInv' /\ OneInv'
  BY <1>0, <1>2, <1>3, <1>4, <1>5, <1>6, FileSame, FrameKept, Turn DEF
     Shutdown, history, DaemonFrame, Gap
<1>8. OwnerInv'
  <2>1. excused' = excused
    BY DEF Shutdown, history
  <2> QED
    BY <1>2, <1>3, <2>1, Quiet DEF Looking, Gap
<1> QED
  BY <1>7, <1>8 DEF IInv

LEMMA ReusePidKeeps ==
    ASSUME IInv, NEW p \in Pid, ReusePid(p)
    PROVE  IInv'
<1> DEFINE r == [proc[p] EXCEPT !.at = "other"]
<1>0. StateInv /\ Sound(p, proc[p], registry)
  BY DEF IInv, StateInv, DaemonInv
<1>1. /\ r \in Process /\ r.at = "other" /\ r.cfg = proc[p].cfg /\ r.srv = proc[p].srv
      /\ r.delegate = proc[p].delegate /\ r.reg = proc[p].reg
      /\ r.forwards = proc[p].forwards
      /\ proc[p].at = "free"
  BY <1>0 DEF StateInv, TypeOK, Process, Place, ReusePid
<1>2. proc' = [proc EXCEPT ![p] = r]
  BY DEF ReusePid
<1> HIDE DEF r
<1>3. RegistryKept(p) /\ registry' = registry
  BY <1>0, RegistryOperations DEF ReusePid
<1>4. Sound(p, r, registry')
  BY <1>0, <1>1, <1>3 DEF Sound, Gap, Running, Listed
<1>5. SocketsKept(p, r)
  BY <1>0, <1>1, SocketsSame DEF ReusePid
<1>6. StateInv' /\ OneInv'
  BY <1>0, <1>1, <1>2, <1>3, <1>4, <1>5, FileSame, FrameKept, Turn DEF
     ReusePid, history, DaemonFrame, Gap
<1>7. OwnerInv'
  <2>1. excused' = excused
    BY DEF ReusePid, history
  <2> QED
    BY <1>1, <1>2, <2>1, Quiet DEF Looking, Gap
<1> QED
  BY <1>6, <1>7 DEF IInv

-----------------------------------------------------------------------------
(* The PID file: each daemon writes its own once, and takes it with it.    *)

LEMMA WritePidFileKeeps ==
    ASSUME IInv, NEW p \in Pid, WritePidFile(p)
    PROVE  IInv'
<1> DEFINE r == [proc[p] EXCEPT !.at = "pid"]
<1>0. StateInv /\ Sound(p, proc[p], registry)
  BY DEF IInv, StateInv, DaemonInv
<1>1. /\ r \in Process /\ r.at = "pid" /\ r.cfg = proc[p].cfg /\ r.srv = proc[p].srv
      /\ r.delegate = proc[p].delegate /\ r.reg = proc[p].reg
      /\ r.forwards = proc[p].forwards
      /\ proc[p].at = "boot"
  <2>1. proc[p] \in Process /\ "pid" \in Place /\ proc[p].at = "boot"
    BY <1>0 DEF StateInv, TypeOK, Place, WritePidFile, Step
  <2> QED
    BY <2>1 DEF Process
<1>2. proc' = [proc EXCEPT ![p] = r]
  BY DEF WritePidFile, Step
<1> HIDE DEF r
<1>3. RegistryKept(p) /\ registry' = registry
  BY <1>0, RegistryOperations DEF WritePidFile
<1>4. Sound(p, r, registry')
  BY <1>0, <1>1, <1>3 DEF Sound, Gap, Running, Listed
<1>5. SocketsKept(p, r)
  BY <1>0, <1>1, SocketsSame DEF WritePidFile
<1>6. ASSUME pidFile' = [pidFile EXCEPT ![proc[p].cfg] = p], excused' = excused
      PROVE  StateInv' /\ OneInv'
  <2>1. pidFile \in [Cfg -> Pid \cup {None}]
    BY <1>0 DEF StateInv, TypeOK
  <2>2. Current(p, proc[p].cfg) /\ proc[p].cfg \in Cfg
    BY <1>0, <1>1 DEF Current, Daemon, Sound, Gap
  <2>3. proc'[p] = r /\ \A q \in Pid \ {p} : proc'[q] = proc[q]
    BY <1>0, <1>1, <1>2, Turned
  <2>4. CurrentKept
    BY <1>1, <2>3 DEF CurrentKept, Current, Daemon
  <2>5. FileKept
    BY <1>6, <2>1, <2>2, <2>4, OnlyOne DEF FileKept, CurrentKept
  <2>6. pidFile' \in [Cfg -> Pid \cup {None}]
    BY <1>6, <2>1
  <2> QED
    BY <1>0, <1>1, <1>2, <1>3, <1>4, <1>5, <1>6, <2>5, <2>6, FrameKept, Turn
    DEF WritePidFile, Gap
<1>7. ASSUME "unfiled" \in excused', excused \subseteq excused',
             pidFile' = pidFile \/ pidFile' = [pidFile EXCEPT ![proc[p].cfg] = None]
      PROVE  StateInv' /\ OneInv'
  <2>1. pidFile' \in [Cfg -> Pid \cup {None}]
    BY <1>0, <1>7 DEF StateInv, TypeOK
  <2> QED
    BY <1>0, <1>1, <1>2, <1>3, <1>4, <1>5, <1>7, <2>1, FrameKept, Turn
    DEF WritePidFile, Gap
<1>8. StateInv' /\ OneInv'
  BY <1>6, <1>7 DEF WritePidFile
<1>9. OwnerInv'
  <2>1. excused \subseteq excused'
    BY DEF WritePidFile
  <2> QED
    BY <1>1, <1>2, <2>1, Quiet DEF Looking, Gap
<1> QED
  BY <1>8, <1>9 DEF IInv

LEMMA RemovePidFileKeeps ==
    ASSUME IInv, NEW p \in Pid, RemovePidFile(p)
    PROVE  IInv'
<1> DEFINE r == [proc[p] EXCEPT !.at = "unfiled"]
<1>0. StateInv /\ Sound(p, proc[p], registry)
  BY DEF IInv, StateInv, DaemonInv
<1>1. /\ r \in Process /\ r.at = "unfiled" /\ r.cfg = proc[p].cfg /\ r.srv = proc[p].srv
      /\ r.delegate = proc[p].delegate /\ r.reg = proc[p].reg
      /\ r.forwards = proc[p].forwards
      /\ proc[p].at = "shut"
  BY <1>0 DEF StateInv, TypeOK, Process, Place, RemovePidFile, Step
<1>2. proc' = [proc EXCEPT ![p] = r]
  BY DEF RemovePidFile, Step
<1> HIDE DEF r
<1>3. RegistryKept(p) /\ registry' = registry
  BY <1>0, RegistryOperations DEF RemovePidFile
<1>4. Sound(p, r, registry')
  BY <1>0, <1>1, <1>3 DEF Sound, Gap, Running, Listed
<1>5. SocketsKept(p, r)
  BY <1>0, <1>1, SocketsSame DEF RemovePidFile
<1>6. pidFile' \in [Cfg -> Pid \cup {None}] /\ FileKept
  <2>1. /\ pidFile' = [pidFile EXCEPT ![proc[p].cfg] = None] \/ pidFile' = pidFile
        /\ pidFile \in [Cfg -> Pid \cup {None}]
    BY <1>0 DEF RemovePidFile, StateInv, TypeOK
  <2>2. Current(p, proc[p].cfg) /\ proc[p].cfg \in Cfg
    BY <1>0, <1>1 DEF Current, Daemon, Sound, Gap
  <2>3. proc'[p] = r /\ \A q \in Pid \ {p} : proc'[q] = proc[q]
    BY <1>0, <1>1, <1>2, Turned
  <2>4. \A q \in Pid : \A c \in Cfg : Current(q, c)' => q # p /\ Current(q, c)
    BY <1>1, <2>3 DEF Current, Daemon
  <2>5. FileKept
    BY <2>1, <2>2, <2>4, OnlyOne DEF FileKept
  <2> QED
    BY <2>1, <2>5
<1>7. StateInv' /\ OneInv'
  BY <1>0, <1>1, <1>2, <1>3, <1>4, <1>5, <1>6, FrameKept, Turn DEF
     RemovePidFile, history, DaemonFrame, Gap
<1>8. OwnerInv'
  <2>1. excused' = excused
    BY DEF RemovePidFile, history
  <2> QED
    BY <1>1, <1>2, <2>1, Quiet DEF Looking, Gap
<1> QED
  BY <1>7, <1>8 DEF IInv

-----------------------------------------------------------------------------
(* The end of a process.                                                   *)

LEMMA Ends ==
    ASSUME IInv, NEW p \in Pid, Gone(p), registry' = registry, pidFile' = pidFile,
           excused' = excused,
           cmd' = [k \in Cmd |-> [cmd[k] EXCEPT !.serving = @ \ {p}]]
    PROVE  IInv'
<1>0. StateInv
  BY DEF IInv
<1>1. \A z \in {Free, [Free EXCEPT !.at = "zombie"]} :
         /\ z \in Process /\ z.at \in Gap /\ z.srv = "off"
         /\ \A s \in Svc : z.forwards[s] = None
  <2>1. /\ Free \in Process /\ Free.at \in Gap /\ Free.srv = "off"
        /\ \A s \in Svc : Free.forwards[s] = None
    BY DEF Free, Nothing, Process, Place, Gap
  <2>2. LET z == [Free EXCEPT !.at = "zombie"]
        IN  /\ z \in Process /\ z.at \in Gap /\ z.srv = "off"
            /\ \A s \in Svc : z.forwards[s] = None
    BY <2>1 DEF Process, Place, Gap
  <2> QED
    BY <2>1, <2>2
<1>2. PICK r \in {Free, [Free EXCEPT !.at = "zombie"]} : proc' = [proc EXCEPT ![p] = r]
  BY DEF Gone
<1>3. r \in Process /\ r.at \in Gap /\ r.srv = "off" /\ \A s \in Svc : r.forwards[s] = None
  BY <1>1
<1>4. RegistryKept(p)
  BY <1>0, RegistryOperations
<1>5. Sound(p, r, registry')
  BY <1>3 DEF Sound, Gap, Running, Listed
<1>6. SocketsKept(p, r)
  BY <1>0, FleetAssumption DEF SocketsKept, Gone, StateInv, TypeOK
<1>7. cmd' \in [Cmd -> Command] /\ CmdKept
  <2>1. \A k \in Cmd : cmd[k] \in Command
    BY <1>0 DEF StateInv, TypeOK
  <2>2. ASSUME NEW k \in Cmd
        PROVE  /\ [cmd[k] EXCEPT !.serving = @ \ {p}] \in Command
               /\ cmd'[k].at = cmd[k].at /\ cmd'[k].op = cmd[k].op
               /\ cmd'[k].cfg = cmd[k].cfg /\ cmd'[k].pid = cmd[k].pid
               /\ cmd'[k].primary = cmd[k].primary
    BY <2>1 DEF Command
  <2> QED
    BY <2>2 DEF CmdKept
<1>8. StateInv' /\ OneInv'
  <2>1. pidFile' \in [Cfg -> Pid \cup {None}] /\ FileKept
    BY <1>0, FileSame
  <2> QED
    BY <1>2, <1>3, <1>4, <1>5, <1>6, <1>7, <2>1, Turn
<1>9. OwnerInv'
  BY <1>2, <1>3, Quiet DEF Looking, Gap
<1> QED
  BY <1>8, <1>9 DEF IInv

LEMMA DeathKeeps ==
    ASSUME IInv, NEW p \in Pid, StartupFails(p) \/ Exit(p) \/ Crash(p)
    PROVE  IInv'
BY Ends DEF StartupFails, Exit, Crash

-----------------------------------------------------------------------------
(* Detection sees what a registered daemon within reach forwards.          *)

LEMMA SeesOwner ==
    ASSUME StateInv, NEW p \in Pid, NEW q \in Pid, p # q, NEW s \in Svc, NEW t \in Svc,
           PortOf[s] = PortOf[t], proc[q].forwards[s] # None, sock[proc[q].cfg] = q,
           proc[q].reg = "listed", Together(proc[q].cfg, proc[p].cfg)
    PROVE  Owners(p, t) # {}
<1> DEFINE e == Entry(q)
           L == List(proc[p].cfg)
<1>1. Sound(q, proc[q], registry) /\ proc[q].at \in Running /\ proc[q].cfg \in Cfg
  BY DEF StateInv, DaemonInv, Sound, Running, Gap
<1>2. e \in L /\ e.pid # p /\ ~e.delegate
  BY <1>1 DEF Sound, Running, Listed, Entry, List, IsAlive
<1>3. Connectable(e.cfg) /\ e.cfg = proc[q].cfg
  BY <1>1 DEF Connectable, Entry, StateInv, SocketInv
<1>4. s \in Reports(e)
  BY <1>1, <1>2, <1>3 DEF Reports, Status, Entry
<1>5. e \in Live({x \in L : x.pid # p /\ ~x.delegate})
  BY <1>2, <1>3 DEF Live
<1> HIDE DEF e
<1> QED
  BY <1>4, <1>5 DEF Owners

LEMMA OwnersArePids ==
    ASSUME StateInv, NEW p \in Pid, NEW t \in Svc
    PROVE  Owners(p, t) \subseteq Pid
<1>1. \A e \in registry : e.pid \in Pid
  BY DEF StateInv, TypeOK, Entries
<1> QED
  BY <1>1 DEF Owners, Live, List

(* A daemon looks, and every other one of its directory can be seen.       *)
LEMMA ClearDetects ==
    ASSUME StateInv, NEW p \in Pid, ~Unseen(p), NEW ext, Detects(p, ext),
           NEW q \in Pid, p # q, NEW s \in Svc, NEW t \in Svc,
           PortOf[s] = PortOf[t], proc[q].forwards[s] # None, t \in Wanted[proc[p].cfg],
           Together(proc[q].cfg, proc[p].cfg)
    PROVE  ext[t] # None
<1>1. Sound(q, proc[q], registry)
  BY DEF StateInv, DaemonInv
<1>2. sock[proc[q].cfg] = q /\ proc[q].reg = "listed"
  BY <1>1 DEF Sound, Running, Unseen
<1>3. Owners(p, t) # {} /\ Owners(p, t) \subseteq Pid
  BY <1>2, SeesOwner, OwnersArePids
<1> QED
  BY <1>3, FleetAssumption DEF Detects

(* Daemon p has looked, is r from now on and forwards no more than before. *)
LEMMA LookKeeps ==
    ASSUME IInv, NEW p \in Pid, NEW r \in Process, proc' = [proc EXCEPT ![p] = r],
           r.at \in Looking, r.cfg = proc[p].cfg,
           \A s \in Svc : r.forwards[s] # None => proc[p].forwards[s] # None,
           NEW ext, r.external = ext, Sees(p, ext) \/ SeesNobody(ext)
    PROVE  OwnerInv'
<1>0. StateInv
  BY DEF IInv
<1>1. CASE "unseen" \in excused'
  BY <1>1 DEF OwnerInv
<1>2. CASE excused \cap {"unseen", "handed"} # {}
  BY <1>2 DEF OwnerInv, Sees, SeesNobody
<1>3. CASE "unseen" \notin excused' /\ excused \cap {"unseen", "handed"} = {}
  <2>1. OneLooks /\ Seen /\ NoneTwice
    BY <1>3 DEF OwnerInv, IInv
  <2>2. proc'[p] = r /\ \A q \in Pid \ {p} : proc'[q] = proc[q]
    BY <1>0, Turned
  <2>3. ~Unseen(p) /\ Detects(p, ext)
    BY <1>3 DEF Sees, SeesNobody
  <2>4. ASSUME NEW q \in Pid \ {p}, proc[q].at \in Looking
        PROVE  ~Together(proc[q].cfg, proc[p].cfg)
    <3>1. Sound(q, proc[q], registry)
      BY <1>0 DEF StateInv, DaemonInv
    <3> QED
      BY <2>3, <2>4, <3>1 DEF Unseen, Sound, Looking, Running
  <2>5. OneLooks'
    BY <2>1, <2>2, <2>4 DEF OneLooks, Together
  <2>6. Seen'
    <3> SUFFICES ASSUME NEW q \in Pid, NEW x \in Pid, NEW s \in Svc, NEW t \in Svc,
                        q # x, PortOf[s] = PortOf[t], proc'[q].forwards[s] # None,
                        proc'[x].at \in Looking, t \in Wanted[proc'[x].cfg],
                        Together(proc'[q].cfg, proc'[x].cfg)
                 PROVE  proc'[x].external[t] # None
      BY DEF Seen
    <3>1. CASE x = p
      BY <1>0, <2>2, <2>3, <3>1, ClearDetects
    <3>2. CASE x # p
      BY <2>1, <2>2, <3>2 DEF Seen
    <3> QED
      BY <3>1, <3>2
  <2>7. NoneTwice'
    BY <2>1, <2>2 DEF NoneTwice
  <2> QED
    BY <2>5, <2>6, <2>7 DEF OwnerInv
<1> QED
  BY <1>1, <1>2, <1>3

(* What the one daemon of its directory between its look and its adds      *)
(* adds, nobody else forwards.                                             *)
LEMMA AddsKeep ==
    ASSUME IInv, NEW p \in Pid, NEW r \in Process, proc' = [proc EXCEPT ![p] = r],
           proc[p].at \in Looking, r.at \notin Looking, r.cfg = proc[p].cfg,
           \A s \in Svc : r.forwards[s] # None =>
              \/ proc[p].forwards[s] # None
              \/ s \in Wanted[proc[p].cfg] /\ proc[p].external[s] = None,
           excused' = excused
    PROVE  OwnerInv'
<1>0. StateInv
  BY DEF IInv
<1>1. CASE excused \cap {"unseen", "handed"} # {}
  BY <1>1 DEF OwnerInv
<1>2. CASE excused \cap {"unseen", "handed"} = {}
  <2>1. OneLooks /\ Seen /\ NoneTwice
    BY <1>2 DEF OwnerInv, IInv
  <2>2. proc'[p] = r /\ \A q \in Pid \ {p} : proc'[q] = proc[q]
    BY <1>0, Turned
  <2>3. OneLooks'
    BY <2>1, <2>2 DEF OneLooks
  <2>4. Seen'
    <3> SUFFICES ASSUME NEW q \in Pid, NEW x \in Pid, NEW s \in Svc, NEW t \in Svc,
                        q # x, PortOf[s] = PortOf[t], proc'[q].forwards[s] # None,
                        proc'[x].at \in Looking, t \in Wanted[proc'[x].cfg],
                        Together(proc'[q].cfg, proc'[x].cfg)
                 PROVE  proc'[x].external[t] # None
      BY DEF Seen
    <3>1. x # p /\ proc'[x] = proc[x] /\ proc[x].at \in Looking
      BY <2>2
    <3>2. q # p
      BY <2>1, <2>2, <3>1 DEF OneLooks, Together
    <3> QED
      BY <2>1, <2>2, <3>1, <3>2 DEF Seen
  <2>5. NoneTwice'
    <3>1. ASSUME NEW q \in Pid \ {p}, NEW s \in Svc, NEW t \in Svc, PortOf[s] = PortOf[t],
                 proc[q].forwards[s] # None, Together(proc[q].cfg, proc[p].cfg)
          PROVE  r.forwards[t] = None
      BY <2>1, <3>1 DEF Seen, NoneTwice
    <3>2. ASSUME NEW q \in Pid \ {p}, NEW s \in Svc, NEW t \in Svc, PortOf[s] = PortOf[t],
                 proc[q].forwards[s] # None, Together(proc[p].cfg, proc[q].cfg)
          PROVE  r.forwards[t] = None
      BY <3>1, <3>2 DEF Together
    <3> QED
      BY <2>1, <2>2, <3>1, <3>2 DEF NoneTwice
  <2> QED
    BY <2>3, <2>4, <2>5 DEF OwnerInv
<1> QED
  BY <1>1, <1>2

LEMMA DetectExternalKeeps ==
    ASSUME IInv, NEW p \in Pid, DetectExternal(p)
    PROVE  IInv'
<1>0. StateInv /\ Sound(p, proc[p], registry)
  BY DEF IInv, StateInv, DaemonInv
<1>1. PICK ext \in [Svc -> Pid \cup {None}] :
         /\ Sees(p, ext) \/ SeesNobody(ext)
         /\ proc' = [proc EXCEPT ![p].at = "detected", ![p].srv = "check", ![p].external = ext]
  BY DEF DetectExternal
<1> DEFINE r == [proc[p] EXCEPT !.at = "detected", !.srv = "check", !.external = ext]
<1>2. /\ r \in Process /\ r.at = "detected" /\ r.cfg = proc[p].cfg /\ r.srv = "check"
      /\ r.delegate = proc[p].delegate /\ r.reg = proc[p].reg
      /\ r.forwards = proc[p].forwards
      /\ r.external = ext /\ proc[p].at = "registered"
  <2>1. proc[p] \in Process /\ "detected" \in Place
    BY <1>0 DEF StateInv, TypeOK, Place
  <2>2. proc[p].at = "registered"
    BY DEF DetectExternal
  <2> QED
    BY <2>1, <2>2 DEF Process
<1>3. proc' = [proc EXCEPT ![p] = r]
  BY <1>1
<1> HIDE DEF r
<1>4. /\ RegistryKept(p) /\ excused \subseteq excused'
      /\ registry' = registry \/ registry' = Pruned(proc[p].cfg)
  <2>1. proc[p].cfg \in Cfg
    BY <1>0, <1>2 DEF Sound, Gap
  <2> QED
    BY <1>0, <1>1, <2>1, RegistryOperations DEF Sees, SeesNobody
<1>5. Sound(p, r, registry')
  <2>1. IsAlive(p)
    BY <1>2 DEF IsAlive
  <2> QED
    BY <1>0, <1>2, <1>4, <2>1
    DEF Sound, Gap, Running, Listed, Pruned, DetectExternal
<1>6. SocketsKept(p, r)
  BY <1>0, <1>2, SocketsSame DEF DetectExternal, Sound
<1>7. StateInv' /\ OneInv'
  BY <1>0, <1>2, <1>3, <1>4, <1>5, <1>6, FileSame, FrameKept, Turn DEF
     DetectExternal, Gap
<1>8. OwnerInv'
  BY <1>1, <1>2, <1>3, LookKeeps DEF Looking
<1> QED
  BY <1>7, <1>8 DEF IInv

LEMMA RefreshExternalKeeps ==
    ASSUME IInv, NEW p \in Pid, RefreshExternal(p)
    PROVE  IInv'
<1>0. StateInv /\ Sound(p, proc[p], registry) /\ proc[p] \in Process
  BY DEF IInv, StateInv, TypeOK, DaemonInv
<1>1. proc[p].at = "running" /\ proc[p].cfg \in Cfg
  BY <1>0 DEF RefreshExternal, Sound, Gap
<1>2. PICK ext \in [Svc -> Pid \cup {None}] :
         /\ Sees(p, ext) \/ SeesNobody(ext)
         /\ proc' = [proc EXCEPT ![p].at = "reloading", ![p].external = ext,
              ![p].forwards = [s \in Svc |->
                 IF ext[s] # None /\ proc[p].external[s] = None THEN None ELSE @[s]]]
  BY DEF RefreshExternal
<1> DEFINE f == [s \in Svc |-> IF ext[s] # None /\ proc[p].external[s] = None THEN None
                               ELSE proc[p].forwards[s]]
           r == [proc[p] EXCEPT !.at = "reloading", !.external = ext, !.forwards = f]
<1>3. /\ f \in [Svc -> Cfg \cup {None}]
      /\ \A s \in Svc : f[s] # None => proc[p].forwards[s] # None
  BY <1>0 DEF Process
<1>4. proc' = [proc EXCEPT ![p] = r]
  BY <1>0, <1>2 DEF Process
<1> HIDE DEF f
<1>5. /\ r \in Process /\ r.at = "reloading" /\ r.cfg = proc[p].cfg /\ r.srv = proc[p].srv
      /\ r.delegate = proc[p].delegate /\ r.reg = proc[p].reg
      /\ r.forwards = f /\ r.external = ext
  <2>1. "reloading" \in Place
    BY DEF Place
  <2> QED
    BY <1>0, <1>3, <2>1 DEF Process
<1> HIDE DEF r
<1>6. /\ RegistryKept(p) /\ excused \subseteq excused'
      /\ registry' = registry \/ registry' = Pruned(proc[p].cfg)
  BY <1>0, <1>1, <1>2, RegistryOperations DEF Sees, SeesNobody
<1>7. Sound(p, r, registry')
  <2>1. IsAlive(p)
    BY <1>1 DEF IsAlive
  <2> QED
    BY <1>0, <1>1, <1>3, <1>5, <1>6, <2>1 DEF Sound, Gap, Running, Listed,
                                              Pruned
<1>8. SocketsKept(p, r)
  BY <1>0, <1>5, SocketsSame DEF RefreshExternal
<1>9. StateInv' /\ OneInv'
  BY <1>0, <1>1, <1>4, <1>5, <1>6, <1>7, <1>8, FileSame, FrameKept, Turn
  DEF RefreshExternal, Gap
<1>10. OwnerInv'
  BY <1>2, <1>3, <1>4, <1>5, LookKeeps DEF Looking
<1> QED
  BY <1>9, <1>10 DEF IInv

-----------------------------------------------------------------------------
(* What a daemon starts to forward nobody else does; what it stops, nobody *)
(* asks for.                                                               *)

(* The step of mgr.Start and the adds of a reload.                         *)
LEMMA AddingKeeps ==
    ASSUME IInv, NEW p \in Pid, NEW f \in [Svc -> Cfg \cup {None}],
           proc[p].at \in Looking,
           proc' = [proc EXCEPT ![p].at = "running", ![p].forwards = f],
           \A s \in Svc : f[s] # None =>
              \/ proc[p].forwards[s] # None
              \/ s \in Wanted[proc[p].cfg] /\ proc[p].external[s] = None,
           UNCHANGED <<registry, pidFile, sock, excused, cmd>>
    PROVE  IInv'
<1> DEFINE r == [proc[p] EXCEPT !.at = "running", !.forwards = f]
<1>0. StateInv /\ Sound(p, proc[p], registry) /\ proc[p] \in Process
  BY DEF IInv, StateInv, TypeOK, DaemonInv
<1>1. /\ r \in Process /\ r.at = "running" /\ r.cfg = proc[p].cfg /\ r.srv = proc[p].srv
      /\ r.delegate = proc[p].delegate /\ r.reg = proc[p].reg /\ r.forwards = f
  <2>1. "running" \in Place
    BY DEF Place
  <2> QED
    BY <1>0, <2>1 DEF Process
<1>2. proc' = [proc EXCEPT ![p] = r]
  OBVIOUS
<1> HIDE DEF r
<1>3. RegistryKept(p)
  BY <1>0, RegistryOperations
<1>4. Sound(p, r, registry')
  BY <1>0, <1>1 DEF Sound, Gap, Looking, Running, Listed
<1>5. SocketsKept(p, r)
  BY <1>0, <1>1, SocketsSame
<1>6. StateInv' /\ OneInv'
  BY <1>0, <1>1, <1>2, <1>3, <1>4, <1>5, FileSame, FrameKept, Turn DEF Looking,
     Gap
<1>7. OwnerInv'
  <2>1. /\ r.at \notin Looking /\ excused' = excused
        /\ \A s \in Svc : r.forwards[s] # None =>
              \/ proc[p].forwards[s] # None
              \/ s \in Wanted[proc[p].cfg] /\ proc[p].external[s] = None
    BY <1>1 DEF Looking
  <2>2. r \in Process /\ r.cfg = proc[p].cfg
    BY <1>1
  <2> QED
    BY <1>2, <2>1, <2>2, AddsKeep
<1> QED
  BY <1>6, <1>7 DEF IInv

LEMMA StartManagerKeeps ==
    ASSUME IInv, NEW p \in Pid, StartManager(p)
    PROVE  IInv'
<1> DEFINE f == [s \in Svc |-> IF s \in Wanted[proc[p].cfg] /\ proc[p].external[s] = None
                              THEN proc[p].cfg ELSE None]
<1>1. proc[p].at = "detected" /\ proc[p].cfg \in Cfg
  BY DEF StartManager, IInv, StateInv, DaemonInv, Sound, Gap
<1>2. /\ f \in [Svc -> Cfg \cup {None}]
      /\ \A s \in Svc : f[s] # None =>
            s \in Wanted[proc[p].cfg] /\ proc[p].external[s] = None
  BY <1>1
<1>3. proc' = [proc EXCEPT ![p].at = "running", ![p].forwards = f]
  BY DEF StartManager
<1> HIDE DEF f
<1> QED
  BY <1>1, <1>2, <1>3, AddingKeeps DEF StartManager, history, DaemonFrame,
                                       Looking

LEMMA ReloadServicesKeeps ==
    ASSUME IInv, NEW p \in Pid, ReloadServices(p)
    PROVE  IInv'
<1> DEFINE f == [s \in Svc |-> IF s \notin Wanted[proc[p].cfg] THEN None
                 ELSE IF proc[p].forwards[s] = None /\ proc[p].external[s] = None
                      THEN proc[p].cfg ELSE proc[p].forwards[s]]
<1>0. proc[p] \in Process
  BY DEF IInv, StateInv, TypeOK
<1>1. proc[p].at = "reloading" /\ proc[p].cfg \in Cfg
  BY DEF ReloadServices, IInv, StateInv, DaemonInv, Sound, Gap
<1>2. /\ f \in [Svc -> Cfg \cup {None}]
      /\ \A s \in Svc : f[s] # None =>
            \/ proc[p].forwards[s] # None
            \/ s \in Wanted[proc[p].cfg] /\ proc[p].external[s] = None
  BY <1>0, <1>1 DEF Process
<1>3. proc' = [proc EXCEPT ![p].at = "running", ![p].forwards = f]
  BY <1>0 DEF ReloadServices, Process
<1> HIDE DEF f
<1> QED
  BY <1>1, <1>2, <1>3, AddingKeeps DEF ReloadServices, history, DaemonFrame,
                                       Looking

(* A delegate's primary loses what the delegate has handed to it.          *)
LEMMA StopServingKeeps ==
    ASSUME IInv, NEW p \in Pid, StopServing(p)
    PROVE  IInv'
<1>0. StateInv /\ Sound(p, proc[p], registry) /\ proc \in [Pid -> Process]
  BY DEF IInv, StateInv, DaemonInv, TypeOK
<1>1. proc[p].at \in {"running", "reloading", "lease"} /\ proc[p].cfg \in Cfg
  BY <1>0 DEF StopServing, Sound, Gap
<1>2. PICK q \in Pid :
         proc' = [proc EXCEPT
            ![q].forwards = [s \in Svc |-> IF @[s] = proc[p].cfg THEN None ELSE @[s]],
            ![p].at = "stopping", ![p].forwards = Nothing]
  BY DEF StopServing, Connectable
<1> DEFINE g(x) == [s \in Svc |-> IF proc[x].forwards[s] = proc[p].cfg THEN None
                                 ELSE proc[x].forwards[s]]
           rest(x) == [proc[x] EXCEPT !.forwards = g(x)]
           ended == [proc[p] EXCEPT !.at = "stopping", !.forwards = Nothing]
<1>3. \A x \in Pid : /\ g(x) \in [Svc -> Cfg \cup {None}]
                     /\ \A s \in Svc : g(x)[s] # None => proc[x].forwards[s] # None
  BY <1>0 DEF Process
<1>4. /\ ended \in Process /\ ended.at = "stopping" /\ ended.cfg = proc[p].cfg
      /\ ended.delegate = proc[p].delegate /\ ended.srv = proc[p].srv /\ ended.reg = proc[p].reg
      /\ \A s \in Svc : ended.forwards[s] = None
  <2>1. Nothing \in [Svc -> Cfg \cup {None}] /\ \A s \in Svc : Nothing[s] = None
    BY DEF Nothing
  <2>2. proc[p] \in Process /\ "stopping" \in Place
    BY <1>0 DEF Place
  <2> QED
    BY <2>1, <2>2 DEF Process
<1>5. \A x \in Pid : /\ rest(x) \in Process /\ rest(x).at = proc[x].at
                     /\ rest(x).cfg = proc[x].cfg /\ rest(x).delegate = proc[x].delegate
                     /\ rest(x).srv = proc[x].srv /\ rest(x).external = proc[x].external
                     /\ rest(x).forwards = g(x) /\ rest(x).reg = proc[x].reg
  <2> HIDE DEF g
  <2> QED
    BY <1>0, <1>3 DEF Process
<1>6. proc' = [x \in Pid |-> IF x = p THEN ended ELSE IF x = q THEN rest(x) ELSE proc[x]]
  BY <1>0, <1>2 DEF Process
<1> HIDE DEF ended, rest, g
<1>7. /\ proc' \in [Pid -> Process] /\ proc'[p] = ended
      /\ \A x \in Pid \ {p} :
            /\ proc'[x].at = proc[x].at /\ proc'[x].cfg = proc[x].cfg
            /\ proc'[x].delegate = proc[x].delegate /\ proc'[x].srv = proc[x].srv
            /\ proc'[x].external = proc[x].external /\ proc'[x].reg = proc[x].reg
            /\ \A s \in Svc : proc'[x].forwards[s] # None => proc[x].forwards[s] # None
  BY <1>0, <1>3, <1>4, <1>5, <1>6
<1>8. StateInv'
  <2>1. TypeOK'
    BY <1>0, <1>7 DEF StateInv, TypeOK, StopServing, DaemonFrame
  <2>2. DaemonInv'
    <3> SUFFICES ASSUME NEW x \in Pid
                 PROVE  Sound(x, proc'[x], registry)
      BY DEF DaemonInv, StopServing
    <3>1. Sound(x, proc[x], registry)
      BY <1>0 DEF StateInv, DaemonInv
    <3>2. CASE x = p
      BY <1>1, <1>4, <1>7, <3>1, <3>2 DEF Sound, Gap, Running, Listed
    <3>3. CASE x # p
      BY <1>7, <3>1, <3>3 DEF Sound
    <3> QED
      BY <3>2, <3>3
  <2>3. SocketInv'
    <3>1. \A x \in Pid : proc'[x].srv = proc[x].srv /\ proc'[x].cfg = proc[x].cfg
      BY <1>4, <1>7
    <3>2. sock' = sock
      BY DEF StopServing
    <3> QED
      BY <1>0, <3>1, <3>2 DEF StateInv, SocketInv
  <2>4. CmdInv'
    BY <1>0 DEF StateInv, CmdInv, StopServing, DaemonFrame
  <2> QED
    BY <2>1, <2>2, <2>3, <2>4 DEF StateInv
<1>9. OneInv'
  <2>1. CurrentKept
    BY <1>1, <1>4, <1>7 DEF CurrentKept, Current, Daemon
  <2>2. CmdKept
    BY <1>0, FrameKept DEF StopServing, DaemonFrame
  <2>3. FileKept /\ excused' = excused
    BY <1>0, FileSame DEF StopServing, history
  <2> QED
    BY <1>0, <2>1, <2>2, <2>3, OneKept DEF IInv, StateInv
<1>10. OwnerInv'
  <2>1. OwnersKept
    BY <1>4, <1>7 DEF OwnersKept, Looking
  <2> QED
    BY <2>1, OwnerKept DEF IInv, StopServing, history
<1> QED
  BY <1>8, <1>9, <1>10 DEF IInv

LEMMA DaemonKeeps ==
    ASSUME IInv, NEW p \in Pid,
           DaemonStep(p) \/ StartupFails(p) \/ RefreshExternal(p) \/ Crash(p) \/ ReusePid(p)
    PROVE  IInv'
BY WritePidFileKeeps, RegisterSelfKeeps, DetectExternalKeeps, LeaseKeeps,
   CleanStaleSocketKeeps, StartUnixKeeps, StartManagerKeeps, StopServingKeeps,
   ShutdownKeeps, RemovePidFileKeeps, DeregisterSelfKeeps, DeathKeeps,
   RefreshExternalKeeps, ReloadServicesKeeps, ReusePidKeeps
DEF DaemonStep

-----------------------------------------------------------------------------
(* The commands.  Command k is d from now on, the others at most forget    *)
(* whom they have reached; a process is as it was but for what it forwards,*)
(* or it is gone.                                                          *)

CmdTurns(k, d) ==
    /\ cmd' \in [Cmd -> Command] /\ cmd'[k] = d
    /\ \A j \in Cmd \ {k} :
          /\ cmd'[j].at = cmd[j].at /\ cmd'[j].op = cmd[j].op /\ cmd'[j].cfg = cmd[j].cfg
          /\ cmd'[j].pid = cmd[j].pid /\ cmd'[j].primary = cmd[j].primary

LEMMA CmdTurned ==
    ASSUME StateInv, NEW k \in Cmd, NEW d \in Command, cmd' = [cmd EXCEPT ![k] = d]
    PROVE  CmdTurns(k, d)
BY DEF StateInv, TypeOK, CmdTurns

Eased(x) ==
    \/ /\ proc'[x].at = proc[x].at /\ proc'[x].cfg = proc[x].cfg
       /\ proc'[x].delegate = proc[x].delegate /\ proc'[x].srv = proc[x].srv
       /\ proc'[x].external = proc[x].external /\ proc'[x].reg = proc[x].reg
       /\ \A s \in Svc : proc'[x].forwards[s] # None => proc[x].at \in Running
    \/ /\ proc'[x].at \in Gap /\ proc'[x].srv = "off"
       /\ \A s \in Svc : proc'[x].forwards[s] = None
       /\ \A c \in Cfg : sock'[c] # x

ListKept == registry' \subseteq Entries /\ \A e \in registry : IsAlive(e.pid) => e \in registry'

LEMMA ListOrSame ==
    ASSUME StateInv, registry' = registry \/ \E c \in Cfg : registry' = Pruned(c)
    PROVE  ListKept
BY DEF StateInv, TypeOK, ListKept, Pruned

LEMMA EasedKeeps ==
    ASSUME StateInv, proc' \in [Pid -> Process], \A x \in Pid : Eased(x), ListKept,
           \A c \in Cfg : sock'[c] \in Pid => sock'[c] = sock[c]
    PROVE  DaemonInv' /\ SocketInv' /\ CurrentKept
<1>1. DaemonInv'
  <2> SUFFICES ASSUME NEW x \in Pid
               PROVE  Sound(x, proc'[x], registry')
    BY DEF DaemonInv
  <2>1. Sound(x, proc[x], registry)
    BY DEF StateInv, DaemonInv
  <2>2. CASE proc'[x].at \in Gap
    <3>1. proc'[x].srv = "off" /\ \A s \in Svc : proc'[x].forwards[s] = None
      BY <2>1, <2>2 DEF Eased, Sound, Running, Gap
    <3> QED
      BY <2>2, <3>1 DEF Sound, Gap, Running, Listed
  <2>3. CASE proc'[x].at \notin Gap
    <3>1. /\ proc'[x].at = proc[x].at /\ proc'[x].cfg = proc[x].cfg
          /\ proc'[x].delegate = proc[x].delegate /\ proc'[x].srv = proc[x].srv
          /\ proc'[x].reg = proc[x].reg
          /\ \A s \in Svc : proc'[x].forwards[s] # None => proc[x].at \in Running
      BY <2>3 DEF Eased
    <3>2. IsAlive(x)
      BY <2>3, <3>1 DEF IsAlive, Gap
    <3>3. proc[x].reg = "listed" /\ proc[x].at \in Listed
             => [pid |-> x, cfg |-> proc[x].cfg, delegate |-> proc[x].delegate] \in registry'
      BY <2>1, <3>2 DEF Sound, ListKept
    <3> QED
      BY <2>1, <3>1, <3>3 DEF Sound
  <2> QED
    BY <2>2, <2>3
<1>2. SocketInv'
  BY DEF StateInv, SocketInv, Eased
<1>3. CurrentKept
  BY DEF CurrentKept, Current, Daemon, Eased, Gap
<1> QED
  BY <1>1, <1>2, <1>3

OneHolds == Alone /\ Filed /\ Aimed

LEMMA CommandKeeps ==
    ASSUME IInv, NEW k \in Cmd, NEW d \in Command, CmdTurns(k, d), Apt(d),
           proc' \in [Pid -> Process], \A x \in Pid : Eased(x), ListKept,
           sock' \in [Cfg -> Pid \cup {"stale", None}],
           \A c \in Cfg : sock'[c] \in Pid => sock'[c] = sock[c],
           pidFile' \in [Cfg -> Pid \cup {None}],
           d.at = "idle" \/ (cmd[k].at # "idle" /\ d.op = cmd[k].op /\ d.cfg = cmd[k].cfg),
           \/ "unfiled" \in excused'
           \/ FileKept /\ (cmd[k].at = "pidfile" => pidFile'[cmd[k].cfg] = cmd[k].pid),
           d.at # "pidfile",
           OneHolds => \A q \in Pid : Current(q, d.cfg)' =>
              /\ d.at = "kill" => q = d.pid
              /\ ~(d.at \in {"find", "spawn"} /\ d.primary = None),
           excused \subseteq excused',
           \/ "handed" \in excused'
           \/ \A x \in Pid : \A s \in Svc :
                 proc'[x].forwards[s] # None => proc[x].forwards[s] # None
    PROVE  IInv'
<1>0. StateInv /\ DaemonInv' /\ SocketInv' /\ CurrentKept
  BY EasedKeeps DEF IInv
<1>1. StateInv'
  <2>1. TypeOK'
    BY DEF TypeOK, CmdTurns, ListKept
  <2>2. CmdInv'
    BY <1>0 DEF StateInv, CmdInv, Apt, CmdTurns
  <2> QED
    BY <1>0, <2>1, <2>2 DEF StateInv
<1>2. OneInv'
  <2>1. CASE excused' \cap {"concurrent", "overlaid", "unfiled"} # {}
    BY <2>1 DEF OneInv
  <2>2. CASE excused' \cap {"concurrent", "overlaid", "unfiled"} = {}
    <3>1. Alone /\ Filed /\ Aimed
      BY <2>2 DEF OneInv, IInv
    <3>a. FileKept /\ (cmd[k].at = "pidfile" => pidFile'[cmd[k].cfg] = cmd[k].pid)
      BY <2>2
    <3>2. Alone'
      BY <3>1 DEF Alone, CmdTurns
    <3>3. Filed'
      <4> SUFFICES ASSUME NEW q \in Pid, NEW c \in Cfg, Current(q, c)'
                   PROVE  \/ pidFile'[c] = q
                          \/ \E j \in Cmd : cmd'[j].at = "pidfile" /\ cmd'[j].cfg = c
        BY DEF Filed
      <4>1. Current(q, c)
        BY <1>0 DEF CurrentKept
      <4>2. CASE pidFile[c] = q
        BY <3>1, <3>a, <4>2 DEF FileKept
      <4>3. CASE pidFile[c] # q
        <5>1. PICK j \in Cmd : cmd[j].at = "pidfile" /\ cmd[j].cfg = c
          BY <3>1, <4>1, <4>3 DEF Filed
        <5>2. q = cmd[j].pid
          BY <3>1, <4>1, <5>1 DEF Aimed
        <5> QED
          BY <3>a, <5>1, <5>2 DEF CmdTurns
      <4> QED
        BY <4>2, <4>3
    <3>4. Aimed'
      <4> SUFFICES ASSUME NEW j \in Cmd, NEW q \in Pid, Current(q, cmd[j].cfg)'
                   PROVE  /\ cmd'[j].at \in {"pidfile", "kill"} => q = cmd'[j].pid
                          /\ ~(cmd'[j].at \in {"find", "spawn"} /\ cmd'[j].primary = None)
        BY DEF Aimed
      <4>1. CASE j = k
        <5>1. Current(q, d.cfg)'
          BY <4>1 DEF CmdTurns, Current
        <5> QED
          BY <3>1, <4>1, <5>1 DEF CmdTurns, OneHolds
      <4>2. CASE j # k /\ cmd[j].at = "idle"
        BY <4>2 DEF CmdTurns
      <4>3. CASE j # k /\ cmd[j].at # "idle"
        <5>1. cmd[j].cfg \in Cfg /\ cmd'[j].cfg = cmd[j].cfg
          BY <1>0, <4>3 DEF StateInv, CmdInv, Apt, CmdTurns
        <5>2. Current(q, cmd[j].cfg)
          BY <1>0, <5>1 DEF CurrentKept, Current
        <5> QED
          BY <3>1, <4>3, <5>2 DEF Aimed, CmdTurns
      <4> QED
        BY <4>1, <4>2, <4>3
    <3> QED
      BY <3>2, <3>3, <3>4 DEF OneInv
  <2> QED
    BY <2>1, <2>2
<1>3. OwnerInv'
  <2>1. CASE "handed" \in excused'
    BY <2>1 DEF OwnerInv
  <2>2. CASE \A x \in Pid : \A s \in Svc :
               proc'[x].forwards[s] # None => proc[x].forwards[s] # None
    <3>1. OwnersKept
      BY <2>2 DEF OwnersKept, Eased, Looking, Gap
    <3> QED
      BY <3>1, OwnerKept DEF IInv
  <2> QED
    BY <2>1, <2>2
<1> QED
  BY <1>1, <1>2, <1>3 DEF IInv

-----------------------------------------------------------------------------
(* What the commands' operations do, in these terms.                       *)

Undisturbed ==
    /\ proc' \in [Pid -> Process] /\ \A x \in Pid : Eased(x)
    /\ \A x \in Pid : \A s \in Svc :
          proc'[x].forwards[s] # None => proc[x].forwards[s] # None

LEMMA SameLeaves == ASSUME StateInv, proc' = proc PROVE Undisturbed
BY DEF StateInv, TypeOK, DaemonInv, Sound, Running, Undisturbed, Eased

LEMMA FreeProcess ==
    /\ Free \in Process /\ Free.at \in Gap /\ Free.srv = "off"
    /\ \A s \in Svc : Free.forwards[s] = None
BY DEF Free, Nothing, Process, Place, Gap

(* A process that is gone has no socket.                                   *)
LEMMA GapUnbound ==
    ASSUME StateInv, NEW x \in Pid, proc[x].at \in Gap
    PROVE  \A c \in Cfg : sock[c] # x
<1>1. proc[x].srv = "off"
  BY DEF StateInv, DaemonInv, Sound
<1> QED
  BY <1>1 DEF StateInv, SocketInv

LEMMA IdleApt == IdleCmd \in Command /\ Apt(IdleCmd) /\ IdleCmd.at = "idle"
BY DEF IdleCmd, Command, Apt

LEMMA FinishLeaves ==
    ASSUME StateInv, NEW k \in Cmd, Finish(k), sock' = sock
    PROVE  Undisturbed /\ CmdTurns(k, IdleCmd)
<1>1. CmdTurns(k, IdleCmd)
  BY IdleApt, CmdTurned DEF Finish
<1>2. proc \in [Pid -> Process]
  BY DEF StateInv, TypeOK
<1>3. ASSUME NEW x \in Pid
      PROVE  /\ proc'[x] \in Process /\ Eased(x)
             /\ \A s \in Svc : proc'[x].forwards[s] # None => proc[x].forwards[s] # None
  <2>1. Sound(x, proc[x], registry)
    BY DEF StateInv, DaemonInv
  <2>2. CASE x = cmd[k].pid /\ proc[x].at = "zombie"
    <3>1. proc'[x] = Free
      BY <2>2 DEF Finish
    <3>2. \A c \in Cfg : sock'[c] # x
      BY <2>2, GapUnbound DEF Gap
    <3> QED
      BY <3>1, <3>2, FreeProcess DEF Eased
  <2>3. CASE ~(x = cmd[k].pid /\ proc[x].at = "zombie")
    <3>1. proc'[x] = proc[x]
      BY <2>3 DEF Finish
    <3> QED
      BY <1>2, <2>1, <3>1 DEF Eased, Sound, Running
  <2> QED
    BY <2>2, <2>3
<1> QED
  BY <1>1, <1>3 DEF Undisturbed, Finish

LEMMA GotoTurns ==
    ASSUME StateInv, NEW k \in Cmd,
           NEW a \in {"check", "find", "spawn", "poll", "wait", "handoff", "waitexit"},
           Goto(k, a)
    PROVE  \E d \in Command :
              /\ d.at = a /\ d.op = cmd[k].op /\ d.cfg = cmd[k].cfg
              /\ d.pid = cmd[k].pid /\ d.primary = cmd[k].primary
              /\ CmdTurns(k, d)
<1> DEFINE d == [cmd[k] EXCEPT !.at = a]
<1>1. cmd[k] \in Command
  BY DEF StateInv, TypeOK
<1>2. /\ d \in Command /\ d.at = a /\ d.op = cmd[k].op /\ d.cfg = cmd[k].cfg
      /\ d.pid = cmd[k].pid /\ d.primary = cmd[k].primary
  BY <1>1 DEF Command
<1>3. cmd' = [cmd EXCEPT ![k] = d]
  BY DEF Goto
<1> HIDE DEF d
<1> QED
  BY <1>2, <1>3, CmdTurned

(* Nobody who lives loses a PID file that leads to it.                     *)
LEMMA CleansKeep ==
    ASSUME StateInv, CurrentKept, pidFile' = pidFile \/ \E c \in Cfg : pidFile' = IsRunningCleans(c)
    PROVE  pidFile' \in [Cfg -> Pid \cup {None}] /\ FileKept
<1>1. pidFile \in [Cfg -> Pid \cup {None}]
  BY DEF StateInv, TypeOK
<1>2. \A q \in Pid : \A c \in Cfg : Current(q, c)' => q # None /\ IsAlive(q)
  BY FleetAssumption DEF CurrentKept, Current, Daemon, IsAlive
<1> QED
  BY <1>1, <1>2 DEF IsRunningCleans, IsRunning, FileKept

(* A command that neither launches a daemon nor stops one by its PID.      *)
LEMMA QuietCommand ==
    ASSUME IInv, NEW k \in Cmd, NEW d \in Command, CmdTurns(k, d), Apt(d),
           Undisturbed, ListKept, sock' = sock,
           pidFile' = pidFile \/ \E c \in Cfg : pidFile' = IsRunningCleans(c),
           cmd[k].at \notin {"idle", "pidfile"},
           d.at = "idle" \/ (d.op = cmd[k].op /\ d.cfg = cmd[k].cfg),
           d.at \notin {"pidfile", "kill", "find"}, d.at = "spawn" => d.primary # None,
           excused' = excused
    PROVE  IInv'
<1>1. StateInv /\ sock' \in [Cfg -> Pid \cup {"stale", None}]
  BY DEF IInv, StateInv, TypeOK
<1>2. CurrentKept
  BY <1>1, EasedKeeps DEF Undisturbed
<1>3. pidFile' \in [Cfg -> Pid \cup {None}] /\ FileKept
  BY <1>1, <1>2, CleansKeep
<1>4. /\ d.at = "idle" \/ (cmd[k].at # "idle" /\ d.op = cmd[k].op /\ d.cfg = cmd[k].cfg)
      /\ \A c \in Cfg : sock'[c] \in Pid => sock'[c] = sock[c]
      /\ cmd[k].at = "pidfile" => pidFile'[cmd[k].cfg] = cmd[k].pid
      /\ OneHolds => \A q \in Pid : Current(q, d.cfg)' =>
              /\ d.at = "kill" => q = d.pid
              /\ ~(d.at \in {"find", "spawn"} /\ d.primary = None)
      /\ d.at # "pidfile" /\ excused \subseteq excused'
    OBVIOUS
<1>5. /\ proc' \in [Pid -> Process] /\ \A x \in Pid : Eased(x)
      /\ \/ "handed" \in excused'
         \/ \A x \in Pid : \A s \in Svc :
               proc'[x].forwards[s] # None => proc[x].forwards[s] # None
  BY DEF Undisturbed
<1> QED
  BY <1>1, <1>3, <1>4, <1>5, CommandKeeps

-----------------------------------------------------------------------------
(* The start commands.                                                     *)

(* Nobody else starts or stops the config of a start command.              *)
LEMMA AloneStarts ==
    ASSUME StateInv, Alone, NEW j \in Cmd, NEW k \in Cmd, cmd[k].at # "idle",
           cmd[k].op \in Starts \/ (cmd[k].op = "stop" /\ cmd[j].op \in Starts),
           cmd[j].cfg = cmd[k].cfg,
           cmd[j].at \in {"check", "find", "spawn", "pidfile", "dial", "rpc", "legacy", "kill"}
    PROVE  j = k
<1>1. Apt(cmd[j])
  BY DEF StateInv, CmdInv
<1>2. cmd[j].at # "idle" /\ cmd[j].op \in Starts \cup {"stop"}
  BY <1>1 DEF Apt, Starts
<1>3. Excludes(cmd[j].op, cmd[k].op)
  BY <1>2 DEF Excludes
<1> QED
  BY <1>2, <1>3 DEF Alone

LEMMA StartCheckKeeps ==
    ASSUME IInv, NEW k \in Cmd, StartCheck(k)
    PROVE  IInv'
<1>0. StateInv /\ Apt(cmd[k]) /\ cmd[k].at = "check" /\ cmd[k].cfg \in Cfg
  BY DEF IInv, StateInv, CmdInv, Apt, StartCheck
<1>1. /\ sock' = sock /\ registry' = registry /\ excused' = excused
      /\ pidFile' = IsRunningCleans(cmd[k].cfg)
  BY DEF StartCheck, CmdFrame
<1>2. ListKept
  BY <1>0, <1>1, ListOrSame
<1>3. CASE Finish(k)
  BY <1>0, <1>1, <1>2, <1>3, FinishLeaves, IdleApt, QuietCommand
<1>4. CASE Goto(k, "wait") /\ proc' = proc
  <2>1. PICK d \in Command :
             /\ d.at = "wait" /\ d.op = cmd[k].op /\ d.cfg = cmd[k].cfg
             /\ CmdTurns(k, d)
    BY <1>0, <1>4, GotoTurns
  <2>2. Apt(d)
    BY <1>0, <2>1 DEF Apt
  <2>3. Undisturbed
    BY <1>0, <1>4, SameLeaves
  <2> QED
    BY <1>0, <1>1, <1>2, <2>1, <2>2, <2>3, QuietCommand
<1>5. CASE ~IsRunning(cmd[k].cfg) /\ proc' = proc
  <2>1. PICK a \in {"find", "spawn"} : Goto(k, a)
    BY <1>5 DEF StartCheck
  <2>2. PICK d \in Command :
             /\ d.at = a /\ d.op = cmd[k].op /\ d.cfg = cmd[k].cfg
             /\ CmdTurns(k, d)
    BY <1>0, <2>1, GotoTurns
  <2>3. Apt(d)
    BY <1>0, <2>2 DEF Apt
  <2>4. Undisturbed
    BY <1>0, <1>5, SameLeaves
  <2>5. CurrentKept /\ pidFile' \in [Cfg -> Pid \cup {None}] /\ FileKept
    BY <1>0, <1>1, <1>2, <2>4, EasedKeeps, CleansKeep DEF Undisturbed
  <2>6. ASSUME OneHolds, NEW q \in Pid, Current(q, d.cfg)'
        PROVE  FALSE
    <3>1. Current(q, cmd[k].cfg)
      BY <1>0, <2>2, <2>5, <2>6 DEF CurrentKept, Current
    <3>2. pidFile[cmd[k].cfg] # q
      BY <1>5, <3>1, FleetAssumption DEF IsRunning, IsAlive, Current, Daemon
    <3>3. PICK j \in Cmd : cmd[j].at = "pidfile" /\ cmd[j].cfg = cmd[k].cfg
      BY <1>0, <2>6, <3>1, <3>2 DEF OneHolds, Filed
    <3>4. j = k
      BY <1>0, <2>6, <3>3, AloneStarts DEF OneHolds, Apt
    <3> QED
      BY <1>0, <3>3, <3>4
  <2> QED
    BY <1>0, <1>1, <1>2, <2>1, <2>2, <2>3, <2>4, <2>5, <2>6, CommandKeeps
    DEF Undisturbed, IInv, StateInv, TypeOK
<1> QED
  BY <1>3, <1>4, <1>5 DEF StartCheck

LEMMA StartFindKeeps ==
    ASSUME IInv, NEW k \in Cmd, StartFind(k)
    PROVE  IInv'
<1>0. StateInv /\ Apt(cmd[k]) /\ cmd[k].at = "find" /\ cmd[k].cfg \in Cfg
  BY DEF IInv, StateInv, CmdInv, Apt, StartFind
<1>1. /\ sock' = sock /\ pidFile' = pidFile /\ excused' = excused
      /\ registry' = registry \/ registry' = Pruned(cmd[k].cfg)
  BY DEF StartFind, history
<1>2. ListKept
  BY <1>0, <1>1, ListOrSame
<1>3. CASE Finish(k)
  BY <1>0, <1>1, <1>2, <1>3, FinishLeaves, IdleApt, QuietCommand
<1>4. CASE Goto(k, "spawn") /\ proc' = proc
  <2>1. PICK d \in Command :
             /\ d.at = "spawn" /\ d.op = cmd[k].op /\ d.cfg = cmd[k].cfg
             /\ d.primary = cmd[k].primary /\ CmdTurns(k, d)
    BY <1>0, <1>4, GotoTurns
  <2>2. Apt(d)
    BY <1>0, <2>1 DEF Apt
  <2>3. Undisturbed
    BY <1>0, <1>4, SameLeaves
  <2>4. CurrentKept /\ pidFile' \in [Cfg -> Pid \cup {None}] /\ FileKept
    BY <1>0, <1>1, <1>2, <2>3, EasedKeeps, CleansKeep DEF Undisturbed
  <2>5. ASSUME OneHolds, NEW q \in Pid, Current(q, d.cfg)'
        PROVE  d.primary # None
    <3>1. Current(q, cmd[k].cfg)
      BY <1>0, <2>1, <2>4, <2>5 DEF CurrentKept, Current
    <3> QED
      BY <1>0, <2>1, <2>5, <3>1 DEF OneHolds, Aimed
  <2> QED
    BY <1>0, <1>1, <1>2, <2>1, <2>2, <2>3, <2>4, <2>5, CommandKeeps
    DEF Undisturbed, IInv, StateInv, TypeOK
<1> QED
  BY <1>3, <1>4 DEF StartFind

LEMMA ParentPidFileKeeps ==
    ASSUME IInv, NEW k \in Cmd, ParentPidFile(k)
    PROVE  IInv'
<1>0. /\ StateInv /\ Apt(cmd[k]) /\ cmd[k].at = "pidfile" /\ cmd[k].cfg \in Cfg
      /\ cmd[k].pid \in Pid
  BY DEF IInv, StateInv, CmdInv, Apt, ParentPidFile
<1>1. sock' = sock /\ sock' \in [Cfg -> Pid \cup {"stale", None}] /\ ListKept
  BY <1>0, ListOrSame DEF ParentPidFile, StateInv, TypeOK
<1>2. ASSUME pidFile' = [pidFile EXCEPT ![cmd[k].cfg] = cmd[k].pid], proc' = proc,
             excused' = excused, Goto(k, "poll")
      PROVE  IInv'
  <2>1. PICK d \in Command :
             /\ d.at = "poll" /\ d.op = cmd[k].op /\ d.cfg = cmd[k].cfg
             /\ CmdTurns(k, d)
    BY <1>0, <1>2, GotoTurns
  <2>2. Undisturbed
    BY <1>0, <1>2, SameLeaves
  <2>3. CurrentKept
    BY <1>0, <1>1, <2>2, EasedKeeps DEF Undisturbed
  <2>4. pidFile' \in [Cfg -> Pid \cup {None}] /\ pidFile'[cmd[k].cfg] = cmd[k].pid
    BY <1>0, <1>2 DEF StateInv, TypeOK
  <2>5. FileKept
    <3> SUFFICES ASSUME Aimed, NEW q \in Pid, NEW c \in Cfg, Current(q, c), pidFile[c] = q
                 PROVE  pidFile'[c] = q
      BY <2>3 DEF FileKept, CurrentKept
    <3>1. CASE c = cmd[k].cfg
      BY <1>0, <2>4, <3>1 DEF Aimed
    <3>2. CASE c # cmd[k].cfg
      BY <1>0, <1>2, <3>2 DEF StateInv, TypeOK
    <3> QED
      BY <3>1, <3>2
  <2>6. Apt(d)
    BY <1>0, <2>1 DEF Apt
  <2> QED
    BY <1>0, <1>1, <1>2, <2>1, <2>2, <2>4, <2>5, <2>6, CommandKeeps DEF
       Undisturbed
<1>3. ASSUME pidFile' = pidFile \/ pidFile' = [pidFile EXCEPT ![cmd[k].cfg] = None],
             excused' = excused \cup {"unfiled"}, Finish(k)
      PROVE  IInv'
  <2>1. Undisturbed /\ CmdTurns(k, IdleCmd)
    BY <1>0, <1>1, <1>3, FinishLeaves
  <2>2. pidFile' \in [Cfg -> Pid \cup {None}]
    BY <1>0, <1>3 DEF StateInv, TypeOK
  <2> QED
    BY <1>0, <1>1, <1>3, <2>1, <2>2, IdleApt, CommandKeeps DEF Undisturbed
<1> QED
  BY <1>2, <1>3 DEF ParentPidFile

LEMMA PollKeeps ==
    ASSUME IInv, NEW k \in Cmd, Poll(k)
    PROVE  IInv'
<1>0. StateInv /\ Apt(cmd[k]) /\ cmd[k].at = "poll" /\ cmd[k].cfg \in Cfg
  BY DEF IInv, StateInv, CmdInv, Apt, Poll
<1>1. /\ sock' = sock /\ excused' = excused
      /\ registry' = registry \/ registry' = Pruned(cmd[k].cfg)
      /\ pidFile' = pidFile \/ pidFile' = IsRunningCleans(cmd[k].cfg)
  BY DEF Poll, Listing, history
<1>2. ListKept
  BY <1>0, <1>1, ListOrSame
<1>3. CASE Finish(k)
  BY <1>0, <1>1, <1>2, <1>3, FinishLeaves, IdleApt, QuietCommand
<1>4. ASSUME NEW a \in {"handoff", "wait"}, Goto(k, a), proc' = proc
      PROVE  IInv'
  <2>1. PICK d \in Command :
             /\ d.at = a /\ d.op = cmd[k].op /\ d.cfg = cmd[k].cfg
             /\ CmdTurns(k, d)
    BY <1>0, <1>4, GotoTurns
  <2>2. Apt(d)
    BY <1>0, <2>1 DEF Apt
  <2>3. Undisturbed
    BY <1>0, <1>4, SameLeaves
  <2> QED
    BY <1>0, <1>1, <1>2, <2>1, <2>2, <2>3, QuietCommand
<1> QED
  BY <1>3, <1>4 DEF Poll

LEMMA WaitForReadyKeeps ==
    ASSUME IInv, NEW k \in Cmd, WaitForReady(k)
    PROVE  IInv'
<1>0. StateInv /\ Apt(cmd[k]) /\ cmd[k].at = "wait" /\ cmd[k].cfg \in Cfg
  BY DEF IInv, StateInv, CmdInv, Apt, WaitForReady
<1>1. /\ sock' = sock /\ excused' = excused /\ registry' = registry /\ Finish(k)
      /\ pidFile' = pidFile \/ pidFile' = IsRunningCleans(cmd[k].cfg)
  BY DEF WaitForReady, CmdFrame
<1>2. ListKept
  BY <1>0, <1>1, ListOrSame
<1> QED
  BY <1>0, <1>1, <1>2, FinishLeaves, IdleApt, QuietCommand

(* The daemon a start launches is the only one, or is launched over        *)
(* another, which is noted.                                                *)
LEMMA SpawnKeeps ==
    ASSUME IInv, NEW k \in Cmd, NEW p \in Pid, Spawn(k, p)
    PROVE  IInv'
<1> DEFINE r == [Free EXCEPT !.at = "boot", !.cfg = cmd[k].cfg,
                             !.delegate = cmd[k].primary # None, !.primary = cmd[k].primary]
           d == [cmd[k] EXCEPT !.at = "pidfile", !.pid = p]
<1>0. /\ StateInv /\ Apt(cmd[k]) /\ cmd[k].at = "spawn" /\ cmd[k].cfg \in Cfg
      /\ cmd[k] \in Command /\ cmd[k].op \in Starts /\ proc[p].at = "free"
  BY DEF IInv, StateInv, CmdInv, TypeOK, Apt, Spawn
<1>1. /\ r \in Process /\ r.at = "boot" /\ r.cfg = cmd[k].cfg /\ r.srv = "off"
      /\ \A s \in Svc : r.forwards[s] = None
  <2>1. /\ cmd[k].cfg \in Cfg \cup {None} /\ cmd[k].primary \in Cfg \cup {None}
        /\ (cmd[k].primary # None) \in BOOLEAN /\ "boot" \in Place
    BY <1>0 DEF Command, Place
  <2>2. /\ Free \in Process /\ Free.srv = "off" /\ \A s \in Svc : Free.forwards[s] = None
    BY FreeProcess
  <2> QED
    BY <2>1, <2>2 DEF Process
<1>2. proc' = [proc EXCEPT ![p] = r] /\ cmd' = [cmd EXCEPT ![k] = d]
  BY DEF Spawn
<1>3. /\ d \in Command /\ d.at = "pidfile" /\ d.op = cmd[k].op /\ d.cfg = cmd[k].cfg
      /\ d.pid = p
  BY <1>0 DEF Command
<1> HIDE DEF r, d
<1>4. /\ registry' = registry /\ pidFile' = pidFile /\ sock' = sock
      /\ excused \subseteq excused'
      /\ cmd[k].primary # None /\ (\E q \in Pid : Current(q, cmd[k].cfg))
            => "overlaid" \in excused'
  BY DEF Spawn
<1>5. proc'[p] = r /\ \A q \in Pid \ {p} : proc'[q] = proc[q]
  BY <1>0, <1>1, <1>2, Turned
<1>6. CmdTurns(k, d)
  BY <1>0, <1>2, <1>3, CmdTurned
<1>7. StateInv'
  <2>1. TypeOK'
    BY <1>0, <1>1, <1>2, <1>4, <1>6 DEF StateInv, TypeOK, CmdTurns
  <2>2. DaemonInv'
    <3>1. Sound(p, r, registry)
      BY <1>0, <1>1 DEF Sound, Gap, Running, Listed
    <3> QED
      BY <1>0, <1>4, <1>5, <3>1 DEF StateInv, DaemonInv
  <2>3. SocketInv'
    <3>1. \A c \in Cfg : sock[c] # p
      BY <1>0, GapUnbound DEF Gap
    <3> QED
      BY <1>0, <1>4, <1>5, <3>1 DEF StateInv, SocketInv
  <2>4. CmdInv'
    BY <1>0, <1>3, <1>6 DEF StateInv, CmdInv, Apt, CmdTurns
  <2> QED
    BY <2>1, <2>2, <2>3, <2>4 DEF StateInv
<1>8. OneInv'
  <2>1. CASE excused' \cap {"concurrent", "overlaid", "unfiled"} # {}
    BY <2>1 DEF OneInv
  <2>2. CASE excused' \cap {"concurrent", "overlaid", "unfiled"} = {}
    <3>1. Alone /\ Filed /\ Aimed
      BY <1>4, <2>2 DEF OneInv, IInv
    <3>2. Alone'
      BY <1>0, <1>3, <1>6, <3>1 DEF Alone, CmdTurns
    <3>3. \A q \in Pid : ~Current(q, cmd[k].cfg)
      BY <1>0, <1>4, <2>2, <3>1 DEF Aimed
    <3>4. ASSUME NEW q \in Pid, NEW c \in Cfg, Current(q, c)'
          PROVE  IF q = p THEN c = cmd[k].cfg ELSE Current(q, c) /\ c # cmd[k].cfg
      <4>1. CASE q = p
        BY <1>1, <1>5, <3>4, <4>1 DEF Current
      <4>2. CASE q # p
        <5>1. Current(q, c)
          BY <1>5, <3>4, <4>2 DEF Current, Daemon
        <5> QED
          BY <3>3, <4>2, <5>1
      <4> QED
        BY <4>1, <4>2
    <3>5. Filed'
      BY <1>0, <1>3, <1>4, <1>6, <3>1, <3>4 DEF Filed, CmdTurns
    <3>6. Aimed'
      <4> SUFFICES ASSUME NEW j \in Cmd, NEW q \in Pid, Current(q, cmd[j].cfg)',
                          cmd'[j].at \in {"pidfile", "kill", "find", "spawn"}
                   PROVE  /\ cmd'[j].at \in {"pidfile", "kill"} => q = cmd'[j].pid
                          /\ ~(cmd'[j].at \in {"find", "spawn"} /\ cmd'[j].primary = None)
        BY DEF Aimed
      <4>1. CASE j = k
        BY <1>0, <1>3, <1>6, <3>4, <4>1 DEF CmdTurns, Current
      <4>2. CASE j # k
        <5>1. cmd[j].at \in {"pidfile", "kill", "find", "spawn"} /\ cmd'[j].cfg = cmd[j].cfg
          BY <1>6, <4>2 DEF CmdTurns
        <5>2. cmd[j].cfg \in Cfg
          BY <1>0, <5>1 DEF StateInv, CmdInv, Apt
        <5>3. cmd[j].cfg # cmd[k].cfg
          BY <1>0, <3>1, <4>2, <5>1, AloneStarts
        <5>4. PICK c \in Cfg : c = cmd[j].cfg /\ c = cmd'[j].cfg
          BY <5>1, <5>2
        <5>5. Current(q, cmd[j].cfg)
          <6>1. Current(q, c)'
            BY <5>4 DEF Current
          <6> QED
            BY <3>4, <5>3, <5>4, <6>1
        <5> QED
          BY <1>6, <3>1, <4>2, <5>5 DEF Aimed, CmdTurns
      <4> QED
        BY <4>1, <4>2
    <3> QED
      BY <3>2, <3>5, <3>6 DEF OneInv
  <2> QED
    BY <2>1, <2>2
<1>9. OwnerInv'
  <2>1. OwnersKept
    BY <1>1, <1>5 DEF OwnersKept, Looking
  <2> QED
    BY <1>4, <2>1, OwnerKept DEF IInv
<1> QED
  BY <1>7, <1>8, <1>9 DEF IInv

LEMMA IssueKeeps ==
    ASSUME IInv, NEW k \in Cmd, NEW op \in Ops, NEW c \in Cfg, Issue(k, op, c)
    PROVE  IInv'
<1>0. StateInv /\ cmd[k].at = "idle"
  BY DEF IInv, Issue
<1>1. PICK d \in Command :
         /\ d.op = op /\ d.cfg = c /\ cmd' = [cmd EXCEPT ![k] = d] /\ Apt(d)
         /\ d.at \in {"check", "dial", "scan", "offload"}
  <2> DEFINE a == CASE op = "start" -> "check" [] op \in {"stop", "restart"} -> "dial"
                   [] op = "delegate" -> "scan" [] op = "offload" -> "offload"
             e == [IdleCmd EXCEPT !.op = op, !.cfg = c, !.at = a]
  <2>1. /\ a \in {"check", "dial", "scan", "offload"}
        /\ a = "check" => op = "start"
        /\ a = "dial" => op \in {"stop", "restart"}
        /\ a = "scan" => op = "delegate"
    BY DEF Ops
  <2>2. cmd' = [cmd EXCEPT ![k] = e]
    BY DEF Issue
  <2> HIDE DEF a
  <2>3. e \in Command /\ e.op = op /\ e.cfg = c /\ e.at = a
    BY <2>1, IdleApt DEF Command
  <2> HIDE DEF e
  <2>4. Apt(e)
    BY <2>1, <2>3 DEF Apt, Starts
  <2> QED
    BY <2>1, <2>2, <2>3, <2>4
<1>2. /\ proc' = proc /\ registry' = registry /\ pidFile' = pidFile /\ sock' = sock
      /\ excused \subseteq excused'
      /\ (\E j \in Cmd : cmd[j].at # "idle" /\ cmd[j].cfg = c /\ Excludes(op, cmd[j].op))
            => "concurrent" \in excused'
  BY DEF Issue
<1>3. CmdTurns(k, d)
  BY <1>0, <1>1, CmdTurned
<1>4. StateInv'
  <2>1. TypeOK' /\ DaemonInv' /\ SocketInv'
    BY <1>0, <1>2, <1>3 DEF StateInv, TypeOK, DaemonInv, SocketInv, CmdTurns
  <2>2. CmdInv'
    BY <1>0, <1>1, <1>3 DEF StateInv, CmdInv, Apt, CmdTurns
  <2> QED
    BY <2>1, <2>2 DEF StateInv
<1>5. OneInv'
  <2>1. CASE excused' \cap {"concurrent", "overlaid", "unfiled"} # {}
    BY <2>1 DEF OneInv
  <2>2. CASE excused' \cap {"concurrent", "overlaid", "unfiled"} = {}
    <3>1. Alone /\ Filed /\ Aimed
      BY <1>2, <2>2 DEF OneInv, IInv
    <3>2. Alone'
      BY <1>1, <1>2, <1>3, <2>2, <3>1 DEF Alone, CmdTurns, Excludes
    <3>3. Filed'
      BY <1>0, <1>2, <1>3, <3>1 DEF Filed, Current, Daemon, CmdTurns
    <3>4. Aimed'
      BY <1>1, <1>2, <1>3, <3>1 DEF Aimed, Current, Daemon, CmdTurns
    <3> QED
      BY <3>2, <3>3, <3>4 DEF OneInv
  <2> QED
    BY <2>1, <2>2
<1>6. OwnerInv'
  <2>1. OwnersKept
    BY <1>2 DEF OwnersKept
  <2> QED
    BY <1>2, <2>1, OwnerKept DEF IInv
<1> QED
  BY <1>4, <1>5, <1>6 DEF IInv

-----------------------------------------------------------------------------
(* The stop commands.                                                      *)

LEMMA StopDialKeeps ==
    ASSUME IInv, NEW k \in Cmd, StopDial(k)
    PROVE  IInv'
<1>0. /\ StateInv /\ Apt(cmd[k]) /\ cmd[k].at = "dial" /\ cmd[k].cfg \in Cfg
      /\ cmd[k] \in Command
  BY DEF IInv, StateInv, TypeOK, CmdInv, Apt, StopDial
<1>1. /\ sock' = sock /\ pidFile' = pidFile /\ excused' = excused /\ proc' = proc
      /\ registry' = registry \/ registry' = Pruned(cmd[k].cfg)
  BY DEF StopDial, Listing, history
<1>2. PICK d \in Command :
         /\ d.at \in {"rpc", "legacy"} /\ d.op = cmd[k].op /\ d.cfg = cmd[k].cfg
         /\ cmd' = [cmd EXCEPT ![k] = d]
  <2>1. PICK a \in {"rpc", "legacy"}, S \in SUBSET Pid :
           cmd' = [cmd EXCEPT ![k].at = a, ![k].serving = S]
    BY DEF StopDial
  <2> DEFINE e == [cmd[k] EXCEPT !.at = a, !.serving = S]
  <2>2. e \in Command /\ e.at = a /\ e.op = cmd[k].op /\ e.cfg = cmd[k].cfg
    BY <1>0 DEF Command
  <2>3. cmd' = [cmd EXCEPT ![k] = e]
    BY <2>1
  <2> HIDE DEF e
  <2> QED
    BY <2>2, <2>3
<1>3. ListKept /\ Undisturbed /\ CmdTurns(k, d)
  BY <1>0, <1>1, <1>2, ListOrSame, SameLeaves, CmdTurned
<1>4. Apt(d)
  BY <1>0, <1>2 DEF Apt
<1> QED
  BY <1>0, <1>1, <1>2, <1>3, <1>4, QuietCommand

LEMMA StoppedTurns ==
    ASSUME StateInv, NEW k \in Cmd, Stopped(k), Apt(cmd[k]),
           cmd[k].at \notin {"idle", "pidfile"}
    PROVE  \E d \in Command :
              /\ d.at \in {"idle", "waitexit"} /\ Apt(d) /\ CmdTurns(k, d)
              /\ d.at = "idle" \/ (d.op = cmd[k].op /\ d.cfg = cmd[k].cfg)
<1>1. CASE cmd[k].op = "restart"
  <2>1. Goto(k, "waitexit")
    BY <1>1 DEF Stopped
  <2>2. PICK d \in Command :
             /\ d.at = "waitexit" /\ d.op = cmd[k].op /\ d.cfg = cmd[k].cfg
             /\ CmdTurns(k, d)
    BY <2>1, GotoTurns
  <2>3. Apt(d)
    BY <1>1, <2>2 DEF Apt
  <2> QED
    BY <2>2, <2>3
<1>2. CASE cmd[k].op # "restart"
  BY <1>2, IdleApt, CmdTurned DEF Stopped
<1> QED
  BY <1>1, <1>2

(* A process that is asked to end goes on as it was for now.               *)
LEMMA TermLeaves ==
    ASSUME StateInv, NEW p \in Pid, proc' = [proc EXCEPT ![p].term = TRUE]
    PROVE  Undisturbed
<1> DEFINE r == [proc[p] EXCEPT !.term = TRUE]
<1>1. /\ r \in Process /\ r.at = proc[p].at /\ r.cfg = proc[p].cfg
      /\ r.delegate = proc[p].delegate /\ r.reg = proc[p].reg /\ r.srv = proc[p].srv
      /\ r.external = proc[p].external /\ r.forwards = proc[p].forwards
  BY DEF StateInv, TypeOK, Process
<1>2. proc' = [proc EXCEPT ![p] = r]
  OBVIOUS
<1> HIDE DEF r
<1>3. proc' \in [Pid -> Process] /\ proc'[p] = r /\ \A q \in Pid \ {p} : proc'[q] = proc[q]
  BY <1>1, <1>2, Turned DEF StateInv, TypeOK
<1>4. \A x \in Pid : \A s \in Svc : proc[x].forwards[s] # None => proc[x].at \in Running
  BY DEF StateInv, DaemonInv, Sound
<1> QED
  BY <1>1, <1>3, <1>4 DEF Undisturbed, Eased

LEMMA StopRpcKeeps ==
    ASSUME IInv, NEW k \in Cmd, StopRpc(k)
    PROVE  IInv'
<1>0. /\ StateInv /\ Apt(cmd[k]) /\ cmd[k].at = "rpc" /\ cmd[k].cfg \in Cfg
      /\ cmd[k] \in Command
  BY DEF IInv, StateInv, TypeOK, CmdInv, Apt, StopRpc
<1>1. /\ sock' = sock /\ pidFile' = pidFile /\ excused' = excused /\ registry' = registry
      /\ \/ Stopped(k)
         \/ cmd' = [cmd EXCEPT ![k].at = "legacy", ![k].serving = {}]
  BY DEF StopRpc
<1>2. PICK d \in Command :
         /\ d.at \in {"idle", "waitexit", "legacy"} /\ Apt(d) /\ CmdTurns(k, d)
         /\ d.at = "idle" \/ (d.op = cmd[k].op /\ d.cfg = cmd[k].cfg)
  <2>1. CASE Stopped(k)
    BY <1>0, <2>1, StoppedTurns
  <2>2. CASE cmd' = [cmd EXCEPT ![k].at = "legacy", ![k].serving = {}]
    <3> DEFINE e == [cmd[k] EXCEPT !.at = "legacy", !.serving = {}]
    <3>1. e \in Command /\ e.at = "legacy" /\ e.op = cmd[k].op /\ e.cfg = cmd[k].cfg
      BY <1>0 DEF Command
    <3>2. cmd' = [cmd EXCEPT ![k] = e]
      BY <2>2
    <3> HIDE DEF e
    <3>3. Apt(e)
      BY <1>0, <3>1 DEF Apt
    <3> QED
      BY <1>0, <3>1, <3>2, <3>3, CmdTurned
  <2> QED
    BY <1>1, <2>1, <2>2
<1>3. Undisturbed
  <2>1. \/ proc' = proc
        \/ sock[cmd[k].cfg] \in Pid /\ proc' = [proc EXCEPT ![sock[cmd[k].cfg]].term = TRUE]
    BY DEF StopRpc, Connectable
  <2> QED
    BY <1>0, <2>1, SameLeaves, TermLeaves
<1>4. ListKept
  BY <1>0, <1>1, ListOrSame
<1> QED
  BY <1>0, <1>1, <1>2, <1>3, <1>4, QuietCommand

LEMMA StopLegacyKeeps ==
    ASSUME IInv, NEW k \in Cmd, StopLegacy(k)
    PROVE  IInv'
<1> DEFINE c == cmd[k].cfg
           p == pidFile[c]
<1>0. /\ StateInv /\ Apt(cmd[k]) /\ cmd[k].at = "legacy" /\ c \in Cfg
      /\ cmd[k] \in Command /\ cmd[k].op \in {"stop", "restart"}
  BY DEF IInv, StateInv, TypeOK, CmdInv, Apt, StopLegacy
<1>1. /\ sock' = sock /\ excused' = excused /\ registry' = registry
      /\ pidFile' = IsRunningCleans(c)
  BY DEF StopLegacy, CmdFrame
<1>2. ListKept
  BY <1>0, <1>1, ListOrSame
<1>3. CASE ~IsRunning(c)
  <2>2. PICK d \in Command :
           /\ d.at \in {"idle", "waitexit"} /\ Apt(d) /\ CmdTurns(k, d)
           /\ d.at = "idle" \/ (d.op = cmd[k].op /\ d.cfg = cmd[k].cfg)
    <3>1. CASE cmd[k].op = "restart"
      <4>1. Goto(k, "waitexit")
        BY <1>3, <3>1 DEF StopLegacy, Goto
      <4>2. PICK d \in Command :
                 /\ d.at = "waitexit" /\ d.op = cmd[k].op /\ d.cfg = cmd[k].cfg
                 /\ CmdTurns(k, d)
        BY <1>0, <4>1, GotoTurns
      <4>3. Apt(d)
        BY <1>0, <3>1, <4>2 DEF Apt
      <4> QED
        BY <4>2, <4>3
    <3>2. CASE cmd[k].op # "restart"
      <4>1. cmd' = [cmd EXCEPT ![k] = IdleCmd]
        BY <1>3, <3>2 DEF StopLegacy
      <4> QED
        BY <1>0, <4>1, IdleApt, CmdTurned
    <3> QED
      BY <3>1, <3>2
  <2>3. Undisturbed
    BY <1>0, <1>3, SameLeaves DEF StopLegacy
  <2> QED
    BY <1>0, <1>1, <1>2, <2>2, <2>3, QuietCommand
<1>4. CASE IsRunning(c)
  <2>1. p \in Pid /\ pidFile \in [Cfg -> Pid \cup {None}]
    BY <1>0, <1>4 DEF IsRunning, StateInv, TypeOK
  <2>2. Undisturbed
    <3>1. CASE Daemon(p)
      <4>1. proc' = [proc EXCEPT ![p].term = TRUE]
        BY <1>4, <3>1 DEF StopLegacy
      <4> QED
        BY <1>0, <2>1, <4>1, TermLeaves
    <3>2. CASE ~Daemon(p) /\ proc[p].at = "other"
      <4>1. proc' = [proc EXCEPT ![p] = Free]
        BY <1>4, <3>2 DEF StopLegacy
      <4>2. proc' \in [Pid -> Process] /\ proc'[p] = Free /\ \A q \in Pid \ {p} : proc'[q] = proc[q]
        BY <1>0, <2>1, <4>1, FreeProcess DEF StateInv, TypeOK
      <4>3. Eased(p)
        BY <1>0, <1>1, <2>1, <3>2, <4>2, GapUnbound, FreeProcess DEF Eased, Gap
      <4>4. \A x \in Pid : \A s \in Svc : proc[x].forwards[s] # None => proc[x].at \in Running
        BY <1>0 DEF StateInv, DaemonInv, Sound
      <4>5. \A x \in Pid \ {p} : Eased(x)
        BY <4>2, <4>4 DEF Eased
      <4> QED
        BY <2>1, <4>2, <4>3, <4>5, FreeProcess DEF Undisturbed
    <3>3. CASE ~Daemon(p) /\ proc[p].at # "other"
      BY <1>0, <1>4, <3>3, SameLeaves DEF StopLegacy
    <3> QED
      BY <3>1, <3>2, <3>3
  <2>3. PICK d \in Command :
           /\ d.at = "kill" /\ d.op = cmd[k].op /\ d.cfg = c /\ d.pid = p
           /\ cmd' = [cmd EXCEPT ![k] = d]
    <3> DEFINE e == [cmd[k] EXCEPT !.at = "kill", !.pid = p]
    <3>1. e \in Command /\ e.at = "kill" /\ e.op = cmd[k].op /\ e.cfg = c /\ e.pid = p
      BY <1>0, <2>1 DEF Command
    <3>2. cmd' = [cmd EXCEPT ![k] = e]
      BY <1>4 DEF StopLegacy
    <3> HIDE DEF e
    <3> QED
      BY <3>1, <3>2
  <2>4. CmdTurns(k, d) /\ Apt(d)
    BY <1>0, <2>1, <2>3, CmdTurned DEF Apt
  <2>5. CurrentKept /\ pidFile' \in [Cfg -> Pid \cup {None}] /\ FileKept
    BY <1>0, <1>1, <1>2, <2>2, EasedKeeps, CleansKeep DEF Undisturbed
  <2>6. ASSUME OneHolds, NEW q \in Pid, Current(q, d.cfg)'
        PROVE  q = d.pid
    <3>1. Current(q, c)
      BY <1>0, <2>3, <2>5, <2>6 DEF CurrentKept, Current
    <3>2. CASE pidFile[c] # q
      <4>1. PICK j \in Cmd : cmd[j].at = "pidfile" /\ cmd[j].cfg = c
        BY <1>0, <2>6, <3>1, <3>2 DEF OneHolds, Filed
      <4>2. cmd[j].op \in Starts
        BY <1>0, <4>1 DEF StateInv, CmdInv, Apt
      <4>3. j = k
        BY <1>0, <2>6, <4>1, <4>2, AloneStarts DEF OneHolds, Starts
      <4> QED
        BY <1>0, <4>1, <4>3
    <3> QED
      BY <2>3, <3>2
  <2> QED
    BY <1>0, <1>1, <1>2, <2>2, <2>3, <2>4, <2>5, <2>6, CommandKeeps
    DEF Undisturbed, IInv, StateInv, TypeOK
<1> QED
  BY <1>3, <1>4

LEMMA StopKillKeeps ==
    ASSUME IInv, NEW k \in Cmd, StopKill(k)
    PROVE  IInv'
<1> DEFINE p == cmd[k].pid
<1>0. /\ StateInv /\ Apt(cmd[k]) /\ cmd[k].at = "kill" /\ cmd[k].cfg \in Cfg /\ p \in Pid
      /\ \A j \in Cmd : cmd[j] \in Command
  BY DEF IInv, StateInv, TypeOK, CmdInv, Apt, StopKill
<1>1. excused' = excused /\ registry' = registry
  BY DEF StopKill
<1>2. /\ sock' \in [Cfg -> Pid \cup {"stale", None}]
      /\ \A c \in Cfg : sock'[c] \in Pid => sock'[c] = sock[c] /\ (Daemon(p) => sock'[c] # p)
  BY <1>0, FleetAssumption DEF StopKill, StateInv, TypeOK
<1>3. Undisturbed
  <2>1. \A x \in Pid : \A s \in Svc : proc[x].forwards[s] # None => proc[x].at \in Running
    BY <1>0 DEF StateInv, DaemonInv, Sound
  <2>2. CASE Daemon(p)
    <3>1. proc' = [proc EXCEPT ![p] = Free]
      BY <2>2 DEF StopKill
    <3>2. proc' \in [Pid -> Process] /\ proc'[p] = Free /\ \A q \in Pid \ {p} : proc'[q] = proc[q]
      BY <1>0, <3>1, FreeProcess DEF StateInv, TypeOK
    <3>3. Eased(p)
      BY <1>0, <1>2, <2>2, <3>2, FreeProcess DEF Eased
    <3>4. \A x \in Pid \ {p} : Eased(x)
      BY <2>1, <3>2 DEF Eased
    <3> QED
      BY <3>2, <3>3, <3>4, FreeProcess DEF Undisturbed
  <2>3. CASE ~Daemon(p)
    BY <1>0, <2>3, SameLeaves DEF StopKill
  <2> QED
    BY <2>2, <2>3
<1>4. PICK d \in Command :
         /\ d.at \in {"idle", "waitexit"} /\ Apt(d) /\ CmdTurns(k, d)
         /\ d.at = "idle" \/ (d.op = cmd[k].op /\ d.cfg = cmd[k].cfg)
  <2> DEFINE e == IF cmd[k].op = "restart" THEN [cmd[k] EXCEPT !.at = "waitexit", !.pid = None]
                  ELSE IdleCmd
             g(j) == [cmd[j] EXCEPT !.serving = @ \ {p}]
  <2>1. /\ e \in Command /\ e.at \in {"idle", "waitexit"}
        /\ e.at = "idle" \/ (e.op = cmd[k].op /\ e.cfg = cmd[k].cfg)
        /\ Apt(e)
    <3>1. CASE cmd[k].op = "restart"
      <4>1. /\ e \in Command /\ e.at = "waitexit" /\ e.op = cmd[k].op /\ e.cfg = cmd[k].cfg
        BY <1>0, <3>1 DEF Command
      <4> QED
        BY <1>0, <3>1, <4>1 DEF Apt
    <3>2. CASE cmd[k].op # "restart"
      BY <3>2, IdleApt
    <3> QED
      BY <3>1, <3>2
  <2>2. \A j \in Cmd : /\ g(j) \in Command /\ g(j).at = cmd[j].at /\ g(j).op = cmd[j].op
                       /\ g(j).cfg = cmd[j].cfg /\ g(j).pid = cmd[j].pid
                       /\ g(j).primary = cmd[j].primary
    BY <1>0 DEF Command
  <2>3. cmd' = [j \in Cmd |-> IF j # k THEN g(j) ELSE e]
    BY DEF StopKill
  <2> HIDE DEF e, g
  <2>4. CmdTurns(k, e)
    BY <2>1, <2>2, <2>3 DEF CmdTurns
  <2> QED
    BY <2>1, <2>4
<1>5. ListKept
  BY <1>0, <1>1, ListOrSame
<1>6. CurrentKept
  BY <1>0, <1>2, <1>3, <1>5, EasedKeeps DEF Undisturbed
<1>7. /\ pidFile' = [pidFile EXCEPT ![cmd[k].cfg] = None] \/ pidFile' = pidFile
      /\ pidFile \in [Cfg -> Pid \cup {None}]
  BY <1>0 DEF StopKill, StateInv, TypeOK
<1>8. FileKept
  <2> SUFFICES ASSUME Aimed, NEW q \in Pid, NEW c \in Cfg, Current(q, c)', pidFile[c] = q,
                      c = cmd[k].cfg
               PROVE  FALSE
    BY <1>7 DEF FileKept
  <2>1. Current(q, c)
    BY <1>6 DEF CurrentKept
  <2>2. q = p
    BY <1>0, <2>1 DEF Aimed
  <2>3. proc' = [proc EXCEPT ![p] = Free]
    BY <2>1, <2>2 DEF StopKill, Current
  <2>4. proc'[q] = Free
    BY <1>0, <2>2, <2>3 DEF StateInv, TypeOK
  <2> QED
    BY <2>4, FreeProcess DEF Current, Daemon, Gap
<1> QED
  BY <1>0, <1>1, <1>2, <1>3, <1>4, <1>5, <1>7, <1>8, CommandKeeps DEF
     Undisturbed

LEMMA WaitForExitKeeps ==
    ASSUME IInv, NEW k \in Cmd, WaitForExit(k)
    PROVE  IInv'
<1>0. /\ StateInv /\ Apt(cmd[k]) /\ cmd[k].at = "waitexit" /\ cmd[k].cfg \in Cfg
      /\ cmd[k] \in Command
  BY DEF IInv, StateInv, TypeOK, CmdInv, Apt, WaitForExit
<1>1. /\ sock' = sock /\ excused' = excused /\ registry' = registry /\ proc' = proc
      /\ pidFile' = IsRunningCleans(cmd[k].cfg)
  BY DEF WaitForExit, CmdFrame
<1>2. PICK d \in Command :
         /\ d.at = "check" /\ d.op = cmd[k].op /\ d.cfg = cmd[k].cfg
         /\ cmd' = [cmd EXCEPT ![k] = d]
  <2> DEFINE e == [cmd[k] EXCEPT !.at = "check", !.pid = None]
  <2>1. e \in Command /\ e.at = "check" /\ e.op = cmd[k].op /\ e.cfg = cmd[k].cfg
    BY <1>0 DEF Command
  <2>2. cmd' = [cmd EXCEPT ![k] = e]
    BY DEF WaitForExit
  <2> HIDE DEF e
  <2> QED
    BY <2>1, <2>2
<1>3. ListKept /\ Undisturbed /\ CmdTurns(k, d)
  BY <1>0, <1>1, <1>2, ListOrSame, SameLeaves, CmdTurned
<1>4. Apt(d)
  BY <1>0, <1>2 DEF Apt, Starts
<1> QED
  BY <1>0, <1>1, <1>2, <1>3, <1>4, QuietCommand

-----------------------------------------------------------------------------
(* Delegates and hand-overs.                                               *)

LEMMA DelegateScanKeeps ==
    ASSUME IInv, NEW k \in Cmd, DelegateScan(k)
    PROVE  IInv'
<1>0. /\ StateInv /\ Apt(cmd[k]) /\ cmd[k].at = "scan" /\ cmd[k].cfg \in Cfg
      /\ cmd[k] \in Command /\ cmd[k].op = "delegate"
  BY DEF IInv, StateInv, TypeOK, CmdInv, Apt, DelegateScan
<1>1. /\ sock' = sock /\ excused' = excused /\ pidFile' = pidFile
      /\ registry' = registry \/ registry' = Pruned(cmd[k].cfg)
  BY DEF DelegateScan, history
<1>2. ListKept
  BY <1>0, <1>1, ListOrSame
<1>3. CASE Finish(k)
  BY <1>0, <1>1, <1>2, <1>3, FinishLeaves, IdleApt, QuietCommand
<1>4. CASE Goto(k, "check") /\ proc' = proc
  <2>1. PICK d \in Command :
             /\ d.at = "check" /\ d.op = cmd[k].op /\ d.cfg = cmd[k].cfg
             /\ CmdTurns(k, d)
    BY <1>0, <1>4, GotoTurns
  <2>2. Apt(d)
    BY <1>0, <2>1 DEF Apt, Starts
  <2>3. Undisturbed
    BY <1>0, <1>4, SameLeaves
  <2> QED
    BY <1>0, <1>1, <1>2, <2>1, <2>2, <2>3, QuietCommand
<1>5. ASSUME NEW c \in Cfg, NEW S \in SUBSET Svc, proc' = proc,
             cmd' = [cmd EXCEPT ![k].at = "spawn", ![k].primary = c, ![k].clean = S]
      PROVE  IInv'
  <2> DEFINE e == [cmd[k] EXCEPT !.at = "spawn", !.primary = c, !.clean = S]
  <2>1. /\ e \in Command /\ e.at = "spawn" /\ e.op = cmd[k].op /\ e.cfg = cmd[k].cfg
        /\ e.primary = c
    BY <1>0 DEF Command
  <2>2. cmd' = [cmd EXCEPT ![k] = e]
    BY <1>5
  <2> HIDE DEF e
  <2>3. PICK d \in Command : d = e
    BY <2>1
  <2>4. CmdTurns(k, d) /\ Apt(d)
    BY <1>0, <2>1, <2>2, <2>3, CmdTurned DEF Apt, Starts
  <2>5. Undisturbed
    BY <1>0, <1>5, SameLeaves
  <2> QED
    BY <1>0, <1>1, <1>2, <2>1, <2>3, <2>4, <2>5, QuietCommand, FleetAssumption
<1>6. \A e \in registry : e.cfg \in Cfg
  BY <1>0 DEF StateInv, TypeOK, Entries
<1>7. Clean(cmd[k].cfg, Live({e \in List(cmd[k].cfg) : ~e.delegate})) \in SUBSET Svc
  BY <1>0, FleetAssumption DEF Clean
<1>8. Live({e \in List(cmd[k].cfg) : ~e.delegate}) \subseteq registry
  BY DEF Live, List
<1> QED
  BY <1>3, <1>4, <1>5, <1>6, <1>7, <1>8 DEF DelegateScan

(* What is added goes to a daemon that runs.                               *)
LEMMA AddsEases ==
    ASSUME StateInv, NEW q \in Pid, proc[q].at \in Running, NEW S, NEW source \in Cfg,
           NEW after, after = AddsTo(q, S, source)
    PROVE  /\ after \in [Pid -> Process]
           /\ \A x \in Pid :
                /\ after[x].at = proc[x].at /\ after[x].cfg = proc[x].cfg
                /\ after[x].delegate = proc[x].delegate /\ after[x].srv = proc[x].srv
                /\ after[x].external = proc[x].external /\ after[x].reg = proc[x].reg
                /\ \A s \in Svc : after[x].forwards[s] # None => proc[x].at \in Running
<1> DEFINE f == [s \in Svc |->
                   IF s \in S /\ \A x \in Svc : proc[q].forwards[x] # None => PortOf[x] # PortOf[s]
                   THEN source ELSE proc[q].forwards[s]]
           r == [proc[q] EXCEPT !.forwards = f]
<1>1. proc \in [Pid -> Process] /\ proc[q] \in Process
  BY DEF StateInv, TypeOK
<1>2. f \in [Svc -> Cfg \cup {None}]
  BY <1>1 DEF Process
<1>3. after = [proc EXCEPT ![q] = r]
  BY DEF AddsTo
<1> HIDE DEF f
<1>4. /\ r \in Process /\ r.at = proc[q].at /\ r.cfg = proc[q].cfg
      /\ r.delegate = proc[q].delegate /\ r.srv = proc[q].srv
      /\ r.external = proc[q].external /\ r.reg = proc[q].reg
  BY <1>1, <1>2 DEF Process
<1> HIDE DEF r
<1>5. \A x \in Pid : \A s \in Svc : proc[x].forwards[s] # None => proc[x].at \in Running
  BY DEF StateInv, DaemonInv, Sound
<1> QED
  BY <1>1, <1>3, <1>4, <1>5

LEMMA HandOffKeeps ==
    ASSUME IInv, NEW k \in Cmd, HandOff(k)
    PROVE  IInv'
<1>0. /\ StateInv /\ Apt(cmd[k]) /\ cmd[k].at = "handoff" /\ cmd[k].cfg \in Cfg
      /\ CmdTurns(k, IdleCmd)
  BY IdleApt, CmdTurned DEF IInv, StateInv, CmdInv, Apt, HandOff
<1>1. sock' = sock /\ registry' = registry /\ pidFile' = pidFile
  BY DEF HandOff
<1> DEFINE takes == Takes(cmd[k].primary)
<1>2. PICK after :
         /\ proc' = [p \in Pid |-> IF p = cmd[k].pid /\ proc[p].at = "zombie"
                                   THEN Free ELSE after[p]]
         /\ IF takes THEN after = AddsTo(sock[cmd[k].primary], cmd[k].clean, cmd[k].cfg)
                     ELSE after = proc
  BY DEF HandOff
<1>3. excused' = excused \cup (IF takes THEN {"handed"} ELSE {})
  BY DEF HandOff
<1>4. /\ after \in [Pid -> Process]
      /\ \A x \in Pid :
            /\ after[x].at = proc[x].at /\ after[x].cfg = proc[x].cfg
            /\ after[x].delegate = proc[x].delegate /\ after[x].srv = proc[x].srv
            /\ after[x].external = proc[x].external /\ after[x].reg = proc[x].reg
                /\ \A s \in Svc : after[x].forwards[s] # None => proc[x].at \in Running
  <2>1. CASE takes
    BY <1>0, <1>2, <2>1, AddsEases DEF Takes, Connectable, Running
  <2>2. CASE ~takes
    BY <1>0, <1>2, <2>2 DEF StateInv, TypeOK, DaemonInv, Sound, Running
  <2> QED
    BY <2>1, <2>2
<1> HIDE DEF takes
<1>5. ASSUME NEW x \in Pid
      PROVE  /\ proc'[x] \in Process /\ Eased(x)
             /\ takes \/ \A s \in Svc : proc'[x].forwards[s] # None
                                      => proc[x].forwards[s] # None
  <2>1. CASE x = cmd[k].pid /\ proc[x].at = "zombie"
    <3>1. proc'[x] = Free
      BY <1>2, <2>1
    <3>2. \A c \in Cfg : sock'[c] # x
      BY <1>0, <1>1, <2>1, GapUnbound DEF Gap
    <3> QED
      BY <3>1, <3>2, FreeProcess DEF Eased
  <2>2. CASE ~(x = cmd[k].pid /\ proc[x].at = "zombie")
    <3>1. proc'[x] = after[x]
      BY <1>2, <2>2
    <3> QED
      BY <1>2, <1>4, <3>1 DEF Eased
  <2> QED
    BY <2>1, <2>2
<1>6. proc' \in [Pid -> Process]
  BY <1>2, <1>5
<1>7. /\ ListKept /\ FileKept /\ pidFile' \in [Cfg -> Pid \cup {None}]
      /\ sock' \in [Cfg -> Pid \cup {"stale", None}]
  BY <1>0, <1>1, ListOrSame, FileSame DEF StateInv, TypeOK
<1> QED
  BY <1>0, <1>1, <1>3, <1>5, <1>6, <1>7, IdleApt, CommandKeeps

LEMMA OffloadKeeps ==
    ASSUME IInv, NEW k \in Cmd, Offload(k)
    PROVE  IInv'
<1>0. /\ StateInv /\ Apt(cmd[k]) /\ cmd[k].at = "offload" /\ cmd[k].cfg \in Cfg
      /\ CmdTurns(k, IdleCmd)
  BY IdleApt, CmdTurned DEF IInv, StateInv, CmdInv, Apt, Offload
<1>1. /\ sock' = sock /\ pidFile' = pidFile
      /\ registry' = registry \/ registry' = Pruned(cmd[k].cfg)
  BY DEF Offload, Listing
<1> DEFINE takes == Takes(cmd[k].cfg)
<1>2. /\ excused' = excused \cup (IF takes THEN {"handed"} ELSE {})
      /\ IF takes THEN proc' = AddsTo(sock[cmd[k].cfg], Wanted[cmd[k].cfg], cmd[k].cfg)
                  ELSE proc' = proc
  BY DEF Offload
<1>3. /\ proc' \in [Pid -> Process]
      /\ \A x \in Pid : Eased(x)
  <2>1. CASE takes
    BY <1>0, <1>2, <2>1, AddsEases DEF Takes, Connectable, Running, Eased
  <2>2. CASE ~takes
    BY <1>0, <1>2, <2>2, SameLeaves DEF Undisturbed
  <2> QED
    BY <2>1, <2>2
<1>4. \/ "handed" \in excused'
      \/ \A x \in Pid : \A s \in Svc :
            proc'[x].forwards[s] # None => proc[x].forwards[s] # None
  BY <1>2
<1>5. /\ ListKept /\ FileKept /\ pidFile' \in [Cfg -> Pid \cup {None}]
      /\ sock' \in [Cfg -> Pid \cup {"stale", None}]
  BY <1>0, <1>1, ListOrSame, FileSame DEF StateInv, TypeOK
<1>6. excused \subseteq excused'
  BY <1>2
<1> QED
  BY <1>0, <1>1, <1>3, <1>4, <1>5, <1>6, IdleApt, CommandKeeps

-----------------------------------------------------------------------------
(* The invariant holds from the start and is kept by every step.           *)

LEMMA InitHolds == Init => IInv
<1> SUFFICES ASSUME Init PROVE IInv
  OBVIOUS
<1>1. TypeOK
  BY FreeProcess, IdleApt DEF Init, TypeOK
<1>2. DaemonInv
  BY FreeProcess DEF Init, DaemonInv, Sound, Gap, Listed, Free
<1>3. SocketInv
  BY FleetAssumption DEF Init, SocketInv
<1>4. CmdInv
  BY IdleApt DEF Init, CmdInv
<1>5. Alone /\ Filed /\ Aimed
  BY FreeProcess, IdleApt DEF Init, Alone, Filed, Aimed, Current, Daemon, Gap
<1>6. OneLooks /\ Seen /\ NoneTwice
  BY FreeProcess DEF Init, OneLooks, Seen, NoneTwice, Looking, Free
<1> QED
  BY <1>1, <1>2, <1>3, <1>4, <1>5, <1>6 DEF IInv, StateInv, OneInv, OwnerInv

LEMMA CmdKeeps ==
    ASSUME IInv, NEW k \in Cmd, CmdStep(k) \/ \E op \in Ops, c \in Cfg : Issue(k, op, c)
    PROVE  IInv'
BY StartCheckKeeps, StartFindKeeps, SpawnKeeps, ParentPidFileKeeps, PollKeeps,
   WaitForReadyKeeps, StopDialKeeps, StopRpcKeeps, StopLegacyKeeps,
   StopKillKeeps, WaitForExitKeeps, DelegateScanKeeps, HandOffKeeps,
   OffloadKeeps, IssueKeeps
DEF CmdStep

LEMMA StutterHolds == ASSUME IInv, UNCHANGED vars PROVE IInv'
BY DEF vars, history, IInv, StateInv, TypeOK, DaemonInv, SocketInv, CmdInv,
       OneInv, OwnerInv, Alone, Filed, Aimed, OneLooks, Seen, NoneTwice,
       Current, Daemon

LEMMA NextHolds == ASSUME IInv, [Next]_vars PROVE IInv'
BY DaemonKeeps, CmdKeeps, StutterHolds DEF Next

LEMMA InvariantHolds == Spec => []IInv
BY InitHolds, NextHolds, PTL DEF Spec

(* No two daemons of one registry forward services of one port, whatever   *)
(* is started, stopped, reloaded or crashes, unless one has looked while   *)
(* another was between its look and its adds, out of reach or not          *)
(* registered, or could not look at all, or services were handed over      *)
(* (detectExternalConflicts, runProxy, Reload).                            *)
THEOREM ServicesHaveOneOwner == Spec => []SingleOwner
<1>1. IInv => SingleOwner
  BY DEF IInv, OwnerInv, NoneTwice, SingleOwner
<1> QED
  BY <1>1, InvariantHolds, PTL

(* A config has one daemon that has not given up its PID file, as long as  *)
(* no start of it overlaps another start or a stop, every PID file is      *)
(* written and no delegate is started over a daemon (cmdStart,             *)
(* launchDaemon, cmdStop, runProxy).                                       *)
THEOREM DaemonsAreAlone == Spec => []OneDaemonPerConfig
<1>1. IInv => OneDaemonPerConfig
  <2> SUFFICES ASSUME IInv, NEW p \in Pid, NEW q \in Pid, NEW c \in Cfg,
                      Current(p, c), Current(q, c),
                      excused \cap {"concurrent", "overlaid", "unfiled"} = {}
               PROVE  p = q
    BY DEF OneDaemonPerConfig
  <2> QED
    BY OnlyOne DEF IInv, OneInv
<1> QED
  BY <1>1, InvariantHolds, PTL

(* A daemon that serves and could register is in the registry, under its   *)
(* config, whatever others register, prune and deregister                  *)
(* (registry.Register, Deregister, List).                                  *)
THEOREM ServingIsRegistered == Spec => []RunningIsRegistered
<1>1. IInv => RunningIsRegistered
  BY DEF IInv, StateInv, DaemonInv, Sound, Listed, RunningIsRegistered, Entry
<1> QED
  BY <1>1, InvariantHolds, PTL
=============================================================================
