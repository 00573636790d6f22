-------------------------------- MODULE Reload --------------------------------
(***************************************************************************)
(* A running daemon whose configuration changes: the file watcher, SIGHUP  *)
(* and the Reload RPC diff the file against the manager's directory while  *)
(* AddService, RemoveService and Apply requests, a delegate's hand-over    *)
(* and release, resolvers of multi-port services and other instances that  *)
(* take or give up services go on.                                         *)
(*                                                                         *)
(* Manager implements ServiceDirectory, so here one AddService or          *)
(* RemoveService call is one step.  Two resolvers of one service at a time *)
(* are left to Manager.                                                    *)
(***************************************************************************)
EXTENDS Naturals

CONSTANTS Top,          \* names of services
          Multi,        \* those that forward several ports
          ChildrenOf,   \* ChildrenOf[m]: the children m resolves to
          Fixed,        \* the single-port services that ask for a local port
          PortOf,       \* PortOf[n]: the local port of a forward, if a fixed one
          Native,       \* the source of a forward of the daemon's own
          Delegate,     \* the source of a forward a delegate handed over
          Untraced,     \* that of an entry which shows a delegate's service as
                        \* failed: the entry does not carry it
          Client,       \* goroutines serving AddService and RemoveService
          None,
          Broken,       \* a config file that is missing or does not load
          NoFile,       \* a daemon started without a config file
          MaxEvents     \* bound: requests, edits of the file by its user, failing
                        \* saves and changes of what others own, together

Child == UNION {ChildrenOf[m] : m \in Multi}
Name == Top \cup Child
Source == {Native, Delegate}
Reloader == {"watch", "rpc"}
Contents == SUBSET Top

(* Config.Validate: a file lists a service, and no local port twice.       *)
Valid(C) == /\ C \notin {Broken, NoFile} /\ C # {}
            /\ \A x, y \in C \cap Fixed : PortOf[x] = PortOf[y] => x = y

(* A child is named after its parent and its port.                         *)
ASSUME MultiAssumption ==
    /\ Multi \subseteq Top /\ Child \cap Top = {} /\ Fixed \subseteq Top \ Multi
    /\ \A x, y \in Multi : x # y => ChildrenOf[x] \cap ChildrenOf[y] = {}

(* What stands for an absence, an error or a place in Reload is no value.  *)
Phase == {"none", "newly", "parents", "running", "readd", "add"}
ASSUME ValueAssumption ==
    /\ Native # Delegate /\ Untraced \notin Source \cup {None}
    /\ None \notin Source \cup Reloader /\ Broken # NoFile
    /\ \A S \in SUBSET Child : S # None
    /\ \A C \in Contents : C \notin {Broken, NoFile}
    /\ Multi \cap Phase = {}

VARIABLES
    forwards,   \* m.forwards: the source of every registered forward, or None
    children,   \* m.children: the child list of every reserved parent, or None
    resolving,  \* superviseMulti calls in port resolution: <<parent, source>>
    external,   \* m.externalForwards
    owned,      \* the names other live instances report
    file,       \* the config file's services
    version,    \* its modification time
    watch,      \* watchConfigFile: starting, on or off
    seen,       \* its lastModTime
    reloads,    \* each reload: where it is and the config it has loaded
    reloadMu,   \* the reload that holds reloadMu, or None
    diff,       \* its snapshots and what the current loop has left to do
    persists,   \* each client's persist: its edit, and the config it loaded
    release,    \* the delegate's release: where it is, what is left and what it
                \* has not found
    
    events,     \* counts against MaxEvents
    disturbed,  \* another call took effect while reloadMu was held
    ledger,     \* the file as the edits and the accepted requests meant it
    unsaved,    \* the services of which the file may say something else, since a
                \* save failed or two writers of the file overlapped
    refused,    \* the services that the start or the last reload could not add,
                \* for their port was taken
    excused     \* what has happened that the code does not cope with

vars == <<forwards, children, resolving, external, owned, file, version, watch, seen,
          reloads, reloadMu, diff, persists, release, events,
          disturbed, ledger, unsaved, refused, excused>>
directory == <<forwards, children, resolving>>
watcher == <<watch, seen>>
written == <<ledger, unsaved>>
history == <<disturbed, written, refused, excused>>

IdleReload == [at |-> "idle", cfg |-> {}, version |-> 0]
IdlePersist == [at |-> "idle", op |-> "add", name |-> None, cfg |-> {}]
NoDiff == [at |-> "none", running |-> {}, parents |-> {}, todo |-> {}]

Parent(n) == n \in Multi /\ children[n] # None
Registered == {n \in Name : forwards[n] # None}
Parents == {m \in Multi : Parent(m)}

(* The services of the directory, a multi-port one by its parent. *)
Served == {n \in Top : n \in Registered \/ Parent(n)}

(* Start has reserved the file's services one after the other.  The        *)
(* multi-port ones in early were resolved before the others' turn, and a   *)
(* fixed port that one of their children has taken is refused.             *)
Init ==
    /\ file \in {NoFile} \cup {C \in Contents : Valid(C)}
    /\ \E early \in SUBSET Multi :
         LET cfg == IF file = NoFile THEN {} ELSE file
             taken == UNION {ChildrenOf[m] : m \in early}
         IN  /\ early \subseteq cfg
             /\ refused \in SUBSET {n \in cfg \cap Fixed :
                                      \E x \in taken : PortOf[x] = PortOf[n]}
             /\ forwards = [n \in Name |->
                    IF n \in ((cfg \ Multi) \ refused) \cup taken THEN Native ELSE None]
             /\ children = [m \in Multi |-> IF m \in early THEN ChildrenOf[m]
                                            ELSE IF m \in cfg THEN {} ELSE None]
             /\ resolving = {<<m, Native>> : m \in (cfg \cap Multi) \ early}
    /\ external = {} /\ owned = {}
    /\ version = 0 /\ seen = 0
    /\ watch = IF file = NoFile THEN "off" ELSE "starting"
    /\ reloads = [r \in Reloader |-> IdleReload]
    /\ reloadMu = None
    /\ diff = NoDiff
    /\ persists = [c \in Client |-> IdlePersist]
    /\ release = [at |-> "active", todo |-> {}, missed |-> {}]
    /\ events = 0
    /\ disturbed = FALSE
    /\ ledger = file /\ unsaved = {}
    /\ excused = {}

Event == events < MaxEvents /\ events' = events + 1

-----------------------------------------------------------------------------
(* The directory's operations, and the resolution they start. *)

(* A forward's port is taken for the services that ask for it; the entry   *)
(* of a failed resolution has none, and children take theirs unasked.      *)
PortTaken(n) ==
    n \in Fixed /\ \E x \in (Registered \ Multi) \ {n} : PortOf[x] = PortOf[n]

(* reserveForward *)
CanAdd(n) == n \notin Registered /\ ~Parent(n) /\ ~PortTaken(n)

AddService(n, source) ==
    IF ~CanAdd(n) THEN UNCHANGED directory
    ELSE IF n \in Multi
    THEN /\ children' = [children EXCEPT ![n] = {}]
         /\ resolving' = resolving \cup {<<n, source>>}
         /\ UNCHANGED forwards
    ELSE /\ forwards' = [forwards EXCEPT ![n] = source]
         /\ UNCHANGED <<children, resolving>>

(* An addition does not ask whether another instance owns the service.     *)
Imposes(n) == IF n \in external /\ CanAdd(n) THEN {"imposed"} ELSE {}

(* A removal reports an error when the service, or a child of it, is gone. *)
RemoveFails(n) ==
    IF Parent(n) THEN ~(children[n] \subseteq Registered) ELSE n \notin Registered

RemoveService(n) ==
    LET gone == IF Parent(n) THEN children[n] \cup {n} ELSE {n}
    IN  /\ forwards' = [x \in Name |-> IF x \in gone THEN None ELSE forwards[x]]
        /\ children' = [m \in Multi |-> IF m = n THEN None ELSE children[m]]
        /\ UNCHANGED resolving

(* A child removed without its parent, which still lists it. *)
LosesChild(n) ==
    IF \E m \in Parents : n \in children[m] \cap Registered THEN {"child"} ELSE {}

ResolveSucceeds(m, source) ==
    /\ IF Parent(m)
       THEN /\ forwards' = [n \in Name |->
                   IF n \in ChildrenOf[m] \ Registered THEN source ELSE forwards[n]]
            /\ children' = [children EXCEPT ![m] = ChildrenOf[m]]
       ELSE UNCHANGED <<forwards, children>>
    /\ resolving' = resolving \ {<<m, source>>}

(* The entry that shows a failed resolution does not carry the source. *)
ResolveFails(m, source) ==
    /\ forwards' = IF Parent(m) /\ m \notin Registered
                   THEN [forwards EXCEPT ![m] = IF source = Delegate THEN Untraced ELSE Native]
                   ELSE forwards
    /\ resolving' = resolving \ {<<m, source>>}
    /\ UNCHANGED children

Resolve ==
    /\ \E x \in resolving : ResolveSucceeds(x[1], x[2]) \/ ResolveFails(x[1], x[2])
    /\ UNCHANGED <<external, owned, file, version, watcher, reloads, reloadMu, diff,
                   persists, release, events, history>>

-----------------------------------------------------------------------------
(* Reload: the config is loaded first and reloadMu taken afterwards. *)

(* The watcher's first os.Stat: what was written since the daemon loaded   *)
(* the file counts as seen; if the file is missing, nobody watches it.     *)
WatchStart ==
    /\ watch = "starting"
    /\ \/ watch' = "on" /\ seen' = version
       \/ file = Broken /\ watch' = "off" /\ UNCHANGED seen
    /\ UNCHANGED <<directory, external, owned, file, version, reloads, reloadMu, diff,
                   persists, release, events, history>>

WatchTick ==
    /\ watch = "on"
    /\ reloads["watch"].at = "idle"
    /\ version # seen
    /\ seen' = version
    /\ reloads' = [reloads EXCEPT !["watch"].at = "load"]
    /\ UNCHANGED <<directory, external, owned, file, version, watch, reloadMu, diff,
                   persists, release, events, history>>

(* A file that does not load or validate ends the reload. *)
Load(r) ==
    IF Valid(file)
    THEN /\ reloads' = [reloads EXCEPT
                ![r] = [at |-> "loaded", cfg |-> file, version |-> version]]
         /\ excused' = excused \ {"unwatched"}
    ELSE reloads' = [reloads EXCEPT ![r] = IdleReload] /\ UNCHANGED excused

LoadFrame ==
    UNCHANGED <<directory, external, owned, file, version, watcher, reloadMu, diff,
                persists, release, disturbed, written, refused>>

(* The debounced reload of the watcher. *)
ReloadLoad ==
    /\ reloads["watch"].at = "load"
    /\ Load("watch")
    /\ LoadFrame /\ UNCHANGED events

(* The Reload RPC, and SIGHUP, load the file first thing. *)
ReloadRequest ==
    /\ file # NoFile
    /\ reloads["rpc"].at = "idle"
    /\ Load("rpc")
    /\ Event /\ LoadFrame

(* refreshExternalForwards: what the detector finds replaces the external  *)
(* set; what has just become external is to be stopped.  A reload that     *)
(* overtakes an older one is noted: the older one is applied last.         *)
ReloadLock(r) ==
    /\ reloads[r].at = "loaded"
    /\ reloadMu = None
    /\ reloadMu' = r
    /\ external' = owned \cap reloads[r].cfg
    /\ diff' = [NoDiff EXCEPT !.at = "newly", !.todo = external' \ external]
    /\ disturbed' = FALSE
    /\ excused' = excused \cup
           (IF \E o \in Reloader : /\ reloads[o].at \in {"loaded"}
                                   /\ reloads[o].version < reloads[r].version
            THEN {"order"} ELSE {})
    /\ UNCHANGED <<directory, owned, file, version, watcher, reloads, persists, release,
                   events, written, refused>>

Cfg == reloads[reloadMu].cfg

ReloadFrame ==
    /\ reloadMu # None
    /\ UNCHANGED <<owned, file, version, watcher, persists, release, events,
                   disturbed, written>>

(* The loops that remove; errors are logged and passed over. *)
ReloadRemove ==
    /\ ReloadFrame
    /\ diff.at \in {"newly", "parents", "running"}
    /\ \E n \in diff.todo :
         /\ RemoveService(n)
         /\ diff' = [diff EXCEPT !.todo = @ \ {n}]
         /\ excused' = excused \cup LosesChild(n)
    /\ UNCHANGED <<external, reloads, reloadMu, refused>>

(* The snapshots of the running forwards and of the parents. *)
ReloadSnapshot ==
    /\ ReloadFrame
    /\ diff.at = "newly" /\ diff.todo = {}
    /\ diff' = [at |-> "parents", running |-> Registered, parents |-> Parents,
                todo |-> Parents \ Cfg]
    /\ UNCHANGED <<directory, external, reloads, reloadMu, refused, excused>>

(* The running forwards that are neither desired nor children are next. *)
ReloadRunning ==
    /\ ReloadFrame
    /\ diff.at = "parents" /\ diff.todo = {}
    /\ diff' = [diff EXCEPT
                  !.at = "running",
                  !.todo = (diff.running \ Cfg) \ UNION {children[m] : m \in Parents}]
    /\ UNCHANGED <<directory, external, reloads, reloadMu, refused, excused>>

ReloadReadd ==
    /\ ReloadFrame
    /\ diff.at = "running" /\ diff.todo = {}
    /\ diff' = [diff EXCEPT !.at = "readd", !.todo = Cfg \cap diff.parents]
    /\ UNCHANGED <<directory, external, reloads, reloadMu, refused, excused>>

(* A removal that reports an error is not followed by the addition. *)
ReaddRemove ==
    /\ ReloadFrame
    /\ diff.at = "readd"
    /\ \E n \in diff.todo :
         /\ RemoveService(n)
         /\ diff' = IF RemoveFails(n) THEN [diff EXCEPT !.todo = @ \ {n}]
                    ELSE [diff EXCEPT !.at = n]
    /\ UNCHANGED <<external, reloads, reloadMu, refused, excused>>

ReaddAdd ==
    /\ ReloadFrame
    /\ diff.at \in Multi
    /\ AddService(diff.at, Native)
    /\ diff' = [diff EXCEPT !.at = "readd", !.todo = @ \ {diff.at}]
    /\ UNCHANGED <<external, reloads, reloadMu, refused, excused>>

(* Externals no longer in the config are forgotten. *)
ReloadForget ==
    /\ ReloadFrame
    /\ diff.at = "readd" /\ diff.todo = {}
    /\ external' = external \cap Cfg
    /\ diff' = [diff EXCEPT !.at = "add", !.todo = Cfg \ (diff.running \cup diff.parents)]
    /\ refused' = {}
    /\ UNCHANGED <<directory, reloads, reloadMu, excused>>

(* Mutant: services of other instances are added as well. *)
ReloadAddExternal ==
    /\ ReloadFrame
    /\ diff.at = "add"
    /\ \E n \in diff.todo :
         /\ AddService(n, Native)
         /\ diff' = [diff EXCEPT !.todo = @ \ {n}]
    /\ UNCHANGED <<external, reloads, reloadMu, refused, excused>>

(* An addition that is refused is logged and passed over. *)
ReloadAdd ==
    /\ ReloadFrame
    /\ diff.at = "add"
    /\ \E n \in diff.todo :
         /\ IF n \in external THEN UNCHANGED <<directory, refused>>
            ELSE /\ AddService(n, Native)
                 /\ refused' = refused \cup (IF PortTaken(n) THEN {n} ELSE {})
         /\ diff' = [diff EXCEPT !.todo = @ \ {n}]
    /\ UNCHANGED <<external, reloads, reloadMu, excused>>

(* Mutant: the modification time is recorded after the reload. *)
ReloadUnlockLateStat ==
    /\ reloadMu # None
    /\ diff.at = "add" /\ diff.todo = {}
    /\ reloadMu' = None
    /\ diff' = NoDiff
    /\ seen' = version
    /\ reloads' = [reloads EXCEPT ![reloadMu] = IdleReload]
    /\ disturbed' = FALSE
    /\ UNCHANGED <<directory, external, owned, file, version, watch, persists, release,
                   events, written, refused, excused>>

ReloadUnlock ==
    /\ reloadMu # None
    /\ diff.at = "add" /\ diff.todo = {}
    /\ reloadMu' = None
    /\ diff' = NoDiff
    /\ reloads' = [reloads EXCEPT ![reloadMu] = IdleReload]
    /\ disturbed' = FALSE
    /\ UNCHANGED <<directory, external, owned, file, version, watcher, persists, release,
                   events, written, refused, excused>>

-----------------------------------------------------------------------------
Disturb == disturbed' = (reloadMu # None)

(* Requests.  A persisting one loads the file, edits and saves it after    *)
(* the manager has accepted the change, holding no lock.                   *)

RequestFrame ==
    /\ Event
    /\ Disturb
    /\ UNCHANGED <<external, owned, file, version, watcher, reloads, reloadMu, diff,
                   refused>>

BeginPersist(c, op, n, accepted, persist) ==
    LET others == {d \in Client \ {c} : persists[d].at # "idle"}
        imposed == IF op = "add" THEN Imposes(n) ELSE {}
    IN  /\ persists[c].at = "idle"
        /\ IF accepted /\ persist /\ file # NoFile
           THEN /\ persists' = [persists EXCEPT
                      ![c] = [at |-> "load", op |-> op, name |-> n, cfg |-> {}]]
                /\ ledger' = IF ledger = Broken THEN Broken
                             ELSE IF op = "add" THEN ledger \cup {n} ELSE ledger \ {n}
                /\ unsaved' = IF others = {} THEN unsaved
                              ELSE unsaved \cup {n} \cup {persists[d].name : d \in others}
                /\ excused' = excused \cup imposed
           ELSE /\ excused' = excused \cup imposed \cup
                     (IF op = "remove" /\ ~persist THEN {"kept"} ELSE {})
                /\ UNCHANGED <<persists, written>>

RpcAdd(c, n, persist) ==
    /\ RequestFrame
    /\ AddService(n, Native)
    /\ BeginPersist(c, "add", n, CanAdd(n), persist)
    /\ UNCHANGED <<release>>

(* Removal of a service, or of one child of a multi-port service, which no *)
(* file lists.                                                             *)
RpcRemove(c, n, persist) ==
    /\ RequestFrame
    /\ RemoveService(n)
    /\ BeginPersist(c, "remove", n, ~RemoveFails(n), persist)
    /\ UNCHANGED <<release>>

RpcRemoveChild(n) ==
    /\ RequestFrame
    /\ n \in Registered
    /\ RemoveService(n)
    /\ excused' = excused \cup LosesChild(n)
    /\ UNCHANGED <<persists, written, release>>

(* What is written before the watcher's first look at the file is not read *)
(* until the next reload.                                                  *)
Unseen == IF watch = "starting" THEN {"unwatched"} ELSE {}

(* Mutant: a removal is not written to the file. *)
PersistLoadAddsOnly(c) ==
    /\ persists[c].at = "load"
    /\ LET p == persists[c]
       IN  persists' = [persists EXCEPT ![c] =
             IF file # Broken /\ p.op = "add" /\ p.name \notin file
             THEN [p EXCEPT !.at = "save", !.cfg = file \cup {p.name}]
             ELSE IdlePersist]
    /\ UNCHANGED <<directory, external, owned, file, version, watcher, reloads, reloadMu,
                   diff, release, events, history>>

(* LoadForEdit and the edit; if either fails nothing is saved. *)
PersistLoad(c) ==
    /\ persists[c].at = "load"
    /\ LET p == persists[c]
           edited == IF p.op = "add" THEN file \cup {p.name} ELSE file \ {p.name}
       IN  IF file = Broken
           THEN /\ persists' = [persists EXCEPT ![c] = IdlePersist]
                /\ unsaved' = unsaved \cup {p.name}
           ELSE /\ persists' = [persists EXCEPT ![c] =
                      IF edited # file THEN [p EXCEPT !.at = "save", !.cfg = edited]
                      ELSE IdlePersist]
                /\ UNCHANGED unsaved
    /\ UNCHANGED <<directory, external, owned, file, version, watcher, reloads, reloadMu,
                   diff, release, events, disturbed, ledger, refused, excused>>

PersistSave(c) ==
    /\ persists[c].at = "save"
    /\ file' = persists[c].cfg
    /\ version' = version + 1
    /\ persists' = [persists EXCEPT ![c] = IdlePersist]
    /\ excused' = excused \cup Unseen
    /\ UNCHANGED <<directory, external, owned, watcher, reloads, reloadMu, diff,
                   release, events, disturbed, written, refused>>

(* Save may fail before it writes or, with the file truncated, when it     *)
(* does.  The request is answered with success all the same.               *)
PersistSaveFails(c) ==
    /\ persists[c].at = "save"
    /\ Event
    /\ \/ /\ unsaved' = unsaved \cup {persists[c].name}
          /\ excused' = excused \cup (IF persists[c].op = "remove" THEN {"kept"} ELSE {})
          /\ UNCHANGED <<file, version>>
       \/ /\ file' \in {{}, Broken}
          /\ version' = version + 1
          /\ unsaved' = Top
          /\ excused' = excused \cup Unseen
    /\ persists' = [persists EXCEPT ![c] = IdlePersist]
    /\ UNCHANGED <<directory, external, owned, watcher, reloads, reloadMu, diff,
                   release, disturbed, ledger, refused>>

(* One turn of the loop of an Apply request, each an AddService of its     *)
(* own.  What is already running is skipped, and so is a multi-port        *)
(* service, which arrives without its ports and is invalid.                *)
Apply(n) ==
    /\ RequestFrame
    /\ IF n \in Multi THEN UNCHANGED <<directory, excused>>
       ELSE AddService(n, Native) /\ excused' = excused \cup Imposes(n)
    /\ UNCHANGED <<persists, release, written>>

-----------------------------------------------------------------------------
(* A delegate hands services over and, when it stops, releases them. *)

HandOver(n) ==
    /\ RequestFrame
    /\ release.at = "active"
    /\ AddService(n, Delegate)
    /\ excused' = excused \cup Imposes(n)
    /\ UNCHANGED <<persists, release, written>>

TopOf(n) ==
    IF \E m \in Parents : n \in children[m]
    THEN CHOOSE m \in Parents : n \in children[m] ELSE n

(* What the source of the registered forwards does not lead to: a service  *)
(* that is still being resolved, and one whose resolution has failed.      *)
Untraceable == {x[1] : x \in {y \in resolving : y[2] = Delegate}} \cup
               {m \in Multi : forwards[m] = Untraced}

(* Mutant: a child is not traced to the parent it belongs to. *)
ReleaseBySourceSingleOnly ==
    /\ Event
    /\ release.at = "active"
    /\ release' = [at |-> "releasing", todo |-> {n \in Top : forwards[n] = Delegate},
                   missed |-> Untraceable]
    /\ UNCHANGED <<directory, external, owned, file, version, watcher, reloads, reloadMu,
                   diff, persists, history>>

ReleaseBySource ==
    /\ Event
    /\ release.at = "active"
    /\ release' = [at |-> "releasing",
                   todo |-> {TopOf(n) : n \in {x \in Name : forwards[x] = Delegate}},
                   missed |-> Untraceable]
    /\ UNCHANGED <<directory, external, owned, file, version, watcher, reloads, reloadMu,
                   diff, persists, history>>

ReleaseNext ==
    /\ release.at = "releasing"
    /\ Disturb
    /\ IF release.todo = {}
       THEN /\ release' = [release EXCEPT !.at = "gone"]
            /\ UNCHANGED <<directory, excused>>
       ELSE \E n \in release.todo :
              /\ RemoveService(n)
              /\ release' = [release EXCEPT !.todo = @ \ {n}]
              /\ excused' = excused \cup
                   (IF file \notin {NoFile, Broken} /\ n \in file THEN {"released"} ELSE {})
    /\ UNCHANGED <<external, owned, file, version, watcher, reloads, reloadMu, diff,
                   persists, events, written, refused>>

-----------------------------------------------------------------------------
(* The user writes the file; other instances take and give up services.    *)

(* A persist that has loaded the file before will save over the edit, one  *)
(* that loads it afterwards adds its own to it.  A file without services   *)
(* fares as a broken one and comes about otherwise.                        *)
EditFile ==
    /\ file # NoFile
    /\ Event
    /\ file' \in {Broken} \cup (Contents \ {{}})
    /\ version' = version + 1
    /\ ledger' = file'
    /\ unsaved' = IF \E c \in Client : persists[c].at = "save" THEN Top
                  ELSE {persists[c].name : c \in {d \in Client : persists[d].at = "load"}}
    /\ excused' = excused \cup Unseen
    /\ UNCHANGED <<directory, external, owned, watcher, reloads, reloadMu, diff, persists,
                   release, disturbed, refused>>

OthersChange ==
    /\ Event
    /\ owned' \in SUBSET Top
    /\ UNCHANGED <<directory, external, file, version, watcher, reloads, reloadMu, diff,
                   persists, release, history>>

ReloadStep ==
    \/ ReloadRemove \/ ReloadSnapshot \/ ReloadRunning \/ ReloadReadd
    \/ ReaddRemove \/ ReaddAdd \/ ReloadForget \/ ReloadAdd \/ ReloadUnlock

Next ==
    \/ Resolve
    \/ WatchStart \/ WatchTick \/ ReloadLoad \/ ReloadRequest
    \/ \E r \in Reloader : ReloadLock(r)
    \/ ReloadStep
    \/ \E c \in Client :
         \/ \E n \in Top, p \in BOOLEAN : RpcAdd(c, n, p) \/ RpcRemove(c, n, p)
         \/ PersistLoad(c) \/ PersistSave(c) \/ PersistSaveFails(c)
    \/ \E n \in Child : RpcRemoveChild(n)
    \/ \E n \in Top : Apply(n) \/ HandOver(n)
    \/ ReleaseBySource \/ ReleaseNext
    \/ EditFile \/ OthersChange

Spec == Init /\ [][Next]_vars

(* The watcher's ticker keeps ticking, a mutex that is released again and  *)
(* again is granted, and what holds it or persists an edit runs on.        *)
FairSpec ==
    /\ Spec
    /\ WF_vars(WatchStart \/ WatchTick \/ ReloadLoad) /\ WF_vars(ReloadStep)
    /\ \A r \in Reloader : SF_vars(ReloadLock(r))
    /\ \A c \in Client : WF_vars(PersistLoad(c) \/ PersistSave(c) \/ PersistSaveFails(c))

-----------------------------------------------------------------------------
(* Manager.Reload: a reload during which no other request took effect ends *)
(* with the services of the config it loaded that no other instance owns - *)
(* whatever the snapshots said, whatever was being resolved, and with the  *)
(* multi-port services resolved anew - but for one whose local port        *)
(* another forward has, and unless a child of a multi-port service had     *)
(* been removed on its own.  It serves nothing else, except that a request *)
(* may have added a service known to be another instance's:                *)
(* SetExternalForwards returns only what has just become external, so that *)
(* one is not stopped as long as it stays external.                        *)
ReloadConverges ==
    [][(/\ reloadMu # None /\ reloadMu' = None
        /\ ~disturbed /\ "child" \notin excused)
       => /\ \A n \in Cfg \ external : n \in Served \/ PortTaken(n)
          /\ Served \subseteq Cfg
          /\ "imposed" \in excused \/ Served \cap external = {}]_vars

(* watchConfigFile and reloadConfig: the services of the file that are not *)
(* found to be another instance's, and were not refused their port by the  *)
(* start or the last reload, are in the end served for good, however       *)
(* edits, requests, persists and reloads were interleaved before they came *)
(* to an end (at MaxEvents) - unless the file is not watched, or nothing   *)
(* has read it since it was written to before the watcher's first look at  *)
(* it; a child was removed on its own (its parent's re-addition is         *)
(* skipped); the file keeps a service that was removed; a delegate that    *)
(* had contributed it released it; or an older config was applied last.    *)
FileEventuallyServed ==
    <>[](/\ Valid(file) /\ watch = "on"
         /\ excused \cap {"unwatched", "child", "kept", "released", "order"} = {})
    => <>[](Valid(file) => file \ (external \cup refused) \subseteq Served)

(* The persist of AddService and RemoveService: when nobody writes to it,  *)
(* the file says of every service what the user's last edit and the        *)
(* accepted requests since have made of it.  It may say something else of  *)
(* a service only if the save of it failed or overlapped another persist,  *)
(* and of all of them only if a save left the file truncated or went over  *)
(* an edit of the user's - whatever happened to other services, and        *)
(* however many requests followed.                                         *)
FileIsLedger ==
    (\A c \in Client : persists[c].at = "idle") =>
        IF {file, ledger} \cap {Broken, NoFile} # {}
        THEN file = ledger \/ unsaved = Top
        ELSE \A n \in Top \ unsaved : n \in file <=> n \in ledger

(* ReleaseBySource: when the delegate has gone, no forward it contributed, *)
(* nor the entry of one that failed, is or comes back in the directory,    *)
(* but for the services that were still being resolved or had failed to be *)
(* when it released: those it does not find.                               *)
DelegateLeavesNothing ==
    release.at = "gone" =>
        \A n \in Name : forwards[n] \in {Delegate, Untraced} =>
            \E m \in release.missed : n \in ChildrenOf[m] \cup {m}
=============================================================================
