----------------------------- MODULE ReloadProofs -----------------------------
(* What Reload promises of the file, of a delegate's services and of the   *)
(* outcome of a reload, proved for any services, clients and event bound.  *)
EXTENDS Reload, TLAPS

(* Removing a service also removes its children.                           *)
Removes(n) == IF Parent(n) THEN children[n] \cup {n} ELSE {n}

File == Contents \cup {Broken, NoFile}

(* What a name of the directory may stand for.                             *)
Entry == {None, Native, Delegate, Untraced}

DirectoryOK ==
    /\ forwards \in [Name -> Entry]
    /\ children \in [Multi -> {None} \cup SUBSET Child]
    /\ resolving \subseteq Multi \X Source

ControlOK ==
    /\ external \subseteq Top /\ owned \subseteq Top
    /\ file \in File
    /\ version \in Nat
    /\ reloads \in [Reloader -> [at : {"idle", "load", "loaded"},
                                 cfg : Contents, version : Nat]]
    /\ reloadMu \in Reloader \cup {None}
    /\ diff \in [at : Phase \cup Multi, running : SUBSET Name,
                 parents : SUBSET Multi, todo : SUBSET Name]
    /\ persists \in [Client -> [at : {"idle", "load", "save"}, op : {"add", "remove"},
                                name : Top \cup {None}, cfg : Contents]]
    /\ \A c \in Client : persists[c].at # "idle" => persists[c].name \in Top
    /\ release \in [at : {"active", "releasing", "gone"}, todo : SUBSET Top,
                    missed : SUBSET Multi]
    /\ ledger \in File /\ unsaved \subseteq Top

TypeOK == DirectoryOK /\ ControlOK

(* A daemon without a config file neither reloads nor persists.            *)
FileNeeded ==
    file = NoFile => /\ watch = "off"
                     /\ \A r \in Reloader : reloads[r].at = "idle"
                     /\ \A c \in Client : persists[c].at = "idle"

(* The directory: a parent lists all its children or, until it is resolved,*)
(* none; an entry under a multi-port service's own name shows that its     *)
(* resolution failed; every child is reachable through its parent.         *)
DirInv ==
    /\ \A m \in Multi : children[m] \in {None, {}, ChildrenOf[m]}
    /\ \A m \in Multi : m \in Registered => Parent(m)
    /\ \A n \in Child : n \in Registered => \E m \in Parents : n \in children[m]

(* The reload that holds the mutex keeps the config it has loaded.         *)
MutexInv ==
    IF reloadMu = None THEN diff.at = "none"
    ELSE reloads[reloadMu].at = "loaded" /\ diff.at # "none"

(* A reload adds what its config lists, and what it adds again was served  *)
(* when it took its snapshots.                                             *)
ReaddInv ==
    /\ diff.at = "readd" => diff.todo \subseteq Cfg \cap diff.parents
    /\ diff.at = "add" => diff.todo \subseteq Cfg
    /\ diff.at \in Multi => diff.at \in Cfg \cap diff.parents
                            /\ diff.todo \subseteq Cfg \cap diff.parents

StateInv == TypeOK /\ FileNeeded /\ DirInv /\ MutexInv /\ ReaddInv

(* Unless one was removed on its own, all the children a parent lists are  *)
(* registered: its removal reports no error.                               *)
ChildrenListed ==
    "child" \notin excused => \A m \in Parents : children[m] \subseteq Registered

(* A client whose edit of the file is not over yet.                        *)
Pending == {c \in Client : persists[c].at # "idle"}

(* Of a service that is not known to be unsaved the file says what the     *)
(* ledger says, or the one pending persist is about it; a persist that has *)
(* loaded the file will leave the ledger in it, and one that has not is    *)
(* about what the ledger says of its service.                              *)
BrokenInv ==
    /\ file = NoFile <=> ledger = NoFile
    /\ ~(file = Broken <=> ledger = Broken) => unsaved = Top

AloneInv ==
    \A c, d \in Pending : c # d => {persists[c].name, persists[d].name} \subseteq unsaved

LoadedInv ==
    \A c \in Client : persists[c].at = "save" =>
        IF ledger = Broken THEN unsaved = Top
        ELSE \A x \in Top \ unsaved : x \in persists[c].cfg <=> x \in ledger

SavedInv ==
    {file, ledger} \cap {Broken, NoFile} = {} =>
        \A x \in Top \ unsaved : \/ x \in file <=> x \in ledger
                                 \/ \E c \in Pending : persists[c].name = x

MeantInv ==
    ledger # Broken => \A c \in Pending :
        \/ persists[c].name \in unsaved
        \/ persists[c].name \in ledger <=> persists[c].op = "add"

PersistInv == BrokenInv /\ AloneInv /\ LoadedInv /\ SavedInv /\ MeantInv

(* Once the release has begun, what the delegate contributed is removed    *)
(* with what is left, or belongs to what the release has not found.        *)
Covered(n) == \/ \E t \in release.todo : n \in Removes(t)
              \/ \E m \in release.missed : n \in ChildrenOf[m]

ReleaseInv ==
    release.at # "active" =>
        /\ \A x \in resolving : x[2] = Delegate => x[1] \in release.missed
        /\ \A n \in Name : forwards[n] = Untraced => n \in release.missed
        /\ \A n \in Name : forwards[n] = Delegate => Covered(n)
        /\ release.at = "gone" => release.todo = {}

(* Only the entry of a failed resolution is untraced.                      *)
UntracedInv == \A n \in Name : forwards[n] = Untraced => n \in Multi

(* The services the snapshots of a reload show.                            *)
Snapshot == (diff.running \cap Top) \cup diff.parents

(* How far an undisturbed reload has got.                                  *)
ProgressInv ==
    reloadMu # None /\ ~disturbed /\ "child" \notin excused =>
        /\ diff.at \in {"parents", "running"} =>
              /\ Served \subseteq Snapshot
              /\ Snapshot \cap Cfg \subseteq Served
              /\ diff.todo \cap Cfg = {}
        /\ diff.at = "parents" => (Served \cap Multi) \ Cfg \subseteq diff.todo
        /\ diff.at = "running" => Served \ Cfg \subseteq diff.todo
        /\ diff.at = "readd" => Served = Snapshot \cap Cfg
        /\ diff.at \in Multi => Served = (Snapshot \cap Cfg) \ {diff.at}
        /\ diff.at = "add" => /\ Served \subseteq Cfg
                              /\ \A n \in Cfg \ external :
                                    n \in Served \cup diff.todo \/ PortTaken(n)

(* As long as no request adds one, a service known to be another instance's*)
(* is served only until the reload that found out has removed it.          *)
ExternalInv ==
    "imposed" \notin excused =>
        /\ Served \cap external \subseteq (IF diff.at = "newly" THEN diff.todo ELSE {})
        /\ diff.at \notin {"none", "newly"} => diff.parents \cap external = {}

IInv == /\ StateInv /\ ChildrenListed /\ PersistInv /\ UntracedInv /\ ReleaseInv
        /\ ProgressInv /\ ExternalInv

-----------------------------------------------------------------------------
(* What the directory's operations do, in terms of the services they serve.*)

(* A reload under way holds the mutex and has loaded a config.             *)
LEMMA CfgFacts ==
  ASSUME StateInv, diff.at # "none"
  PROVE  reloadMu \in Reloader /\ reloadMu # None /\ Cfg \subseteq Top
         /\ reloads[reloadMu].at = "loaded"
<1>1. reloadMu # None /\ reloadMu \in Reloader /\ reloads[reloadMu].at = "loaded"
  BY DEF StateInv, MutexInv, TypeOK, ControlOK
<1>2. reloads[reloadMu].cfg \in Contents
  BY <1>1 DEF StateInv, TypeOK, ControlOK
<1>. QED
  BY <1>1, <1>2 DEF Cfg, Contents

(* A parent's children are among those it resolves to.                     *)
LEMMA ChildrenFacts ==
  ASSUME StateInv, NEW m \in Multi, Parent(m)
  PROVE  children[m] \subseteq ChildrenOf[m] /\ children[m] \subseteq Child
BY MultiAssumption DEF StateInv, TypeOK, DirectoryOK, DirInv, Parent, Child

(* ReleaseBySource traces what a delegate contributed to the service whose *)
(* removal removes it.                                                     *)
LEMMA TopOfFacts ==
  ASSUME StateInv, NEW n \in Name, n \in Registered
  PROVE  TopOf(n) \in Top /\ n \in Removes(TopOf(n))
<1>1. CASE \E m \in Parents : n \in children[m]
  <2>1. TopOf(n) \in Parents /\ n \in children[TopOf(n)]
    BY <1>1 DEF TopOf
  <2>. QED
    BY <2>1, MultiAssumption DEF Parents, Removes
<1>2. CASE ~\E m \in Parents : n \in children[m]
  <2>1. TopOf(n) = n
    BY <1>2 DEF TopOf
  <2>2. n \in Top
    BY <1>2 DEF StateInv, DirInv, Name
  <2>. QED
    BY <2>1, <2>2 DEF Removes
<1>. QED
  BY <1>1, <1>2

(* What an entry may hold.                                                 *)
LEMMA EntryFacts ==
  Source \subseteq Entry /\ None \in Entry /\ Untraced \in Entry
  /\ None \notin Source /\ Untraced # None /\ Untraced \notin Source
BY ValueAssumption DEF Source, Entry

(* A port stays taken as long as no forward goes.                          *)
LEMMA TakenStays ==
  ASSUME NEW n, PortTaken(n), Registered \subseteq Registered'
  PROVE  PortTaken(n)'
BY DEF PortTaken

(* AddService: a free name becomes a service unless its port is taken, any *)
(* other call does nothing.                                                *)
LEMMA AddFacts ==
  ASSUME StateInv, NEW n \in Top, NEW s \in Source, AddService(n, s)
  PROVE  /\ Served \subseteq Served' /\ Served' \subseteq Served \cup {n}
         /\ n \in Served' \/ PortTaken(n)
         /\ n \in Multi => n \in Served'
         /\ Parents' = Parents \cup ({n} \cap Multi)
         /\ Registered \subseteq Registered' /\ Registered' \subseteq Registered \cup {n}
         /\ \A m \in Parents : children'[m] = children[m]
         /\ \A m \in Parents' : m \notin Parents => children'[m] = {}
         /\ forwards' \in [Name -> Entry]
         /\ children' \in [Multi -> {None} \cup SUBSET Child]
         /\ resolving' \subseteq Multi \X Source
<1>1. n \in Name /\ Top \subseteq Name
  BY DEF Name
<1>2. CASE ~CanAdd(n)
  <2>1. UNCHANGED directory
    BY <1>2 DEF AddService
  <2>2. n \in Multi => ~PortTaken(n)
    BY MultiAssumption DEF PortTaken
  <2>3. n \in Served \/ PortTaken(n)
    BY <1>2 DEF CanAdd, Served
  <2>4. n \in Multi => n \in Parents /\ n \in Served
    BY <1>2, <2>2 DEF CanAdd, Served, StateInv, DirInv, Parents, Parent
  <2>5. Served' = Served /\ Parents' = Parents /\ Registered' = Registered
        /\ children' = children /\ forwards' = forwards /\ resolving' = resolving
    BY <2>1 DEF directory, Served, Registered, Parents, Parent
  <2>. QED
    BY <2>3, <2>4, <2>5 DEF StateInv, TypeOK, DirectoryOK
<1>3. CASE CanAdd(n) /\ n \in Multi
  <2>1. /\ children' = [children EXCEPT ![n] = {}]
        /\ resolving' = resolving \cup {<<n, s>>}
        /\ forwards' = forwards
    BY <1>3 DEF AddService
  <2>2. \A m \in Multi : children'[m] = IF m = n THEN {} ELSE children[m]
    BY <2>1 DEF StateInv, TypeOK, DirectoryOK
  <2>3. {} # None
    BY ValueAssumption
  <2>4. \A m : Parent(m)' <=> (Parent(m) \/ m = n)
    BY <1>3, <2>2, <2>3 DEF Parent
  <2>5. Parents' = Parents \cup {n} /\ Registered' = Registered
    BY <2>1, <2>4, <1>3 DEF Parents, Registered
  <2>6. Served' = Served \cup {n}
    BY <2>4, <2>5 DEF Served
  <2>7. n \notin Parents
    BY <1>3 DEF CanAdd, Parents
  <2>8. children' \in [Multi -> {None} \cup SUBSET Child]
    BY <2>1 DEF StateInv, TypeOK, DirectoryOK
  <2>9. resolving' \subseteq Multi \X Source
    BY <2>1, <1>3 DEF StateInv, TypeOK, DirectoryOK
  <2>10. forwards' \in [Name -> Entry]
    BY <2>1 DEF StateInv, TypeOK, DirectoryOK
  <2>11. \A m \in Parents : children'[m] = children[m]
    BY <2>2, <2>7 DEF Parents
  <2>12. \A m \in Parents' : m \notin Parents => children'[m] = {}
    BY <2>2, <2>5, <1>3
  <2>. QED
    BY <2>5, <2>6, <2>8, <2>9, <2>10, <2>11, <2>12, <1>3
<1>4. CASE CanAdd(n) /\ n \notin Multi
  <2>1. /\ forwards' = [forwards EXCEPT ![n] = s]
        /\ children' = children /\ resolving' = resolving
    BY <1>4 DEF AddService
  <2>2. s # None /\ s \in Entry
    BY EntryFacts
  <2>3. Registered' = Registered \cup {n}
    BY <2>1, <2>2, <1>1 DEF Registered, StateInv, TypeOK, DirectoryOK
  <2>4. Parents' = Parents
    BY <2>1 DEF Parents, Parent
  <2>5. Served' = Served \cup {n}
    BY <2>1, <2>3 DEF Served, Parent
  <2>6. forwards' \in [Name -> Entry]
    BY <2>1, <2>2, <1>1 DEF StateInv, TypeOK, DirectoryOK
  <2>. QED
    BY <2>1, <2>3, <2>4, <2>5, <2>6, <1>4 DEF StateInv, TypeOK, DirectoryOK
<1>. QED
  BY <1>2, <1>3, <1>4

(* RemoveService: the service is gone with its children, all else is kept. *)
LEMMA RemoveFacts ==
  ASSUME StateInv, NEW n \in Name, RemoveService(n)
  PROVE  /\ Served' = Served \ {n}
         /\ Parents' = Parents \ {n}
         /\ Registered' = Registered \ Removes(n)
         /\ \A m \in Parents' : children'[m] = children[m]
         /\ \A x \in Name : forwards'[x] = IF x \in Removes(n) THEN None ELSE forwards[x]
         /\ forwards' \in [Name -> Entry]
         /\ children' \in [Multi -> {None} \cup SUBSET Child]
         /\ resolving' = resolving
<1>1. /\ forwards' = [x \in Name |-> IF x \in Removes(n) THEN None ELSE forwards[x]]
      /\ children' = [m \in Multi |-> IF m = n THEN None ELSE children[m]]
      /\ resolving' = resolving
  BY DEF RemoveService, Removes
<1>2. \A m : Parent(m)' <=> (Parent(m) /\ m # n)
  BY <1>1 DEF Parent
<1>3. Parents' = Parents \ {n}
  BY <1>2 DEF Parents
<1>4. Registered' = Registered \ Removes(n)
  BY <1>1 DEF Registered
<1>5. Removes(n) \cap Top = {n} \cap Top
  <2>1. CASE Parent(n)
    <3>1. n \in Multi
      BY <2>1 DEF Parent
    <3>2. children[n] \subseteq Child
      BY <2>1, <3>1, ChildrenFacts
    <3>. QED
      BY <2>1, <3>2, MultiAssumption DEF Removes
  <2>2. CASE ~Parent(n)
    BY <2>2 DEF Removes
  <2>. QED
    BY <2>1, <2>2
<1>6. Served' = Served \ {n}
  BY <1>2, <1>4, <1>5 DEF Served
<1>7. forwards' \in [Name -> Entry]
  BY <1>1, EntryFacts DEF StateInv, TypeOK, DirectoryOK
<1>8. children' \in [Multi -> {None} \cup SUBSET Child]
  BY <1>1 DEF StateInv, TypeOK, DirectoryOK
<1>9. \A m \in Parents' : children'[m] = children[m]
  BY <1>1, <1>3 DEF Parents
<1>. QED
  BY <1>1, <1>3, <1>4, <1>6, <1>7, <1>8, <1>9

(* A resolution that ends: no service comes or goes.                       *)
LEMMA ResolveFacts ==
  ASSUME StateInv, NEW m \in Multi, NEW s \in Source,
         ResolveSucceeds(m, s) \/ ResolveFails(m, s)
  PROVE  /\ Served' = Served
         /\ Parents' = Parents
         /\ Registered \subseteq Registered'
         /\ Registered' \subseteq Registered \cup
                (IF m \in Parents THEN {m} \cup children'[m] ELSE {})
         /\ \A x \in Parents : children'[x] = children[x]
                               \/ (/\ children'[x] = ChildrenOf[x]
                                   /\ ChildrenOf[x] \subseteq Registered')
         /\ forwards' \in [Name -> Entry]
         /\ children' \in [Multi -> {None} \cup SUBSET Child]
         /\ resolving' \subseteq resolving
<1>1. ChildrenOf[m] \subseteq Child /\ Child \subseteq Name /\ m \in Name /\ m \in Top
  BY MultiAssumption DEF Child, Name
<1>2. s \in Entry /\ s # None /\ Native # None /\ Untraced # None
      /\ Native \in Entry /\ Untraced \in Entry
  BY EntryFacts DEF Source
<1>3. resolving' \subseteq resolving
  BY DEF ResolveSucceeds, ResolveFails
<1>4. CASE UNCHANGED <<forwards, children>>
  <2>1. Registered' = Registered /\ Parents' = Parents /\ Served' = Served
    BY <1>4 DEF Served, Registered, Parents, Parent
  <2>2. /\ forwards' \in [Name -> Entry]
        /\ children' \in [Multi -> {None} \cup SUBSET Child]
    BY <1>4 DEF StateInv, TypeOK, DirectoryOK
  <2>3. \A x \in Parents : children'[x] = children[x]
    BY <1>4
  <2>. QED
    BY <2>1, <2>2, <2>3, <1>3
<1>5. CASE ResolveSucceeds(m, s) /\ Parent(m)
  <2>1. /\ forwards' = [n \in Name |->
                 IF n \in ChildrenOf[m] \ Registered THEN s ELSE forwards[n]]
        /\ children' = [children EXCEPT ![m] = ChildrenOf[m]]
    BY <1>5 DEF ResolveSucceeds
  <2>2. \A x \in Multi : children'[x] = IF x = m THEN ChildrenOf[m] ELSE children[x]
    BY <2>1 DEF StateInv, TypeOK, DirectoryOK
  <2>3. ChildrenOf[m] # None
    BY <1>1, ValueAssumption
  <2>4. \A x : Parent(x)' <=> Parent(x)
    BY <2>2, <2>3, <1>5 DEF Parent
  <2>5. Registered' = Registered \cup ChildrenOf[m]
    BY <2>1, <1>1, <1>2 DEF Registered
  <2>6. Parents' = Parents /\ m \in Parents
    BY <2>4, <1>5 DEF Parents
  <2>7. Served' = Served
    BY <2>4, <2>5, <1>1, MultiAssumption DEF Served
  <2>8. forwards' \in [Name -> Entry]
    BY <2>1, <1>2 DEF StateInv, TypeOK, DirectoryOK
  <2>9. children' \in [Multi -> {None} \cup SUBSET Child]
    BY <2>1, <1>1 DEF StateInv, TypeOK, DirectoryOK
  <2>10. \A x \in Parents : x \in Multi
    BY DEF Parents
  <2>11. Registered' \subseteq Registered \cup
                (IF m \in Parents THEN {m} \cup children'[m] ELSE {})
    BY <2>2, <2>5, <2>6
  <2>12. \A x \in Parents : children'[x] = children[x]
                             \/ (/\ children'[x] = ChildrenOf[x]
                                 /\ ChildrenOf[x] \subseteq Registered')
    BY <2>2, <2>5, <2>10
  <2>. QED
    BY <2>5, <2>6, <2>7, <2>8, <2>9, <2>11, <2>12, <1>3
<1>6. CASE ResolveFails(m, s) /\ Parent(m) /\ m \notin Registered
  <2>1. PICK v \in {Native, Untraced} :
          forwards' = [forwards EXCEPT ![m] = v] /\ children' = children
    BY <1>6 DEF ResolveFails
  <2>2. Registered' = Registered \cup {m}
    BY <2>1, <1>1, <1>2 DEF Registered, StateInv, TypeOK, DirectoryOK
  <2>3. Parents' = Parents /\ m \in Parents /\ \A x : Parent(x)' <=> Parent(x)
    BY <2>1, <1>6 DEF Parents, Parent
  <2>4. Served' = Served
    BY <2>2, <2>3, <1>6 DEF Served
  <2>5. forwards' \in [Name -> Entry]
    BY <2>1, <1>1, <1>2 DEF StateInv, TypeOK, DirectoryOK
  <2>6. children' \in [Multi -> {None} \cup SUBSET Child]
    BY <2>1 DEF StateInv, TypeOK, DirectoryOK
  <2>7. \A x \in Parents : children'[x] = children[x]
    BY <2>1
  <2>8. Registered' \subseteq Registered \cup
                (IF m \in Parents THEN {m} \cup children'[m] ELSE {})
    BY <2>2, <2>3
  <2>. QED
    BY <2>2, <2>3, <2>4, <2>5, <2>6, <2>7, <2>8, <1>3
<1>. QED
  BY <1>4, <1>5, <1>6 DEF ResolveSucceeds, ResolveFails

-----------------------------------------------------------------------------
(* StateInv is inductive.                                                  *)

(* What has happened is not forgotten, but for what another load of the    *)
(* file makes good.                                                        *)
LEMMA ExcusedGrows ==
  ASSUME Next
  PROVE  excused \ {"unwatched"} \subseteq excused'
<1>1. CASE \/ Resolve \/ WatchStart \/ WatchTick \/ ReloadLoad \/ ReloadRequest
           \/ \E r \in Reloader : ReloadLock(r)
           \/ ReloadStep
  BY <1>1 DEF Resolve, WatchStart, WatchTick, ReloadRequest, ReloadLoad, Load, ReloadLock,
       ReloadStep, ReloadRemove, ReloadSnapshot, ReloadRunning, ReloadReadd, ReaddRemove,
       ReaddAdd, ReloadForget, ReloadAdd, ReloadUnlock, history
<1>2. ASSUME NEW c \in Client, NEW n \in Top, NEW p \in BOOLEAN,
             RpcAdd(c, n, p) \/ RpcRemove(c, n, p)
      PROVE  excused \subseteq excused'
  BY <1>2 DEF RpcAdd, RpcRemove, BeginPersist
<1>3. ASSUME NEW c \in Client, PersistLoad(c) \/ PersistSave(c) \/ PersistSaveFails(c)
      PROVE  excused \subseteq excused'
  BY <1>3 DEF PersistLoad, PersistSave, PersistSaveFails
<1>4. CASE \/ \E n \in Child : RpcRemoveChild(n)
           \/ \E n \in Top : Apply(n) \/ HandOver(n)
           \/ ReleaseBySource \/ ReleaseNext
           \/ EditFile \/ OthersChange
  BY <1>4 DEF RpcRemoveChild, Apply, HandOver, ReleaseBySource, ReleaseNext, EditFile,
       OthersChange, history
<1>. QED
  BY <1>1, <1>2, <1>3, <1>4 DEF Next

(* The steps that change the directory: an addition, which the delegate    *)
(* makes only while it is active, a removal, which notes a child removed on*)
(* its own, and the end of a resolution.                                   *)
Adds == \E n \in Top, s \in Source :
            AddService(n, s) /\ (s = Delegate => release.at = "active")
Drops == \E n \in Name : RemoveService(n) /\ (n \in Top \/ LosesChild(n) \subseteq excused')
Resolves == \E m \in Multi, s \in Source :
                /\ <<m, s>> \in resolving
                /\ ResolveSucceeds(m, s) \/ ResolveFails(m, s)

LEMMA DirectorySteps ==
  ASSUME StateInv, Next
  PROVE  UNCHANGED directory \/ Adds \/ Drops \/ Resolves
<1>1. Native \in Source /\ Delegate \in Source /\ Top \subseteq Name /\ Child \subseteq Name
      /\ Multi \subseteq Top /\ Native # Delegate
  BY MultiAssumption, ValueAssumption DEF Source, Name
<1>2. CASE Resolve
  <2>1. PICK x \in resolving : ResolveSucceeds(x[1], x[2]) \/ ResolveFails(x[1], x[2])
    BY <1>2 DEF Resolve
  <2>2. x[1] \in Multi /\ x[2] \in Source /\ <<x[1], x[2]>> \in resolving
    BY DEF StateInv, TypeOK, DirectoryOK
  <2>. QED
    BY <2>1, <2>2 DEF Resolves
<1>3. CASE ReloadRemove
  <2>1. PICK n \in diff.todo : RemoveService(n) /\ excused' = excused \cup LosesChild(n)
    BY <1>3 DEF ReloadRemove
  <2>2. n \in Name
    BY DEF StateInv, TypeOK, ControlOK
  <2>. QED
    BY <2>1, <2>2 DEF Drops
<1>4. CASE ReaddRemove
  <2>1. PICK n \in diff.todo : RemoveService(n)
    BY <1>4 DEF ReaddRemove
  <2>2. n \in Multi
    BY <1>4 DEF ReaddRemove, StateInv, TypeOK, ControlOK, ReaddInv
  <2>. QED
    BY <1>1, <2>1, <2>2 DEF Drops
<1>5. CASE ReaddAdd
  <2>1. diff.at \in Multi /\ AddService(diff.at, Native)
    BY <1>5 DEF ReaddAdd
  <2>. QED
    BY <1>1, <2>1 DEF Adds
<1>6. CASE ReloadAdd
  <2>1. PICK n \in diff.todo : UNCHANGED directory \/ AddService(n, Native)
    BY <1>6 DEF ReloadAdd
  <2>2. diff.at = "add"
    BY <1>6 DEF ReloadAdd
  <2>3. n \in Top
    BY <2>2, CfgFacts DEF StateInv, ReaddInv
  <2>. QED
    BY <1>1, <2>1, <2>3 DEF Adds
<1>7. ASSUME NEW c \in Client, NEW n \in Top, NEW p \in BOOLEAN,
             RpcAdd(c, n, p) \/ RpcRemove(c, n, p)
      PROVE  Adds \/ Drops
  <2>1. AddService(n, Native) \/ RemoveService(n)
    BY <1>7 DEF RpcAdd, RpcRemove
  <2>. QED
    BY <1>1, <2>1 DEF Adds, Drops
<1>8. ASSUME NEW n \in Child, RpcRemoveChild(n)
      PROVE  Drops
  <2>1. RemoveService(n) /\ excused' = excused \cup LosesChild(n)
    BY <1>8 DEF RpcRemoveChild
  <2>. QED
    BY <1>1, <2>1 DEF Drops
<1>9. ASSUME NEW n \in Top, Apply(n)
      PROVE  UNCHANGED directory \/ Adds
  <2>1. UNCHANGED directory \/ AddService(n, Native)
    BY <1>9 DEF Apply
  <2>. QED
    BY <1>1, <2>1 DEF Adds
<1>10. ASSUME NEW n \in Top, HandOver(n)
       PROVE  Adds
  <2>1. AddService(n, Delegate) /\ release.at = "active"
    BY <1>10 DEF HandOver
  <2>. QED
    BY <1>1, <2>1 DEF Adds
<1>11. CASE ReleaseNext
  <2>1. UNCHANGED directory \/ \E n \in release.todo : RemoveService(n)
    BY <1>11 DEF ReleaseNext
  <2>2. release.todo \subseteq Top
    BY DEF StateInv, TypeOK, ControlOK
  <2>. QED
    BY <1>1, <2>1, <2>2 DEF Drops
<1>12. CASE \/ WatchStart \/ WatchTick \/ ReloadLoad \/ ReloadRequest
            \/ \E r \in Reloader : ReloadLock(r)
            \/ ReloadSnapshot \/ ReloadRunning \/ ReloadReadd \/ ReloadForget \/ ReloadUnlock
            \/ \E c \in Client : PersistLoad(c) \/ PersistSave(c) \/ PersistSaveFails(c)
            \/ ReleaseBySource \/ EditFile \/ OthersChange
  BY <1>12 DEF WatchStart, WatchTick, ReloadRequest, ReloadLoad, LoadFrame, ReloadLock,
       ReloadSnapshot, ReloadRunning, ReloadReadd, ReloadForget, ReloadUnlock, PersistLoad,
       PersistSave, PersistSaveFails, ReleaseBySource, EditFile, OthersChange
<1>. QED
  BY <1>2, <1>3, <1>4, <1>5, <1>6, <1>7, <1>8, <1>9, <1>10, <1>11, <1>12
     DEF Next, ReloadStep

(* The directory keeps its shape.                                          *)
LEMMA DirectoryNext ==
  ASSUME StateInv, Next
  PROVE  /\ forwards' \in [Name -> Entry]
         /\ children' \in [Multi -> {None} \cup SUBSET Child]
         /\ resolving' \subseteq Multi \X Source
         /\ DirInv'
<1>1. CASE UNCHANGED directory
  BY <1>1 DEF directory, StateInv, TypeOK, DirectoryOK, DirInv, Registered, Parents, Parent
<1>2. ASSUME NEW n \in Top, NEW s \in Source, AddService(n, s)
      PROVE  /\ forwards' \in [Name -> Entry]
             /\ children' \in [Multi -> {None} \cup SUBSET Child]
             /\ resolving' \subseteq Multi \X Source
             /\ DirInv'
  <2>1. /\ Parents' = Parents \cup ({n} \cap Multi)
        /\ Registered \subseteq Registered' /\ Registered' \subseteq Registered \cup {n}
        /\ \A m \in Parents : children'[m] = children[m]
        /\ \A m \in Parents' : m \notin Parents => children'[m] = {}
    BY <1>2, AddFacts
  <2>2. \A m \in Multi : children'[m] \in {None, {}, ChildrenOf[m]}
    BY <2>1 DEF StateInv, DirInv, Parents, Parent
  <2>3. \A m \in Multi : m \in Registered' => Parent(m)'
    BY <2>1 DEF StateInv, DirInv, Parents
  <2>4. \A x \in Child : x \in Registered' => \E m \in Parents' : x \in children'[m]
    BY <2>1, MultiAssumption DEF StateInv, DirInv
  <2>. QED
    BY <2>2, <2>3, <2>4, <1>2, AddFacts DEF DirInv
<1>3. ASSUME NEW n \in Name, RemoveService(n)
      PROVE  /\ forwards' \in [Name -> Entry]
             /\ children' \in [Multi -> {None} \cup SUBSET Child]
             /\ resolving' \subseteq Multi \X Source
             /\ DirInv'
  <2>1. /\ Parents' = Parents \ {n}
        /\ Registered' = Registered \ Removes(n)
        /\ \A m \in Parents' : children'[m] = children[m]
        /\ forwards' \in [Name -> Entry]
        /\ children' \in [Multi -> {None} \cup SUBSET Child]
        /\ resolving' = resolving
    BY <1>3, RemoveFacts
  <2>2. \A m \in Multi : children'[m] \in {None, {}, ChildrenOf[m]}
    BY <2>1 DEF StateInv, DirInv, Parents, Parent
  <2>3. \A m \in Multi : m \in Registered' => Parent(m)'
    BY <2>1 DEF StateInv, DirInv, Parents, Removes
  <2>4. \A x \in Child : x \in Registered' => \E m \in Parents' : x \in children'[m]
    <3>1. SUFFICES ASSUME NEW x \in Child, x \in Registered'
                   PROVE  \E m \in Parents' : x \in children'[m]
      OBVIOUS
    <3>2. PICK m \in Parents : x \in children[m]
      BY <2>1, <3>1 DEF StateInv, DirInv
    <3>3. m # n
      BY <2>1, <3>1, <3>2 DEF Removes, Parents
    <3>. QED
      BY <2>1, <3>2, <3>3
  <2>. QED
    BY <2>1, <2>2, <2>3, <2>4 DEF DirInv, StateInv, TypeOK, DirectoryOK
<1>4. ASSUME NEW m \in Multi, NEW s \in Source,
             ResolveSucceeds(m, s) \/ ResolveFails(m, s)
      PROVE  /\ forwards' \in [Name -> Entry]
             /\ children' \in [Multi -> {None} \cup SUBSET Child]
             /\ resolving' \subseteq Multi \X Source
             /\ DirInv'
  <2>1. /\ Parents' = Parents
        /\ Registered' \subseteq Registered \cup
               (IF m \in Parents THEN {m} \cup children'[m] ELSE {})
        /\ \A x \in Parents : children'[x] = children[x] \/ children'[x] = ChildrenOf[x]
        /\ forwards' \in [Name -> Entry]
        /\ children' \in [Multi -> {None} \cup SUBSET Child]
        /\ resolving' \subseteq resolving
    BY <1>4, ResolveFacts
  <2>2. \A x \in Multi : children'[x] \in {None, {}, ChildrenOf[x]}
    BY <2>1 DEF StateInv, DirInv, Parents, Parent
  <2>3. \A x \in Multi : x \in Registered' => Parent(x)'
    <3>1. SUFFICES ASSUME NEW x \in Multi, x \in Registered'
                   PROVE  x \in Parents
      BY <2>1 DEF Parents
    <3>2. CASE x \in Registered
      BY <3>2 DEF StateInv, DirInv, Parents
    <3>3. CASE x \notin Registered
      <4>1. m \in Parents /\ (x = m \/ x \in children'[m])
        BY <2>1, <3>1, <3>3
      <4>2. children'[m] \subseteq Child
        BY <2>1, <4>1 DEF Parents, Parent
      <4>. QED
        BY <4>1, <4>2, MultiAssumption
    <3>. QED
      BY <3>2, <3>3
  <2>4. \A x \in Child : x \in Registered' => \E y \in Parents' : x \in children'[y]
    <3>1. SUFFICES ASSUME NEW x \in Child, x \in Registered'
                   PROVE  \E y \in Parents' : x \in children'[y]
      OBVIOUS
    <3>2. CASE x \in Registered
      <4>1. PICK y \in Parents : x \in children[y]
        BY <3>2 DEF StateInv, DirInv
      <4>2. children[y] \subseteq ChildrenOf[y]
        BY ChildrenFacts DEF Parents
      <4>. QED
        BY <2>1, <4>1, <4>2
    <3>3. CASE x \notin Registered
      BY <2>1, <3>1, <3>3, MultiAssumption
    <3>. QED
      BY <3>2, <3>3
  <2>5. resolving' \subseteq Multi \X Source
    BY <2>1 DEF StateInv, TypeOK, DirectoryOK
  <2>. QED
    BY <2>1, <2>2, <2>3, <2>4, <2>5 DEF DirInv
<1>5. CASE Adds
  BY <1>2, <1>5 DEF Adds
<1>6. CASE Drops
  BY <1>3, <1>6 DEF Drops
<1>7. CASE Resolves
  BY <1>4, <1>7 DEF Resolves
<1>. QED
  BY <1>1, <1>5, <1>6, <1>7, DirectorySteps

(* The children of every parent stay registered.                           *)
LEMMA ChildrenListedNext ==
  ASSUME StateInv, ChildrenListed, Next
  PROVE  ChildrenListed'
<1>1. SUFFICES ASSUME "child" \notin excused'
               PROVE  \A m \in Parents' : children'[m] \subseteq Registered'
  BY DEF ChildrenListed
<1>2. excused \ {"unwatched"} \subseteq excused'
  BY ExcusedGrows
<1>3. \A m \in Parents : children[m] \subseteq Registered
  BY <1>1, <1>2 DEF ChildrenListed
<1>4. CASE UNCHANGED directory
  BY <1>3, <1>4 DEF directory, Registered, Parents, Parent
<1>5. ASSUME NEW n \in Top, NEW s \in Source, AddService(n, s)
      PROVE  \A m \in Parents' : children'[m] \subseteq Registered'
  <2>1. /\ Registered \subseteq Registered'
        /\ \A m \in Parents : children'[m] = children[m]
        /\ \A m \in Parents' : m \notin Parents => children'[m] = {}
    BY <1>5, AddFacts
  <2>. QED
    BY <1>3, <2>1
<1>6. ASSUME NEW n \in Name, RemoveService(n), n \in Top \/ LosesChild(n) \subseteq excused'
      PROVE  \A m \in Parents' : children'[m] \subseteq Registered'
  <2>1. /\ Parents' = Parents \ {n}
        /\ Registered' = Registered \ Removes(n)
        /\ \A m \in Parents' : children'[m] = children[m]
    BY <1>6, RemoveFacts
  <2>2. SUFFICES ASSUME NEW m \in Parents', NEW x \in children[m]
                 PROVE  x \notin Removes(n)
    BY <1>3, <2>1
  <2>3. m \in Multi /\ m # n /\ Parent(m) /\ m \in Parents
    BY <2>1, <2>2 DEF Parents
  <2>4. x \in ChildrenOf[m] /\ x \in Child /\ x \in Registered
    BY <1>3, <2>2, <2>3, ChildrenFacts
  <2>5. x # n
    <3>1. CASE n \in Top
      BY <3>1, <2>4, MultiAssumption
    <3>2. CASE LosesChild(n) \subseteq excused'
      BY <1>1, <3>2, <2>2, <2>3, <2>4 DEF LosesChild
    <3>. QED
      BY <3>1, <3>2, <1>6
  <2>6. Parent(n) => x \notin children[n]
    <3>1. SUFFICES ASSUME Parent(n) PROVE x \notin children[n]
      OBVIOUS
    <3>2. n \in Multi /\ children[n] \subseteq ChildrenOf[n]
      BY <3>1, ChildrenFacts DEF Parent
    <3>. QED
      BY <3>2, <2>3, <2>4, MultiAssumption
  <2>. QED
    BY <2>5, <2>6 DEF Removes
<1>7. ASSUME NEW m \in Multi, NEW s \in Source,
             ResolveSucceeds(m, s) \/ ResolveFails(m, s)
      PROVE  \A x \in Parents' : children'[x] \subseteq Registered'
  <2>1. /\ Parents' = Parents
        /\ Registered \subseteq Registered'
        /\ \A x \in Parents : children'[x] = children[x]
                              \/ (/\ children'[x] = ChildrenOf[x]
                                  /\ ChildrenOf[x] \subseteq Registered')
    BY <1>7, ResolveFacts
  <2>. QED
    BY <1>3, <2>1
<1>8. CASE Adds
  BY <1>5, <1>8 DEF Adds
<1>9. CASE Drops
  BY <1>6, <1>9 DEF Drops
<1>10. CASE Resolves
  BY <1>7, <1>10 DEF Resolves
<1>. QED
  BY <1>4, <1>8, <1>9, <1>10, DirectorySteps

(* What the control points of the daemon's goroutines imply is kept.       *)
LEMMA ReloadControlNext ==
  ASSUME StateInv, ReloadStep
  PROVE  ControlOK' /\ FileNeeded' /\ MutexInv' /\ ReaddInv'
<1>1. /\ reloadMu # None
      /\ UNCHANGED <<owned, file, version, watch, persists, release, ledger, unsaved>>
  BY DEF ReloadStep, ReloadRemove, ReloadSnapshot, ReloadRunning, ReloadReadd,
     ReaddRemove, ReaddAdd, ReloadForget, ReloadAdd, ReloadUnlock, ReloadFrame, watcher,
     written
<1>2. reloadMu \in Reloader /\ reloadMu # None /\ reloads[reloadMu].at = "loaded"
      /\ diff.at # "none" /\ Cfg \subseteq Top
  BY <1>1, CfgFacts DEF StateInv, MutexInv
<1>3. Top \subseteq Name /\ Multi \subseteq Name /\ Child \subseteq Name /\ Multi \subseteq Top
  BY MultiAssumption DEF Name
<1>4. \A m \in Multi : m \notin Phase
  BY ValueAssumption
<1>5. CASE /\ UNCHANGED <<reloads, reloadMu>> /\ external' \subseteq Top
           /\ diff' \in [at : Phase \cup Multi, running : SUBSET Name,
                         parents : SUBSET Multi, todo : SUBSET Name]
           /\ diff'.at # "none" /\ ReaddInv'
  BY <1>1, <1>2, <1>5 DEF StateInv, TypeOK, ControlOK, FileNeeded, MutexInv
<1>6. diff \in [at : Phase \cup Multi, running : SUBSET Name,
                parents : SUBSET Multi, todo : SUBSET Name]
      /\ external \subseteq Top
  BY DEF StateInv, TypeOK, ControlOK
<1>7. ASSUME UNCHANGED <<reloads, reloadMu, external>>, NEW n,
             diff' = [diff EXCEPT !.todo = @ \ {n}]
      PROVE  ControlOK' /\ FileNeeded' /\ MutexInv' /\ ReaddInv'
  <2>1. /\ diff' \in [at : Phase \cup Multi, running : SUBSET Name,
                      parents : SUBSET Multi, todo : SUBSET Name]
        /\ diff'.at = diff.at /\ diff'.parents = diff.parents
        /\ diff'.todo \subseteq diff.todo
    BY <1>6, <1>7
  <2>2. ReaddInv'
    BY <1>7, <2>1 DEF StateInv, ReaddInv, Cfg
  <2>. QED
    BY <1>2, <1>5, <1>6, <1>7, <2>1, <2>2
<1>8. CASE ReloadRemove
  BY <1>7, <1>8 DEF ReloadRemove
<1>9. CASE ReloadSnapshot
  <2>1. /\ diff' = [at |-> "parents", running |-> Registered, parents |-> Parents,
                    todo |-> Parents \ Cfg]
        /\ UNCHANGED <<external, reloads, reloadMu>>
    BY <1>9 DEF ReloadSnapshot
  <2>2. Registered \subseteq Name /\ Parents \subseteq Multi
    BY DEF Registered, Parents
  <2>3. /\ diff' \in [at : Phase \cup Multi, running : SUBSET Name,
                      parents : SUBSET Multi, todo : SUBSET Name]
        /\ diff'.at = "parents"
    BY <2>1, <2>2, <1>3 DEF Phase
  <2>4. ReaddInv'
    BY <2>3, <1>4 DEF ReaddInv, Phase
  <2>. QED
    BY <1>5, <1>6, <2>1, <2>3, <2>4
<1>10. CASE ReloadRunning
  <2>1. /\ diff' = [diff EXCEPT
              !.at = "running",
              !.todo = (diff.running \ Cfg) \ UNION {children[m] : m \in Parents}]
        /\ UNCHANGED <<external, reloads, reloadMu>>
    BY <1>10 DEF ReloadRunning
  <2>2. /\ diff' \in [at : Phase \cup Multi, running : SUBSET Name,
                      parents : SUBSET Multi, todo : SUBSET Name]
        /\ diff'.at = "running"
    BY <2>1, <1>6 DEF Phase
  <2>3. ReaddInv'
    BY <2>2, <1>4 DEF ReaddInv, Phase
  <2>. QED
    BY <1>5, <1>6, <2>1, <2>2, <2>3
<1>11. CASE ReloadReadd
  <2>1. /\ diff' = [diff EXCEPT !.at = "readd", !.todo = Cfg \cap diff.parents]
        /\ UNCHANGED <<external, reloads, reloadMu>>
    BY <1>11 DEF ReloadReadd
  <2>2. /\ diff' \in [at : Phase \cup Multi, running : SUBSET Name,
                      parents : SUBSET Multi, todo : SUBSET Name]
        /\ diff'.at = "readd" /\ diff'.parents = diff.parents
        /\ diff'.todo = Cfg \cap diff.parents
    BY <2>1, <1>2, <1>3, <1>6 DEF Phase
  <2>3. ReaddInv'
    BY <2>1, <2>2, <1>4 DEF ReaddInv, Phase, Cfg
  <2>. QED
    BY <1>5, <1>6, <2>1, <2>2, <2>3
<1>12. CASE ReaddRemove
  <2>1. PICK n \in diff.todo :
          diff' = IF RemoveFails(n) THEN [diff EXCEPT !.todo = @ \ {n}]
                  ELSE [diff EXCEPT !.at = n]
    BY <1>12 DEF ReaddRemove
  <2>2. UNCHANGED <<external, reloads, reloadMu>> /\ diff.at = "readd"
    BY <1>12 DEF ReaddRemove
  <2>3. CASE RemoveFails(n)
    BY <1>7, <2>1, <2>2, <2>3
  <2>4. CASE ~RemoveFails(n)
    <3>1. diff.todo \subseteq Cfg \cap diff.parents /\ n \in Multi
      BY <2>2, <1>6 DEF StateInv, ReaddInv
    <3>2. /\ diff' \in [at : Phase \cup Multi, running : SUBSET Name,
                        parents : SUBSET Multi, todo : SUBSET Name]
          /\ diff'.at = n /\ diff'.parents = diff.parents /\ diff'.todo = diff.todo
      BY <2>1, <2>4, <1>6, <3>1
    <3>3. n # "none" /\ n # "readd" /\ n # "add"
      BY <3>1, <1>4 DEF Phase
    <3>4. ReaddInv'
      BY <2>1, <2>2, <3>1, <3>2, <3>3 DEF ReaddInv, Cfg
    <3>. QED
      BY <1>5, <1>6, <2>2, <3>2, <3>3, <3>4
  <2>. QED
    BY <2>3, <2>4
<1>13. CASE ReaddAdd
  <2>1. /\ diff' = [diff EXCEPT !.at = "readd", !.todo = @ \ {diff.at}]
        /\ UNCHANGED <<external, reloads, reloadMu>> /\ diff.at \in Multi
    BY <1>13 DEF ReaddAdd
  <2>2. /\ diff' \in [at : Phase \cup Multi, running : SUBSET Name,
                      parents : SUBSET Multi, todo : SUBSET Name]
        /\ diff'.at = "readd" /\ diff'.parents = diff.parents
        /\ diff'.todo \subseteq diff.todo
    BY <2>1, <1>6 DEF Phase
  <2>3. ReaddInv'
    BY <2>1, <2>2, <1>4 DEF StateInv, ReaddInv, Phase, Cfg
  <2>. QED
    BY <1>5, <1>6, <2>1, <2>2, <2>3
<1>14. CASE ReloadForget
  <2>1. /\ external' = external \cap Cfg
        /\ diff' = [diff EXCEPT !.at = "add",
                                !.todo = Cfg \ (diff.running \cup diff.parents)]
        /\ UNCHANGED <<reloads, reloadMu>>
    BY <1>14 DEF ReloadForget
  <2>2. /\ diff' \in [at : Phase \cup Multi, running : SUBSET Name,
                      parents : SUBSET Multi, todo : SUBSET Name]
        /\ diff'.at = "add" /\ diff'.todo \subseteq Cfg
    BY <2>1, <1>2, <1>3, <1>6 DEF Phase
  <2>3. ReaddInv'
    BY <2>1, <2>2, <1>4 DEF ReaddInv, Phase, Cfg
  <2>. QED
    BY <1>5, <1>6, <2>1, <2>2, <2>3
<1>15. CASE ReloadAdd
  BY <1>7, <1>15 DEF ReloadAdd
<1>16. CASE ReloadUnlock
  <2>1. /\ reloadMu' = None /\ diff' = NoDiff /\ UNCHANGED external
        /\ reloads' = [reloads EXCEPT ![reloadMu] = IdleReload]
    BY <1>16 DEF ReloadUnlock
  <2>2. /\ diff' \in [at : Phase \cup Multi, running : SUBSET Name,
                      parents : SUBSET Multi, todo : SUBSET Name]
        /\ diff'.at = "none"
    BY <2>1 DEF NoDiff, Phase
  <2>3. IdleReload \in [at : {"idle", "load", "loaded"}, cfg : Contents, version : Nat]
    BY DEF IdleReload, Contents
  <2>4. /\ reloads' \in [Reloader -> [at : {"idle", "load", "loaded"},
                                      cfg : Contents, version : Nat]]
        /\ \A x \in Reloader : reloads'[x].at \in {"idle", reloads[x].at}
    BY <2>1, <2>3 DEF StateInv, TypeOK, ControlOK, IdleReload
  <2>5. ControlOK'
    BY <1>1, <1>6, <2>1, <2>2, <2>4 DEF StateInv, TypeOK, ControlOK
  <2>6. FileNeeded'
    BY <1>1, <2>4 DEF StateInv, FileNeeded
  <2>7. ReaddInv' /\ MutexInv'
    BY <2>1, <2>2, <1>4 DEF ReaddInv, MutexInv, Phase
  <2>. QED
    BY <2>5, <2>6, <2>7
<1>. QED
  BY <1>8, <1>9, <1>10, <1>11, <1>12, <1>13, <1>14, <1>15, <1>16 DEF ReloadStep

LEMMA RequestControlNext ==
  ASSUME StateInv, BrokenInv, Next, ~ReloadStep
  PROVE  ControlOK' /\ FileNeeded' /\ MutexInv' /\ ReaddInv'
<1>1. CASE UNCHANGED <<external, owned, file, version, reloads, reloadMu, diff, persists,
                       release, watch, written>>
  BY <1>1 DEF StateInv, TypeOK, ControlOK, FileNeeded, MutexInv, ReaddInv, Cfg, written
(* Only the reload goroutines' state changes, and not that of the one that *)
(* holds the mutex.                                                        *)
<1>2. ASSUME UNCHANGED <<external, owned, file, version, reloadMu, diff, persists, release,
                         watch, written>>,
             NEW r \in Reloader, r # reloadMu,
             NEW v \in [at : {"idle", "load", "loaded"}, cfg : Contents, version : Nat],
             reloads' = [reloads EXCEPT ![r] = v], file # NoFile
      PROVE  ControlOK' /\ FileNeeded' /\ MutexInv' /\ ReaddInv'
  <2>1. reloads' \in [Reloader -> [at : {"idle", "load", "loaded"}, cfg : Contents,
                                   version : Nat]]
    BY <1>2 DEF StateInv, TypeOK, ControlOK
  <2>2. reloadMu # None => reloads'[reloadMu] = reloads[reloadMu]
    BY <1>2 DEF StateInv, TypeOK, ControlOK
  <2>3. ControlOK'
    BY <1>2, <2>1 DEF StateInv, TypeOK, ControlOK, written
  <2>4. FileNeeded' /\ MutexInv'
    BY <1>2, <2>2 DEF StateInv, FileNeeded, MutexInv
  <2>5. ReaddInv'
    <3>1. CASE reloadMu = None
      <4>1. diff'.at = "none"
        BY <1>2, <3>1 DEF StateInv, MutexInv
      <4>. QED
        BY <4>1, ValueAssumption DEF ReaddInv, Phase
    <3>2. CASE reloadMu # None
      BY <1>2, <2>2, <3>2 DEF StateInv, ReaddInv, Cfg
    <3>. QED
      BY <3>1, <3>2
  <2>. QED
    BY <2>3, <2>4, <2>5
<1>3. \A r \in Reloader : reloads[r] \in [at : {"idle", "load", "loaded"},
                                          cfg : Contents, version : Nat]
  BY DEF StateInv, TypeOK, ControlOK
<1>4. ASSUME NEW r \in Reloader, reloads[r].at # "loaded"
      PROVE  r # reloadMu
  BY <1>4, ValueAssumption DEF StateInv, MutexInv
<1>5. CASE Resolve
  BY <1>1, <1>5 DEF Resolve, watcher, history
<1>6. CASE WatchStart
  <2>1. /\ UNCHANGED <<external, owned, file, version, reloads, reloadMu, diff, persists,
                       release, written>>
        /\ watch = "starting"
    BY <1>6 DEF WatchStart, history
  <2>2. file # NoFile
    BY <2>1 DEF StateInv, FileNeeded
  <2>3. ControlOK' /\ MutexInv' /\ ReaddInv'
    BY <2>1 DEF StateInv, TypeOK, ControlOK, MutexInv, ReaddInv, Cfg, written
  <2>4. FileNeeded'
    BY <2>1, <2>2 DEF FileNeeded
  <2>. QED
    BY <2>3, <2>4
<1>7. CASE WatchTick
  <2>1. /\ reloads["watch"].at = "idle" /\ "watch" \in Reloader /\ watch = "on"
        /\ reloads' = [reloads EXCEPT !["watch"].at = "load"]
    BY <1>7 DEF WatchTick, Reloader
  <2>2. [reloads["watch"] EXCEPT !.at = "load"]
          \in [at : {"idle", "load", "loaded"}, cfg : Contents, version : Nat]
    BY <1>3, <2>1
  <2>3. reloads' = [reloads EXCEPT !["watch"] = [reloads["watch"] EXCEPT !.at = "load"]]
    BY <2>1
  <2>4. UNCHANGED <<external, owned, file, version, reloadMu, diff, persists, release,
                    watch, written>>
    BY <1>7 DEF WatchTick, history
  <2>5. file # NoFile
    BY <2>1 DEF StateInv, FileNeeded
  <2>. QED
    BY <1>2, <1>4, <2>1, <2>2, <2>3, <2>4, <2>5
<1>8. ASSUME NEW r \in Reloader, reloads[r].at # "loaded", Load(r), LoadFrame, file # NoFile
      PROVE  ControlOK' /\ FileNeeded' /\ MutexInv' /\ ReaddInv'
  <2>1. reloads' = [reloads EXCEPT ![r] =
                      IF Valid(file)
                      THEN [at |-> "loaded", cfg |-> file, version |-> version]
                      ELSE IdleReload]
    BY <1>8 DEF Load
  <2>2. UNCHANGED <<external, owned, file, version, reloadMu, diff, persists, release,
                    watch, written>>
    BY <1>8 DEF LoadFrame, watcher
  <2>3. Valid(file) => file \in Contents
    BY DEF Valid, StateInv, TypeOK, ControlOK, File
  <2>4. (IF Valid(file) THEN [at |-> "loaded", cfg |-> file, version |-> version]
         ELSE IdleReload)
          \in [at : {"idle", "load", "loaded"}, cfg : Contents, version : Nat]
    BY <2>3 DEF IdleReload, Contents, StateInv, TypeOK, ControlOK
  <2>. QED
    BY <1>2, <1>4, <1>8, <2>1, <2>2, <2>4
<1>28. CASE ReloadLoad
  <2>1. "watch" \in Reloader /\ reloads["watch"].at = "load"
    BY <1>28 DEF ReloadLoad, Reloader
  <2>2. file # NoFile
    BY <2>1 DEF StateInv, FileNeeded
  <2>. QED
    BY <1>8, <1>28, <2>1, <2>2 DEF ReloadLoad
<1>29. CASE ReloadRequest
  <2>1. "rpc" \in Reloader /\ reloads["rpc"].at = "idle"
    BY <1>29 DEF ReloadRequest, Reloader
  <2>. QED
    BY <1>8, <1>29, <2>1 DEF ReloadRequest
<1>9. ASSUME NEW r \in Reloader, ReloadLock(r)
      PROVE  ControlOK' /\ FileNeeded' /\ MutexInv' /\ ReaddInv'
  <2>1. /\ reloads[r].at = "loaded" /\ reloadMu = None /\ reloadMu' = r
        /\ external' = owned \cap reloads[r].cfg
        /\ diff' = [NoDiff EXCEPT !.at = "newly", !.todo = external' \ external]
        /\ UNCHANGED <<owned, file, version, reloads, persists, release, watch, written>>
    BY <1>9 DEF ReloadLock, watcher, written
  <2>2. external' \subseteq Top /\ Top \subseteq Name
    BY <2>1 DEF StateInv, TypeOK, ControlOK, Name
  <2>3. /\ diff' \in [at : Phase \cup Multi, running : SUBSET Name,
                      parents : SUBSET Multi, todo : SUBSET Name]
        /\ diff'.at = "newly"
    BY <2>1, <2>2 DEF NoDiff, Phase
  <2>4. ControlOK'
    BY <2>1, <2>2, <2>3 DEF StateInv, TypeOK, ControlOK, written
  <2>5. r # None
    BY ValueAssumption
  <2>6. MutexInv' /\ FileNeeded'
    BY <2>1, <2>3, <2>5 DEF MutexInv, FileNeeded, StateInv
  <2>7. ReaddInv'
    BY <2>3, ValueAssumption DEF ReaddInv, Phase
  <2>. QED
    BY <2>4, <2>6, <2>7
(* Only a client's persist and the file change.                            *)
<1>10. ASSUME UNCHANGED <<external, owned, reloads, reloadMu, diff, release, watch>>,
              file' \in File, version' \in Nat, file' = NoFile <=> file = NoFile,
              ledger' \in File, unsaved' \subseteq Top,
              persists' \in [Client -> [at : {"idle", "load", "save"},
                               op : {"add", "remove"}, name : Top \cup {None},
                               cfg : Contents]],
              \A c \in Client : persists'[c].at # "idle" =>
                              file # NoFile /\ persists'[c].name \in Top
       PROVE  ControlOK' /\ FileNeeded' /\ MutexInv' /\ ReaddInv'
  <2>1. ControlOK'
    BY <1>10 DEF StateInv, TypeOK, ControlOK
  <2>2. FileNeeded'
    BY <1>10 DEF StateInv, FileNeeded
  <2>3. MutexInv' /\ ReaddInv'
    BY <1>10 DEF StateInv, MutexInv, ReaddInv, Cfg
  <2>. QED
    BY <2>1, <2>2, <2>3
<1>11. /\ persists \in [Client -> [at : {"idle", "load", "save"}, op : {"add", "remove"},
                                   name : Top \cup {None}, cfg : Contents]]
       /\ \A c \in Client : persists[c].at # "idle" =>
                             file # NoFile /\ persists[c].name \in Top
       /\ file \in File /\ version \in Nat /\ ledger \in File /\ unsaved \subseteq Top
  BY DEF StateInv, TypeOK, ControlOK, FileNeeded
<1>12. IdlePersist \in [at : {"idle", "load", "save"}, op : {"add", "remove"},
                        name : Top \cup {None}, cfg : Contents] /\ IdlePersist.at = "idle"
  BY DEF IdlePersist, Contents
<1>13. ASSUME NEW c \in Client, NEW n \in Top, NEW p \in BOOLEAN,
              RpcAdd(c, n, p) \/ RpcRemove(c, n, p)
       PROVE  ControlOK' /\ FileNeeded' /\ MutexInv' /\ ReaddInv'
  <2>1. UNCHANGED <<external, owned, file, version, reloads, reloadMu, diff, release, watch>>
    BY <1>13 DEF RpcAdd, RpcRemove, RequestFrame, watcher
  <2>2. PICK op \in {"add", "remove"} :
          \/ UNCHANGED <<persists, written>>
          \/ /\ file # NoFile
             /\ persists' = [persists EXCEPT
                               ![c] = [at |-> "load", op |-> op, name |-> n, cfg |-> {}]]
             /\ ledger' = IF ledger = Broken THEN Broken
                          ELSE IF op = "add" THEN ledger \cup {n} ELSE ledger \ {n}
             /\ \/ unsaved' = unsaved
                \/ unsaved' = unsaved \cup {n} \cup
                      {persists[d].name : d \in {d \in Client \ {c} : persists[d].at # "idle"}}
    BY <1>13 DEF RpcAdd, RpcRemove, BeginPersist
  <2>3. [at |-> "load", op |-> op, name |-> n, cfg |-> {}]
          \in [at : {"idle", "load", "save"}, op : {"add", "remove"},
               name : Top \cup {None}, cfg : Contents]
    BY DEF Contents
  <2>4. /\ persists' \in [Client -> [at : {"idle", "load", "save"}, op : {"add", "remove"},
                                     name : Top \cup {None}, cfg : Contents]]
        /\ \A d \in Client : persists'[d].at # "idle" =>
                              file # NoFile /\ persists'[d].name \in Top
    BY <1>11, <2>2, <2>3
  <2>5. unsaved' \subseteq Top
    <3>1. {persists[d].name : d \in {d \in Client \ {c} : persists[d].at # "idle"}} \subseteq Top
      BY <1>11
    <3>. QED
      BY <1>11, <2>2, <3>1 DEF written
  <2>6. ledger' \in File
    <3>1. ledger = NoFile => file = NoFile
      BY DEF BrokenInv
    <3>2. CASE ledger \in {Broken, NoFile}
      BY <1>11, <2>2, <3>1, <3>2 DEF written, File
    <3>3. CASE ledger \in Contents
      BY <1>11, <2>2, <3>3 DEF written, File, Contents
    <3>. QED
      BY <1>11, <3>2, <3>3 DEF File
  <2>. QED
    BY <1>10, <1>11, <2>1, <2>4, <2>5, <2>6
<1>14. ASSUME NEW c \in Client, PersistLoad(c)
       PROVE  ControlOK' /\ FileNeeded' /\ MutexInv' /\ ReaddInv'
  <2>1. /\ persists[c].at = "load"
        /\ UNCHANGED <<external, owned, file, version, reloads, reloadMu, diff, release,
                       watch, ledger>>
    BY <1>14 DEF PersistLoad, watcher
  <2>2. PICK cfg \in {file \cup {persists[c].name}, file \ {persists[c].name}} :
          persists' = [persists EXCEPT ![c] =
             IF file # Broken /\ cfg # file
             THEN [persists[c] EXCEPT !.at = "save", !.cfg = cfg] ELSE IdlePersist]
    BY <1>14 DEF PersistLoad
  <2>3. file # NoFile /\ persists[c].name \in Top
    BY <1>11, <2>1
  <2>4. unsaved' \subseteq Top
    BY <1>11, <1>14, <2>3 DEF PersistLoad
  <2>5. /\ persists' \in [Client -> [at : {"idle", "load", "save"}, op : {"add", "remove"},
                                     name : Top \cup {None}, cfg : Contents]]
        /\ \A d \in Client : persists'[d].at # "idle" =>
                              file # NoFile /\ persists'[d].name \in Top
    <3>1. CASE file # Broken /\ cfg # file
      <4>1. file \in Contents
        BY <1>11, <2>3, <3>1 DEF File
      <4>2. cfg \in Contents
        BY <2>3, <4>1 DEF Contents
      <4>3. [persists[c] EXCEPT !.at = "save", !.cfg = cfg]
              \in [at : {"idle", "load", "save"}, op : {"add", "remove"},
                   name : Top \cup {None}, cfg : Contents]
        BY <1>11, <4>2
      <4>4. persists' \in [Client -> [at : {"idle", "load", "save"}, op : {"add", "remove"},
                                      name : Top \cup {None}, cfg : Contents]]
        BY <1>11, <2>2, <3>1, <4>3
      <4>5. \A d \in Client : persists'[d].at # "idle" =>
                              file # NoFile /\ persists'[d].name \in Top
        BY <1>11, <2>1, <2>2, <2>3, <3>1
      <4>. QED
        BY <4>4, <4>5
    <3>2. CASE ~(file # Broken /\ cfg # file)
      <4>1. persists' = [persists EXCEPT ![c] = IdlePersist]
        BY <2>2, <3>2
      <4>. QED
        BY <1>11, <1>12, <4>1
    <3>. QED
      BY <3>1, <3>2
  <2>. QED
    BY <1>10, <1>11, <2>1, <2>4, <2>5
<1>15. ASSUME NEW c \in Client, PersistSave(c) \/ PersistSaveFails(c)
       PROVE  ControlOK' /\ FileNeeded' /\ MutexInv' /\ ReaddInv'
  <2>1. /\ persists[c].at = "save" /\ file' \in {persists[c].cfg, file, {}, Broken}
        /\ version' \in {version, version + 1}
        /\ persists' = [persists EXCEPT ![c] = IdlePersist]
        /\ unsaved' \in {unsaved, unsaved \cup {persists[c].name}, Top}
        /\ UNCHANGED <<external, owned, reloads, reloadMu, diff, release, watch, ledger>>
    BY <1>15 DEF PersistSave, PersistSaveFails, watcher, written
  <2>2. persists[c].cfg \in Contents /\ {} \in Contents /\ persists[c].name \in Top
    BY <1>11, <2>1 DEF Contents
  <2>3. file' \in File /\ file' # NoFile /\ file # NoFile
    BY <1>11, <2>1, <2>2, ValueAssumption DEF File
  <2>4. version' \in Nat /\ unsaved' \subseteq Top
    BY <1>11, <2>1, <2>2
  <2>5. persists' \in [Client -> [at : {"idle", "load", "save"}, op : {"add", "remove"},
                                  name : Top \cup {None}, cfg : Contents]]
    BY <1>11, <1>12, <2>1
  <2>6. \A d \in Client : persists'[d].at # "idle" =>
                          file # NoFile /\ persists'[d].name \in Top
    BY <1>11, <1>12, <2>1
  <2>. QED
    BY <1>10, <1>11, <2>1, <2>3, <2>4, <2>5, <2>6
<1>16. CASE EditFile
  <2>1. /\ file # NoFile /\ file' \in {Broken} \cup (Contents \ {{}})
        /\ version' = version + 1 /\ ledger' = file'
        /\ UNCHANGED <<external, owned, reloads, reloadMu, diff, release, watch, persists>>
    BY <1>16 DEF EditFile, watcher
  <2>2. file' \in File /\ file' # NoFile
    BY <2>1, ValueAssumption DEF File
  <2>3. unsaved' \subseteq Top
    BY <1>11, <1>16 DEF EditFile
  <2>. QED
    BY <1>10, <1>11, <2>1, <2>2, <2>3
<1>17. ASSUME NEW n, RpcRemoveChild(n) \/ HandOver(n) \/ Apply(n)
       PROVE  ControlOK' /\ FileNeeded' /\ MutexInv' /\ ReaddInv'
  BY <1>1, <1>17 DEF RpcRemoveChild, HandOver, Apply, RequestFrame, watcher
(* What is left of a release shrinks or is set anew.                       *)
<1>18. ASSUME UNCHANGED <<external, file, version, reloads, reloadMu, diff, persists, watch,
                          written>>,
              owned' \subseteq Top,
              release' \in [at : {"active", "releasing", "gone"}, todo : SUBSET Top,
                            missed : SUBSET Multi]
       PROVE  ControlOK' /\ FileNeeded' /\ MutexInv' /\ ReaddInv'
  BY <1>18 DEF StateInv, TypeOK, ControlOK, FileNeeded, MutexInv, ReaddInv, Cfg, written
<1>19. /\ owned \subseteq Top
       /\ release \in [at : {"active", "releasing", "gone"}, todo : SUBSET Top,
                        missed : SUBSET Multi]
  BY DEF StateInv, TypeOK, ControlOK
<1>22. CASE ReleaseBySource
  <2>1. release' = [at |-> "releasing",
                    todo |-> {TopOf(n) : n \in {x \in Name : forwards[x] = Delegate}},
                    missed |-> Untraceable]
    BY <1>22 DEF ReleaseBySource
  <2>2. \A n \in Name : forwards[n] = Delegate => TopOf(n) \in Top
    BY TopOfFacts, ValueAssumption DEF Registered, Source
  <2>3. Untraceable \subseteq Multi
    <3>1. \A x \in resolving : x[1] \in Multi
      BY DEF StateInv, TypeOK, DirectoryOK
    <3>. QED
      BY <3>1 DEF Untraceable
  <2>4. release' \in [at : {"active", "releasing", "gone"}, todo : SUBSET Top,
                      missed : SUBSET Multi]
    BY <2>1, <2>2, <2>3
  <2>. QED
    BY <1>18, <1>19, <1>22, <2>4 DEF ReleaseBySource, watcher, history
<1>23. CASE ReleaseNext
  <2>1. release' \in [at : {"active", "releasing", "gone"}, todo : SUBSET Top,
                      missed : SUBSET Multi]
    <3>1. \/ release' = [release EXCEPT !.at = "gone"]
          \/ \E n : release' = [release EXCEPT !.todo = @ \ {n}]
      BY <1>23 DEF ReleaseNext
    <3>. QED
      BY <1>19, <3>1
  <2>. QED
    BY <1>18, <1>19, <1>23, <2>1 DEF ReleaseNext, watcher
<1>24. CASE OthersChange
  BY <1>18, <1>19, <1>24 DEF OthersChange, watcher, history
<1>. QED
  BY <1>5, <1>6, <1>7, <1>9, <1>13, <1>14, <1>15, <1>16, <1>17, <1>22, <1>23, <1>24,
     <1>28, <1>29 DEF Next

LEMMA StateNext ==
  ASSUME StateInv, BrokenInv, Next
  PROVE  StateInv'
<1>1. ControlOK' /\ FileNeeded' /\ MutexInv' /\ ReaddInv'
  BY ReloadControlNext, RequestControlNext
<1>. QED
  BY <1>1, DirectoryNext DEF StateInv, TypeOK, DirectoryOK

LEMMA InitInv == Init => IInv
<1>1. SUFFICES ASSUME Init PROVE IInv
  OBVIOUS
<1>. DEFINE cfg == IF file = NoFile THEN {} ELSE file
<1>2. Multi \subseteq Top /\ Multi \subseteq Name /\ Child \subseteq Name /\ Top \subseteq Name
      /\ Child \cap Top = {} /\ \A m \in Multi : ChildrenOf[m] \subseteq Child
  BY MultiAssumption DEF Name, Child
<1>3. file \in File /\ cfg \subseteq Top /\ file # Broken
  <2>1. CASE file = NoFile
    BY <2>1, ValueAssumption DEF File
  <2>2. CASE file # NoFile
    BY <1>1, <2>2, ValueAssumption DEF Init, File, Contents
  <2>. QED
    BY <2>1, <2>2
<1>4. {} # None /\ \A m \in Multi : ChildrenOf[m] # None
  BY <1>2, ValueAssumption
<1>5. PICK early \in SUBSET Multi :
        /\ early \subseteq cfg
        /\ forwards = [n \in Name |->
               IF n \in ((cfg \ Multi) \ refused) \cup UNION {ChildrenOf[m] : m \in early}
               THEN Native ELSE None]
        /\ children = [m \in Multi |-> IF m \in early THEN ChildrenOf[m]
                                       ELSE IF m \in cfg THEN {} ELSE None]
        /\ resolving = {<<m, Native>> : m \in (cfg \cap Multi) \ early}
  BY <1>1 DEF Init
<1>6. \A m \in Multi : children[m] = IF m \in early THEN ChildrenOf[m]
                                     ELSE IF m \in cfg THEN {} ELSE None
  BY <1>5
<1>7. DirectoryOK
  <2>1. children \in [Multi -> {None} \cup SUBSET Child]
    BY <1>2, <1>5
  <2>2. resolving \subseteq Multi \X Source
    BY <1>5 DEF Source
  <2>3. forwards \in [Name -> Entry]
    BY <1>5, EntryFacts DEF Source
  <2>. QED
    BY <2>1, <2>2, <2>3 DEF DirectoryOK
<1>8. ControlOK
  <2>1. IdleReload \in [at : {"idle", "load", "loaded"}, cfg : Contents, version : Nat]
    BY DEF IdleReload, Contents
  <2>2. NoDiff \in [at : Phase \cup Multi, running : SUBSET Name,
                    parents : SUBSET Multi, todo : SUBSET Name]
    BY DEF NoDiff, Phase
  <2>3. IdlePersist \in [at : {"idle", "load", "save"}, op : {"add", "remove"},
                         name : Top \cup {None}, cfg : Contents] /\ IdlePersist.at = "idle"
    BY DEF IdlePersist, Contents
  <2>4. /\ external = {} /\ owned = {} /\ version = 0 /\ reloadMu = None /\ diff = NoDiff
        /\ reloads = [r \in Reloader |-> IdleReload]
        /\ persists = [c \in Client |-> IdlePersist]
        /\ release = [at |-> "active", todo |-> {}, missed |-> {}]
        /\ ledger = file /\ unsaved = {}
    BY <1>1 DEF Init
  <2>. QED
    BY <1>3, <2>1, <2>2, <2>3, <2>4 DEF ControlOK
<1>9. FileNeeded
  BY <1>1 DEF Init, FileNeeded, IdleReload, IdlePersist
<1>10. DirInv
  <2>1. \A n \in Name : n \in Registered =>
           n \in (cfg \ Multi) \cup UNION {ChildrenOf[m] : m \in early}
    BY <1>5 DEF Registered
  <2>2. ASSUME NEW n \in Child, n \in Registered
        PROVE  \E m \in Parents : n \in children[m]
    <3>1. n \notin cfg
      BY <1>2, <1>3
    <3>2. PICK m \in early : n \in ChildrenOf[m]
      BY <1>2, <2>1, <2>2, <3>1
    <3>3. m \in Parents /\ children[m] = ChildrenOf[m]
      BY <1>4, <1>6 DEF Parents, Parent
    <3>. QED
      BY <3>2, <3>3
  <2>3. \A m \in Multi : m \notin Registered
    <3>1. UNION {ChildrenOf[m] : m \in early} \subseteq Child
      BY <1>2
    <3>. QED
      BY <1>2, <2>1, <3>1
  <2>. QED
    BY <1>6, <2>2, <2>3 DEF DirInv
<1>11. StateInv
  <2>1. reloadMu = None /\ diff.at = "none"
    BY <1>1 DEF Init, NoDiff
  <2>. QED
    BY <1>7, <1>8, <1>9, <1>10, <2>1, ValueAssumption
       DEF StateInv, TypeOK, MutexInv, ReaddInv, Phase
<1>12. ChildrenListed
  <2>1. \A m \in Multi : m \in early => ChildrenOf[m] \subseteq Registered
    <3>1. Native # None
      BY EntryFacts DEF Source
    <3>2. \A m \in early : \A n \in ChildrenOf[m] : n \in Name /\ forwards[n] = Native
      BY <1>2, <1>5
    <3>. QED
      BY <3>1, <3>2 DEF Registered
  <2>. QED
    BY <1>6, <2>1 DEF ChildrenListed, Parents, Parent
<1>13. PersistInv
  <2>1. ledger = file /\ \A c \in Client : persists[c].at = "idle"
    BY <1>1 DEF Init, IdlePersist
  <2>. QED
    BY <2>1 DEF PersistInv, BrokenInv, AloneInv, LoadedInv, SavedInv, MeantInv, Pending
<1>14. UntracedInv /\ ReleaseInv
  <2>1. Native # Untraced /\ None # Untraced
    BY EntryFacts DEF Source
  <2>. QED
    BY <1>1, <1>5, <2>1 DEF Init, UntracedInv, ReleaseInv
<1>15. ProgressInv
  BY <1>1 DEF Init, ProgressInv
<1>16. ExternalInv
  BY <1>1 DEF Init, ExternalInv, NoDiff
<1>. QED
  BY <1>11, <1>12, <1>13, <1>14, <1>15, <1>16 DEF IInv

-----------------------------------------------------------------------------
(* The file and the persists.                                              *)

(* The file of a daemon that has one consists of services or is broken.    *)
LEMMA FileFacts ==
  ASSUME StateInv, BrokenInv, NEW c \in Pending
  PROVE  /\ file # NoFile /\ ledger # NoFile
         /\ file # Broken => file \in Contents
         /\ ledger # Broken => ledger \in Contents
         /\ persists[c].name \in Top /\ persists[c].op \in {"add", "remove"}
         /\ persists[c].at \in {"load", "save"}
BY DEF Pending, StateInv, TypeOK, ControlOK, FileNeeded, BrokenInv, File

(* A persist ends without leaving anything behind but what the file says.  *)
LEMMA PersistEnds ==
  ASSUME StateInv, NEW c \in Client, persists' = [persists EXCEPT ![c] = IdlePersist]
  PROVE  /\ Pending' = Pending \ {c}
         /\ \A d \in Pending' : persists'[d] = persists[d]
         /\ \A d \in Client : persists'[d].at = "save" => d # c /\ persists'[d] = persists[d]
<1>1. \A d \in Client : persists'[d] = IF d = c THEN IdlePersist ELSE persists[d]
  BY DEF StateInv, TypeOK, ControlOK
<1>2. IdlePersist.at = "idle"
  BY DEF IdlePersist
<1>. QED
  BY <1>1, <1>2 DEF Pending

LEMMA BeginNext ==
  ASSUME StateInv, PersistInv, NEW c \in Client, NEW n \in Top, NEW p \in BOOLEAN,
         RpcAdd(c, n, p) \/ RpcRemove(c, n, p)
  PROVE  PersistInv'
<1>1. file' = file
  BY DEF RpcAdd, RpcRemove, RequestFrame
<1>2. CASE UNCHANGED <<persists, written>>
  BY <1>1, <1>2 DEF PersistInv, BrokenInv, AloneInv, LoadedInv, SavedInv, MeantInv, Pending,
     written
<1>3. CASE ~UNCHANGED <<persists, written>>
  <2>. DEFINE others == {d \in Client \ {c} : persists[d].at # "idle"}
  <2>1. PICK op \in {"add", "remove"} :
          /\ persists[c].at = "idle" /\ file # NoFile
          /\ persists' = [persists EXCEPT
                            ![c] = [at |-> "load", op |-> op, name |-> n, cfg |-> {}]]
          /\ ledger' = IF ledger = Broken THEN Broken
                       ELSE IF op = "add" THEN ledger \cup {n} ELSE ledger \ {n}
          /\ unsaved' = IF others = {} THEN unsaved
                        ELSE unsaved \cup {n} \cup {persists[d].name : d \in others}
    BY <1>3 DEF RpcAdd, RpcRemove, BeginPersist
  <2>2. /\ \A d \in Client : d # c => persists'[d] = persists[d]
        /\ persists'[c].at = "load" /\ persists'[c].op = op /\ persists'[c].name = n
    BY <2>1 DEF StateInv, TypeOK, ControlOK
  <2>3. Pending = others /\ Pending' = others \cup {c}
    BY <2>1, <2>2 DEF Pending
  <2>4. /\ ledger # NoFile /\ file \in File /\ ledger \in File /\ unsaved \subseteq Top
        /\ unsaved \subseteq unsaved'
    BY <2>1 DEF PersistInv, BrokenInv, StateInv, TypeOK, ControlOK
  <2>5. /\ ledger # Broken => ledger \in Contents /\ ledger' \in Contents
        /\ ledger' = Broken <=> ledger = Broken
        /\ ledger' # NoFile
    BY <2>1, <2>4, ValueAssumption DEF File, Contents
  <2>6. others # {} => n \in unsaved' /\ \A d \in others : persists[d].name \in unsaved'
    BY <2>1
  <2>7. unsaved = Top => unsaved' = Top
    <3>1. \A d \in others : persists[d].name \in Top
      BY DEF StateInv, TypeOK, ControlOK
    <3>. QED
      BY <2>1, <3>1
  <2>8. BrokenInv'
    BY <1>1, <2>1, <2>4, <2>5, <2>7 DEF PersistInv, BrokenInv
  <2>9. AloneInv'
    BY <2>2, <2>3, <2>6 DEF AloneInv
  <2>10. LoadedInv'
    <3>1. SUFFICES ASSUME NEW d \in Client, persists'[d].at = "save"
                   PROVE  IF ledger' = Broken THEN unsaved' = Top
                          ELSE \A x \in Top \ unsaved' : x \in persists'[d].cfg <=> x \in ledger'
      BY DEF LoadedInv
    <3>2. d # c /\ d \in others /\ persists'[d] = persists[d]
      BY <2>2, <3>1
    <3>3. IF ledger = Broken THEN unsaved = Top
          ELSE \A x \in Top \ unsaved : x \in persists[d].cfg <=> x \in ledger
      BY <3>1, <3>2 DEF PersistInv, LoadedInv
    <3>4. n \in unsaved'
      BY <2>6, <3>2
    <3>. QED
      BY <2>1, <2>4, <2>5, <2>7, <3>2, <3>3, <3>4
  <2>11. SavedInv'
    <3>1. SUFFICES ASSUME {file', ledger'} \cap {Broken, NoFile} = {},
                          NEW x \in Top, x \notin unsaved'
                   PROVE  \/ x \in file' <=> x \in ledger'
                          \/ \E d \in Pending' : persists'[d].name = x
      BY DEF SavedInv
    <3>2. CASE x = n
      BY <2>2, <2>3, <3>2
    <3>3. CASE x # n
      <4>1. {file, ledger} \cap {Broken, NoFile} = {}
        BY <1>1, <2>4, <2>5, <3>1
      <4>2. (x \in file <=> x \in ledger) \/ \E d \in Pending : persists[d].name = x
        BY <2>4, <3>1, <4>1 DEF PersistInv, SavedInv
      <4>3. x \in ledger' <=> x \in ledger
        BY <2>1, <3>3, <4>1
      <4>. QED
        BY <1>1, <2>2, <2>3, <4>2, <4>3
    <3>. QED
      BY <3>2, <3>3
  <2>12. MeantInv'
    <3>1. SUFFICES ASSUME ledger' # Broken, NEW d \in Pending', persists'[d].name \notin unsaved'
                   PROVE  persists'[d].name \in ledger' <=> persists'[d].op = "add"
      BY DEF MeantInv
    <3>2. d = c
      BY <2>2, <2>3, <2>6, <3>1
    <3>. QED
      BY <2>1, <2>2, <2>5, <3>1, <3>2
  <2>. QED
    BY <2>8, <2>9, <2>10, <2>11, <2>12 DEF PersistInv
<1>. QED
  BY <1>2, <1>3

LEMMA LoadNext ==
  ASSUME StateInv, PersistInv, NEW c \in Client, PersistLoad(c)
  PROVE  PersistInv'
<1>. DEFINE name == persists[c].name
            edited == IF persists[c].op = "add" THEN file \cup {name} ELSE file \ {name}
<1>1. /\ persists[c].at = "load" /\ c \in Pending
      /\ UNCHANGED <<file, ledger>>
  BY DEF PersistLoad, Pending
<1>2. /\ file # NoFile /\ ledger # NoFile
      /\ file # Broken => file \in Contents
      /\ ledger # Broken => ledger \in Contents
      /\ name \in Top /\ persists[c].op \in {"add", "remove"}
  BY <1>1, FileFacts DEF PersistInv
<1>3. CASE file = Broken
  <2>1. persists' = [persists EXCEPT ![c] = IdlePersist] /\ unsaved' = unsaved \cup {name}
    BY <1>3 DEF PersistLoad
  <2>2. unsaved = Top => unsaved' = Top
    BY <1>2, <2>1
  <2>3. /\ Pending' = Pending \ {c}
        /\ \A d \in Pending' : persists'[d] = persists[d]
        /\ \A d \in Client : persists'[d].at = "save" => d # c /\ persists'[d] = persists[d]
    BY <2>1, PersistEnds
  <2>4. BrokenInv' /\ SavedInv'
    BY <1>1, <1>3, <2>2 DEF PersistInv, BrokenInv, SavedInv
  <2>5. AloneInv' /\ MeantInv'
    BY <1>1, <2>1, <2>3 DEF PersistInv, AloneInv, MeantInv
  <2>6. LoadedInv'
    <3>1. SUFFICES ASSUME NEW d \in Client, persists'[d].at = "save"
                   PROVE  IF ledger = Broken THEN unsaved' = Top
                          ELSE \A x \in Top \ unsaved' : x \in persists'[d].cfg <=> x \in ledger
      BY <1>1 DEF LoadedInv
    <3>2. persists'[d] = persists[d]
      BY <2>3, <3>1
    <3>3. IF ledger = Broken THEN unsaved = Top
          ELSE \A x \in Top \ unsaved : x \in persists[d].cfg <=> x \in ledger
      BY <3>1, <3>2 DEF PersistInv, LoadedInv
    <3>. QED
      BY <2>1, <2>2, <3>2, <3>3
  <2>. QED
    BY <2>4, <2>5, <2>6 DEF PersistInv
<1>4. CASE file # Broken
  <2>1. /\ persists' = [persists EXCEPT ![c] =
              IF edited # file THEN [persists[c] EXCEPT !.at = "save", !.cfg = edited]
              ELSE IdlePersist]
        /\ unsaved' = unsaved
    BY <1>4 DEF PersistLoad
  <2>2. \A x \in Top : x # name => (x \in edited <=> x \in file)
    OBVIOUS
  <2>3. name \in edited <=> persists[c].op = "add"
    OBVIOUS
  <2>4. CASE edited = file
    <3>1. persists' = [persists EXCEPT ![c] = IdlePersist]
      BY <2>1, <2>4
    <3>2. /\ Pending' = Pending \ {c}
          /\ \A d \in Pending' : persists'[d] = persists[d]
          /\ \A d \in Client : persists'[d].at = "save" => d # c /\ persists'[d] = persists[d]
      BY <3>1, PersistEnds
    <3>3. BrokenInv' /\ AloneInv' /\ LoadedInv' /\ MeantInv'
      BY <1>1, <2>1, <3>2 DEF PersistInv, BrokenInv, AloneInv, LoadedInv, MeantInv
    <3>4. SavedInv'
      <4>1. SUFFICES ASSUME {file, ledger} \cap {Broken, NoFile} = {},
                            NEW x \in Top, x \notin unsaved
                     PROVE  \/ x \in file <=> x \in ledger
                            \/ \E d \in Pending' : persists'[d].name = x
        BY <1>1, <2>1 DEF SavedInv
      <4>2. (x \in file <=> x \in ledger) \/ \E d \in Pending : persists[d].name = x
        BY <4>1 DEF PersistInv, SavedInv
      <4>3. x = name => (x \in file <=> x \in ledger)
        <5>1. x = name => (x \in ledger <=> persists[c].op = "add")
          BY <1>1, <4>1 DEF PersistInv, MeantInv
        <5>. QED
          BY <2>3, <2>4, <5>1
      <4>. QED
        BY <3>2, <4>2, <4>3
    <3>. QED
      BY <3>3, <3>4 DEF PersistInv
  <2>5. CASE edited # file
    <3>1. persists' = [persists EXCEPT ![c] =
                         [persists[c] EXCEPT !.at = "save", !.cfg = edited]]
      BY <2>1, <2>5
    <3>2. persists \in [Client -> [at : {"idle", "load", "save"}, op : {"add", "remove"},
                                   name : Top \cup {None}, cfg : Contents]]
      BY DEF StateInv, TypeOK, ControlOK
    <3>3. /\ \A d \in Client : d # c => persists'[d] = persists[d]
          /\ persists'[c].at = "save" /\ persists'[c].cfg = edited
          /\ persists'[c].name = name /\ persists'[c].op = persists[c].op
      BY <3>1, <3>2
    <3>4. Pending' = Pending /\ \A d \in Client : persists'[d].name = persists[d].name
                                                /\ persists'[d].op = persists[d].op
      BY <1>1, <3>3 DEF Pending
    <3>5. BrokenInv' /\ AloneInv' /\ SavedInv' /\ MeantInv'
      <4>1. Pending \subseteq Client
        BY DEF Pending
      <4>. QED
        BY <1>1, <2>1, <3>4, <4>1 DEF PersistInv, BrokenInv, AloneInv, SavedInv, MeantInv
    <3>6. LoadedInv'
      <4>1. SUFFICES IF ledger = Broken THEN unsaved = Top
                     ELSE \A x \in Top \ unsaved : x \in edited <=> x \in ledger
        BY <1>1, <2>1, <3>3 DEF PersistInv, LoadedInv
      <4>2. CASE ledger = Broken
        BY <1>4, <4>2 DEF PersistInv, BrokenInv
      <4>3. CASE ledger # Broken
        <5>1. SUFFICES ASSUME NEW x \in Top, x \notin unsaved
                       PROVE  x \in edited <=> x \in ledger
          BY <4>3
        <5>2. CASE x = name
          BY <1>1, <2>3, <4>3, <5>1, <5>2 DEF PersistInv, MeantInv
        <5>3. CASE x # name
          <6>1. (x \in file <=> x \in ledger) \/ \E d \in Pending : persists[d].name = x
            BY <1>2, <1>4, <4>3, <5>1 DEF PersistInv, SavedInv
          <6>2. ~\E d \in Pending : persists[d].name = x
            BY <1>1, <5>1, <5>3 DEF PersistInv, AloneInv
          <6>. QED
            BY <2>2, <5>3, <6>1, <6>2
        <5>. QED
          BY <5>2, <5>3
      <4>. QED
        BY <4>2, <4>3
    <3>. QED
      BY <3>5, <3>6 DEF PersistInv
  <2>. QED
    BY <2>4, <2>5
<1>. QED
  BY <1>3, <1>4

LEMMA SaveNext ==
  ASSUME StateInv, PersistInv, NEW c \in Client, PersistSave(c) \/ PersistSaveFails(c)
  PROVE  PersistInv'
<1>1. /\ persists[c].at = "save" /\ c \in Pending /\ ledger' = ledger
      /\ persists' = [persists EXCEPT ![c] = IdlePersist]
  BY DEF PersistSave, PersistSaveFails, Pending, written
<1>2. /\ file # NoFile /\ ledger # NoFile /\ persists[c].name \in Top
  BY <1>1, FileFacts DEF PersistInv
<1>3. /\ Pending' = Pending \ {c}
      /\ \A d \in Pending' : persists'[d] = persists[d]
      /\ \A d \in Client : persists'[d].at = "save" => d # c /\ persists'[d] = persists[d]
  BY <1>1, PersistEnds
<1>4. unsaved \subseteq Top /\ persists[c].cfg \in Contents
  BY DEF StateInv, TypeOK, ControlOK
<1>5. unsaved \subseteq unsaved' /\ unsaved' \subseteq Top
  BY <1>2, <1>4 DEF PersistSave, PersistSaveFails, written
<1>6. IF ledger = Broken THEN unsaved = Top
      ELSE \A x \in Top \ unsaved : x \in persists[c].cfg <=> x \in ledger
  BY <1>1 DEF PersistInv, LoadedInv
<1>7. AloneInv' /\ MeantInv'
  BY <1>1, <1>3, <1>5 DEF PersistInv, AloneInv, MeantInv
<1>8. LoadedInv'
  <2>1. SUFFICES ASSUME NEW d \in Client, persists'[d].at = "save"
                 PROVE  IF ledger = Broken THEN unsaved' = Top
                        ELSE \A x \in Top \ unsaved' : x \in persists'[d].cfg <=> x \in ledger
    BY <1>1 DEF LoadedInv
  <2>2. persists'[d] = persists[d]
    BY <1>3, <2>1
  <2>3. IF ledger = Broken THEN unsaved = Top
        ELSE \A x \in Top \ unsaved : x \in persists[d].cfg <=> x \in ledger
    BY <2>1, <2>2 DEF PersistInv, LoadedInv
  <2>. QED
    BY <1>5, <2>2, <2>3
<1>9. CASE PersistSave(c)
  <2>1. file' = persists[c].cfg /\ unsaved' = unsaved
    BY <1>9 DEF PersistSave, written
  <2>2. file' \notin {Broken, NoFile}
    BY <1>4, <2>1, ValueAssumption
  <2>3. BrokenInv' /\ SavedInv'
    BY <1>1, <1>2, <1>6, <2>1, <2>2 DEF BrokenInv, SavedInv
  <2>. QED
    BY <1>7, <1>8, <2>3 DEF PersistInv
<1>10. CASE PersistSaveFails(c)
  <2>1. CASE file' = file /\ unsaved' = unsaved \cup {persists[c].name}
    <3>1. BrokenInv'
      BY <1>1, <1>5, <2>1 DEF PersistInv, BrokenInv
    <3>2. SavedInv'
      <4>1. SUFFICES ASSUME {file, ledger} \cap {Broken, NoFile} = {},
                            NEW x \in Top, x \notin unsaved, x # persists[c].name
                     PROVE  \/ x \in file <=> x \in ledger
                            \/ \E d \in Pending' : persists'[d].name = x
        BY <1>1, <2>1 DEF SavedInv
      <4>2. (x \in file <=> x \in ledger) \/ \E d \in Pending : persists[d].name = x
        BY <4>1 DEF PersistInv, SavedInv
      <4>. QED
        BY <1>3, <4>1, <4>2
    <3>. QED
      BY <1>7, <1>8, <3>1, <3>2 DEF PersistInv
  <2>2. CASE file' \in {{}, Broken} /\ unsaved' = Top
    <3>1. {} # NoFile /\ Broken # NoFile
      BY ValueAssumption DEF Contents
    <3>2. BrokenInv' /\ SavedInv'
      BY <1>1, <1>2, <2>2, <3>1 DEF BrokenInv, SavedInv
    <3>. QED
      BY <1>7, <1>8, <3>2 DEF PersistInv
  <2>. QED
    BY <1>10, <2>1, <2>2 DEF PersistSaveFails
<1>. QED
  BY <1>9, <1>10

LEMMA EditNext ==
  ASSUME StateInv, PersistInv, EditFile
  PROVE  PersistInv'
<1>1. /\ ledger' = file' /\ persists' = persists
      /\ file # NoFile /\ file' \in {Broken} \cup (Contents \ {{}})
  BY DEF EditFile
<1>2. file' # NoFile /\ Pending' = Pending
  BY <1>1, ValueAssumption DEF Pending
<1>3. \A c \in Pending : persists[c].name \in unsaved'
  <2>1. SUFFICES ASSUME NEW c \in Pending PROVE persists[c].name \in unsaved'
    OBVIOUS
  <2>2. persists[c].name \in Top /\ persists[c].at \in {"load", "save"} /\ c \in Client
    BY FileFacts DEF PersistInv, Pending
  <2>3. CASE \E d \in Client : persists[d].at = "save"
    BY <2>2, <2>3 DEF EditFile
  <2>4. CASE ~\E d \in Client : persists[d].at = "save"
    <3>1. persists[c].at = "load"
      BY <2>2, <2>4
    <3>2. unsaved' = {persists[d].name : d \in {d \in Client : persists[d].at = "load"}}
      BY <2>4 DEF EditFile
    <3>. QED
      BY <2>2, <3>1, <3>2
  <2>. QED
    BY <2>3, <2>4
<1>4. (\E d \in Client : persists[d].at = "save") => unsaved' = Top
  BY DEF EditFile
<1>. QED
  BY <1>1, <1>2, <1>3, <1>4
     DEF PersistInv, BrokenInv, AloneInv, LoadedInv, SavedInv, MeantInv

LEMMA PersistNext ==
  ASSUME StateInv, PersistInv, Next
  PROVE  PersistInv'
<1>1. CASE UNCHANGED <<file, written, persists>>
  BY <1>1 DEF PersistInv, BrokenInv, AloneInv, LoadedInv, SavedInv, MeantInv, Pending, written
<1>2. CASE \/ Resolve \/ WatchStart \/ WatchTick \/ ReloadLoad \/ ReloadRequest
           \/ \E r \in Reloader : ReloadLock(r)
           \/ ReloadStep
           \/ \E n \in Child : RpcRemoveChild(n)
           \/ \E n \in Top : Apply(n) \/ HandOver(n)
           \/ ReleaseBySource \/ ReleaseNext \/ OthersChange
  <2>1. UNCHANGED <<file, written, persists>>
    BY <1>2 DEF Resolve, WatchStart, WatchTick, ReloadRequest, ReloadLoad, LoadFrame,
       ReloadLock, ReloadStep, ReloadRemove, ReloadSnapshot, ReloadRunning, ReloadReadd,
       ReaddRemove, ReaddAdd, ReloadForget, ReloadAdd, ReloadUnlock, ReloadFrame,
       RpcRemoveChild, Apply, HandOver, RequestFrame, ReleaseBySource, ReleaseNext,
       OthersChange, history
  <2>. QED
    BY <1>1, <2>1
<1>3. CASE \E c \in Client :
             \/ \E n \in Top, p \in BOOLEAN : RpcAdd(c, n, p) \/ RpcRemove(c, n, p)
             \/ PersistLoad(c) \/ PersistSave(c) \/ PersistSaveFails(c)
  BY <1>3, BeginNext, LoadNext, SaveNext
<1>. QED
  BY <1>2, <1>3, EditNext DEF Next

-----------------------------------------------------------------------------
(* The release of what a delegate contributed.                             *)

(* What the removal of a service would remove, it still would after a step *)
(* that has not removed it.                                                *)
LEMMA CoverRemoved ==
  ASSUME StateInv, NEW n \in Name, RemoveService(n),
         NEW x \in Name, forwards'[x] # None
  PROVE  /\ forwards'[x] = forwards[x] /\ x \notin Removes(n)
         /\ \A t \in Top : x \in Removes(t) => x \in Removes(t)'
<1>1. forwards'[x] = IF x \in Removes(n) THEN None ELSE forwards[x]
  BY RemoveFacts
<1>2. forwards'[x] = forwards[x] /\ x \notin Removes(n)
  BY <1>1
<1>3. \A t : t # n /\ Parent(t) => Parent(t)' /\ children'[t] = children[t]
  BY RemoveFacts DEF Parents, Parent
<1>4. \A t \in Top : x \in Removes(t) => x \in Removes(t)'
  BY <1>2, <1>3 DEF Removes
<1>. QED
  BY <1>2, <1>4

LEMMA CoverAdded ==
  ASSUME StateInv, NEW n \in Top, AddService(n, Native),
         NEW x \in Name, forwards'[x] \in {Delegate, Untraced}
  PROVE  /\ forwards'[x] = forwards[x]
         /\ \A t \in Top : x \in Removes(t) => x \in Removes(t)'
<1>1. Native # Delegate /\ Native \in Source /\ Native # Untraced
  BY ValueAssumption DEF Source
<1>2. forwards' \in {forwards, [forwards EXCEPT ![n] = Native]}
  BY DEF AddService, directory
<1>3. forwards'[x] = forwards[x]
  BY <1>1, <1>2 DEF StateInv, TypeOK, DirectoryOK
<1>4. \A m \in Parents : m \in Parents' /\ children'[m] = children[m]
  BY <1>1, AddFacts
<1>5. \A t \in Top : x \in Removes(t) => x \in Removes(t)'
  BY <1>4 DEF Removes, Parents, Parent
<1>. QED
  BY <1>3, <1>5

LEMMA CoverResolved ==
  ASSUME StateInv, NEW m \in Multi, NEW s \in Source,
         ResolveSucceeds(m, s) \/ ResolveFails(m, s),
         NEW x \in Name
  PROVE  /\ forwards'[x] = Delegate =>
                forwards[x] = Delegate \/ (s = Delegate /\ x \in ChildrenOf[m])
         /\ forwards'[x] = Untraced =>
                forwards[x] = Untraced \/ (s = Delegate /\ x = m)
         /\ \A t \in Top : x \in Removes(t) => x \in Removes(t)'
<1>1. Native # Delegate /\ Native # Untraced /\ Untraced # Delegate /\ s # Untraced
      /\ m \in Name
  BY ValueAssumption, MultiAssumption DEF Source, Name
<1>2. \/ forwards' = forwards
      \/ /\ forwards' = [n \in Name |->
                            IF n \in ChildrenOf[m] \ Registered THEN s ELSE forwards[n]]
      \/ forwards' = [forwards EXCEPT ![m] = IF s = Delegate THEN Untraced ELSE Native]
  BY DEF ResolveSucceeds, ResolveFails
<1>3. forwards \in [Name -> Entry]
  BY DEF StateInv, TypeOK, DirectoryOK
<1>4. /\ forwards'[x] = Delegate =>
             forwards[x] = Delegate \/ (s = Delegate /\ x \in ChildrenOf[m])
      /\ forwards'[x] = Untraced => forwards[x] = Untraced \/ (s = Delegate /\ x = m)
  <2>1. CASE forwards' = forwards
    BY <2>1
  <2>2. CASE forwards' = [n \in Name |->
                            IF n \in ChildrenOf[m] \ Registered THEN s ELSE forwards[n]]
    BY <1>1, <2>2
  <2>3. CASE forwards' = [forwards EXCEPT ![m] = IF s = Delegate THEN Untraced ELSE Native]
    BY <1>1, <1>3, <2>3
  <2>. QED
    BY <1>2, <2>1, <2>2, <2>3
<1>5. /\ Parents' = Parents
      /\ \A t \in Parents : children'[t] = children[t] \/ children'[t] = ChildrenOf[t]
  BY ResolveFacts
<1>6. \A t \in Parents : children[t] \subseteq children'[t]
  BY <1>5, ChildrenFacts DEF Parents
<1>7. \A t \in Top : x \in Removes(t) => x \in Removes(t)'
  BY <1>5, <1>6 DEF Removes, Parents, Parent
<1>. QED
  BY <1>4, <1>7

(* Only a resolution that fails leaves an entry without its source.        *)
LEMMA UntracedNext ==
  ASSUME StateInv, UntracedInv, Next
  PROVE  UntracedInv'
<1>1. SUFFICES ASSUME NEW x \in Name, forwards'[x] = Untraced
               PROVE  x \in Multi
  BY DEF UntracedInv
<1>2. Untraced # None /\ Untraced \notin Source
  BY EntryFacts
<1>3. CASE UNCHANGED directory
  BY <1>1, <1>3 DEF UntracedInv, directory
<1>4. CASE Adds
  <2>1. PICK n \in Top, s \in Source : AddService(n, s)
    BY <1>4 DEF Adds
  <2>2. forwards' \in {forwards, [forwards EXCEPT ![n] = s]}
    BY <2>1 DEF AddService, directory
  <2>. QED
    BY <1>1, <1>2, <2>2 DEF UntracedInv, StateInv, TypeOK, DirectoryOK
<1>5. CASE Drops
  <2>1. PICK n \in Name : RemoveService(n)
    BY <1>5 DEF Drops
  <2>. QED
    BY <1>1, <1>2, <2>1, CoverRemoved DEF UntracedInv
<1>6. CASE Resolves
  <2>1. PICK m \in Multi, s \in Source : ResolveSucceeds(m, s) \/ ResolveFails(m, s)
    BY <1>6 DEF Resolves
  <2>. QED
    BY <1>1, <2>1, CoverResolved DEF UntracedInv
<1>. QED
  BY <1>3, <1>4, <1>5, <1>6, DirectorySteps

LEMMA ReleaseInvNext ==
  ASSUME StateInv, UntracedInv, ReleaseInv, Next
  PROVE  ReleaseInv'
<1>1. SUFFICES ASSUME release'.at # "active"
               PROVE  /\ \A x \in resolving' : x[2] = Delegate => x[1] \in release'.missed
                      /\ \A n \in Name : forwards'[n] = Untraced => n \in release'.missed
                      /\ \A n \in Name : forwards'[n] = Delegate => Covered(n)'
                      /\ release'.at = "gone" => release'.todo = {}
  BY DEF ReleaseInv
<1>2. release \in [at : {"active", "releasing", "gone"}, todo : SUBSET Top,
                   missed : SUBSET Multi]
      /\ Top \subseteq Name
  BY DEF StateInv, TypeOK, ControlOK, Name
<1>3. Delegate # None /\ Untraced # None /\ Native # Delegate /\ Native \in Source
  BY ValueAssumption DEF Source
<1>4. CASE ReleaseBySource
  <2>1. /\ release' = [at |-> "releasing",
                       todo |-> {TopOf(n) : n \in {x \in Name : forwards[x] = Delegate}},
                       missed |-> Untraceable]
        /\ forwards' = forwards /\ children' = children /\ resolving' = resolving
    BY <1>4 DEF ReleaseBySource, directory
  <2>2. \A x \in resolving' : x[2] = Delegate => x[1] \in release'.missed
    BY <2>1 DEF Untraceable
  <2>3. \A n \in Name : forwards'[n] = Untraced => n \in release'.missed
    BY <2>1 DEF Untraceable, UntracedInv
  <2>4. \A n \in Name : forwards'[n] = Delegate => Covered(n)'
    <3>1. \A n \in Name : forwards[n] = Delegate => n \in Removes(TopOf(n))
      BY <1>3, TopOfFacts DEF Registered
    <3>2. \A t : Removes(t)' = Removes(t)
      BY <2>1 DEF Removes, Parent
    <3>. QED
      BY <2>1, <3>1, <3>2 DEF Covered
  <2>. QED
    BY <2>1, <2>2, <2>3, <2>4
<1>5. ASSUME release.at # "active"
      PROVE  /\ \A x \in resolving : x[2] = Delegate => x[1] \in release.missed
             /\ \A n \in Name : forwards[n] = Untraced => n \in release.missed
             /\ \A n \in Name : forwards[n] = Delegate => Covered(n)
             /\ release.at = "gone" => release.todo = {}
  BY <1>5 DEF ReleaseInv
<1>6. CASE ReleaseNext
  <2>1. release.at = "releasing"
    BY <1>6 DEF ReleaseNext
  <2>2. CASE release.todo = {}
    <3>1. release' = [release EXCEPT !.at = "gone"] /\ UNCHANGED directory
      BY <1>6, <2>2 DEF ReleaseNext
    <3>2. release'.todo = {} /\ release'.missed = release.missed /\ release.todo = {}
      BY <1>2, <2>2, <3>1
    <3>3. forwards' = forwards /\ children' = children /\ resolving' = resolving
      BY <3>1 DEF directory
    <3>4. \A n : Covered(n) => Covered(n)'
      BY <3>2 DEF Covered
    <3>. QED
      BY <1>5, <2>1, <3>2, <3>3, <3>4
  <2>3. CASE release.todo # {}
    <3>1. PICK n \in release.todo :
            RemoveService(n) /\ release' = [release EXCEPT !.todo = @ \ {n}]
      BY <1>6, <2>3 DEF ReleaseNext
    <3>2. /\ n \in Name /\ release.todo \subseteq Top /\ release'.missed = release.missed
          /\ release'.todo = release.todo \ {n} /\ release'.at = "releasing"
      BY <1>2, <2>1, <3>1
    <3>3. resolving' = resolving
      BY <3>1 DEF RemoveService
    <3>4. ASSUME NEW x \in Name, forwards'[x] = Delegate
          PROVE  Covered(x)'
      <4>1. /\ forwards[x] = Delegate /\ x \notin Removes(n)
            /\ \A t \in Top : x \in Removes(t) => x \in Removes(t)'
        BY <1>3, <3>1, <3>2, <3>4, CoverRemoved
      <4>2. Covered(x)
        BY <1>5, <2>1, <4>1
      <4>. QED
        BY <3>2, <4>1, <4>2 DEF Covered
    <3>5. ASSUME NEW x \in Name, forwards'[x] = Untraced
          PROVE  forwards[x] = Untraced
      BY <1>3, <3>1, <3>2, <3>5, CoverRemoved
    <3>. QED
      BY <1>5, <2>1, <3>2, <3>3, <3>4, <3>5
  <2>. QED
    BY <2>2, <2>3
<1>7. CASE ~ReleaseBySource /\ ~ReleaseNext
  <2>1. release' = release
    BY <1>7 DEF Next, Resolve, WatchStart, WatchTick, ReloadRequest, ReloadLoad, LoadFrame,
       ReloadLock, ReloadStep, ReloadRemove, ReloadSnapshot, ReloadRunning, ReloadReadd,
       ReaddRemove, ReaddAdd, ReloadForget, ReloadAdd, ReloadUnlock, ReloadFrame, RpcAdd,
       RpcRemove, RpcRemoveChild, PersistLoad, PersistSave, PersistSaveFails, Apply, HandOver,
       EditFile, OthersChange
  <2>2. /\ release.at # "active" /\ release.todo \subseteq Top
        /\ \A x \in resolving : x[2] = Delegate => x[1] \in release.missed
        /\ \A n \in Name : forwards[n] = Untraced => n \in release.missed
        /\ \A n \in Name : forwards[n] = Delegate => Covered(n)
        /\ release'.at = "gone" => release'.todo = {}
    BY <1>1, <1>2, <1>5, <2>1
(* A service stays covered by what is left or has been missed.             *)
  <2>3. ASSUME NEW x, Covered(x), \A t \in Top : x \in Removes(t) => x \in Removes(t)'
        PROVE  Covered(x)'
    BY <2>1, <2>2, <2>3 DEF Covered
  <2>4. CASE UNCHANGED directory
    <3>1. \A t : Removes(t)' = Removes(t)
      BY <2>4 DEF directory, Removes, Parent
    <3>2. forwards' = forwards /\ resolving' = resolving
      BY <2>4 DEF directory
    <3>. QED
      BY <2>1, <2>2, <2>3, <3>1, <3>2
  <2>5. CASE Drops
    <3>1. PICK n \in Name : RemoveService(n)
      BY <2>5 DEF Drops
    <3>2. resolving' = resolving
      BY <3>1 DEF RemoveService
    <3>3. ASSUME NEW x \in Name, forwards'[x] \in {Delegate, Untraced}
          PROVE  /\ forwards'[x] = forwards[x]
                 /\ \A t \in Top : x \in Removes(t) => x \in Removes(t)'
      BY <1>3, <3>1, <3>3, CoverRemoved
    <3>. QED
      BY <2>1, <2>2, <2>3, <3>2, <3>3
  <2>6. CASE Adds
    <3>1. PICK n \in Top, s \in Source : AddService(n, s) /\ s # Delegate
      BY <2>2, <2>6 DEF Adds
    <3>2. AddService(n, Native)
      BY <3>1 DEF Source
    <3>3. resolving' \subseteq resolving \cup {<<n, Native>>}
      BY <3>2 DEF AddService, directory
    <3>4. \A x \in resolving' : x[2] = Delegate => x[1] \in release'.missed
      BY <1>3, <2>1, <2>2, <3>3
    <3>5. ASSUME NEW x \in Name, forwards'[x] \in {Delegate, Untraced}
          PROVE  /\ forwards'[x] = forwards[x]
                 /\ \A t \in Top : x \in Removes(t) => x \in Removes(t)'
      BY <3>2, <3>5, CoverAdded
    <3>. QED
      BY <2>1, <2>2, <2>3, <3>4, <3>5
  <2>7. CASE Resolves
    <3>1. PICK m \in Multi, s \in Source :
            /\ <<m, s>> \in resolving
            /\ ResolveSucceeds(m, s) \/ ResolveFails(m, s)
      BY <2>7 DEF Resolves
    <3>2. s = Delegate => m \in release.missed
      BY <2>2, <3>1
    <3>3. resolving' \subseteq resolving
      BY <3>1 DEF ResolveSucceeds, ResolveFails
    <3>4. ASSUME NEW x \in Name, forwards'[x] = Untraced
          PROVE  x \in release'.missed
      <4>1. forwards[x] = Untraced \/ (s = Delegate /\ x = m)
        BY <3>1, <3>4, CoverResolved
      <4>. QED
        BY <2>1, <2>2, <3>2, <4>1
    <3>5. ASSUME NEW x \in Name, forwards'[x] = Delegate
          PROVE  Covered(x)'
      <4>1. /\ forwards[x] = Delegate \/ (s = Delegate /\ x \in ChildrenOf[m])
            /\ \A t \in Top : x \in Removes(t) => x \in Removes(t)'
        BY <3>1, <3>5, CoverResolved
      <4>2. CASE forwards[x] = Delegate
        BY <2>2, <2>3, <4>1, <4>2
      <4>3. CASE s = Delegate /\ x \in ChildrenOf[m]
        BY <2>1, <3>2, <4>3 DEF Covered
      <4>. QED
        BY <4>1, <4>2, <4>3
    <3>. QED
      BY <2>1, <2>2, <3>3, <3>4, <3>5
  <2>. QED
    BY <2>4, <2>5, <2>6, <2>7, DirectorySteps
<1>. QED
  BY <1>4, <1>6, <1>7

-----------------------------------------------------------------------------
(* How far a reload has got.                                               *)

(* A step of another actor that is no request: what the reload has come to *)
(* is not touched, and no forward goes.                                    *)
Quiet == \/ Resolve \/ WatchStart \/ WatchTick \/ ReloadLoad \/ ReloadRequest
         \/ \E c \in Client : PersistLoad(c) \/ PersistSave(c) \/ PersistSaveFails(c)
         \/ ReleaseBySource \/ EditFile \/ OthersChange

LEMMA QuietSteps ==
  ASSUME StateInv, Quiet
  PROVE  /\ UNCHANGED <<diff, reloadMu, external, disturbed, Served>>
         /\ Registered \subseteq Registered'
         /\ reloadMu # None => reloads'[reloadMu] = reloads[reloadMu]
<1>1. UNCHANGED <<diff, reloadMu, external, disturbed>>
  BY DEF Quiet, Resolve, WatchStart, WatchTick, ReloadRequest, ReloadLoad, LoadFrame,
     PersistLoad, PersistSave, PersistSaveFails, ReleaseBySource, EditFile, OthersChange,
     history
<1>2. Served' = Served /\ Registered \subseteq Registered'
  <2>1. CASE Resolve
    <3>1. PICK x \in resolving : ResolveSucceeds(x[1], x[2]) \/ ResolveFails(x[1], x[2])
      BY <2>1 DEF Resolve
    <3>2. x[1] \in Multi /\ x[2] \in Source
      BY DEF StateInv, TypeOK, DirectoryOK
    <3>. QED
      BY <3>1, <3>2, ResolveFacts
  <2>2. CASE ~Resolve
    <3>1. UNCHANGED directory
      BY <2>2 DEF Quiet, WatchStart, WatchTick, ReloadRequest, ReloadLoad, LoadFrame,
         PersistLoad, PersistSave, PersistSaveFails, ReleaseBySource, EditFile, OthersChange
    <3>. QED
      BY <3>1 DEF directory, Served, Registered, Parent
  <2>. QED
    BY <2>1, <2>2
<1>3. reloadMu # None => reloads'[reloadMu] = reloads[reloadMu]
  <2>1. SUFFICES ASSUME reloadMu # None PROVE reloads'[reloadMu] = reloads[reloadMu]
    OBVIOUS
  <2>2. /\ reloadMu \in Reloader /\ reloads[reloadMu].at = "loaded"
        /\ reloads \in [Reloader -> [at : {"idle", "load", "loaded"},
                                     cfg : Contents, version : Nat]]
    BY <2>1 DEF StateInv, MutexInv, TypeOK, ControlOK
  <2>3. CASE UNCHANGED reloads
    BY <2>3
  <2>4. CASE WatchTick
    BY <2>2, <2>4 DEF WatchTick
  <2>5. CASE ReloadRequest
    BY <2>2, <2>5 DEF ReloadRequest, Load
  <2>6. CASE ReloadLoad
    BY <2>2, <2>6 DEF ReloadLoad, Load
  <2>7. CASE \/ Resolve \/ WatchStart
             \/ \E c \in Client : PersistLoad(c) \/ PersistSave(c) \/ PersistSaveFails(c)
             \/ ReleaseBySource \/ EditFile \/ OthersChange
    BY <2>7 DEF Resolve, WatchStart, PersistLoad, PersistSave, PersistSaveFails,
       ReleaseBySource, EditFile, OthersChange
  <2>. QED
    BY <2>4, <2>5, <2>6, <2>7 DEF Quiet
<1>. QED
  BY <1>1, <1>2, <1>3

(* A request leaves its mark on a reload under way.                        *)
Requests == \/ \E c \in Client, n \in Top, p \in BOOLEAN : RpcAdd(c, n, p) \/ RpcRemove(c, n, p)
            \/ \E n \in Child : RpcRemoveChild(n)
            \/ \E n \in Top : Apply(n) \/ HandOver(n)
            \/ ReleaseNext

LEMMA RequestSteps ==
  ASSUME Requests
  PROVE  /\ disturbed' = (reloadMu # None)
         /\ UNCHANGED <<diff, reloadMu, external, reloads>>
BY DEF Requests, RpcAdd, RpcRemove, RpcRemoveChild, Apply, HandOver, ReleaseNext, RequestFrame,
   Disturb

(* The steps of Next, by whose they are.                                   *)
LEMMA NextSteps ==
  ASSUME Next
  PROVE  Quiet \/ Requests \/ ReloadStep \/ \E r \in Reloader : ReloadLock(r)
BY DEF Next, Quiet, Requests

LEMMA ReloadSteps ==
  ASSUME StateInv, ReloadStep
  PROVE  /\ reloadMu # None /\ Cfg \subseteq Top /\ diff.at # "none"
         /\ ReloadUnlock \/ (disturbed' = disturbed /\ UNCHANGED <<reloads, reloadMu, Cfg>>)
<1>1. reloadMu # None
  BY DEF ReloadStep, ReloadRemove, ReloadSnapshot, ReloadRunning, ReloadReadd,
     ReaddRemove, ReaddAdd, ReloadForget, ReloadAdd, ReloadUnlock, ReloadFrame
<1>2. diff.at # "none" /\ Cfg \subseteq Top
  BY <1>1, CfgFacts DEF StateInv, MutexInv
<1>3. ReloadUnlock \/ (disturbed' = disturbed /\ UNCHANGED <<reloads, reloadMu>>)
  BY DEF ReloadStep, ReloadRemove, ReloadSnapshot, ReloadRunning, ReloadReadd,
     ReaddRemove, ReaddAdd, ReloadForget, ReloadAdd, ReloadFrame
<1>. QED
  BY <1>1, <1>2, <1>3 DEF Cfg

LEMMA ProgressNext ==
  ASSUME StateInv, ChildrenListed, ProgressInv, Next
  PROVE  ProgressInv'
<1>1. SUFFICES ASSUME reloadMu' # None, ~disturbed', "child" \notin excused'
               PROVE  ProgressInv'
  BY DEF ProgressInv
<1>2. "child" \notin excused
  BY <1>1, ExcusedGrows
<1>3. \A m \in Multi : m \notin Phase
  BY ValueAssumption
<1>4. CASE Quiet
  <2>1. /\ UNCHANGED <<diff, reloadMu, external, disturbed, Served>>
        /\ Registered \subseteq Registered'
        /\ reloadMu # None => reloads'[reloadMu] = reloads[reloadMu]
    BY <1>4, QuietSteps
  <2>2. Cfg' = Cfg /\ Snapshot' = Snapshot
    BY <1>1, <2>1 DEF Cfg, Snapshot
  <2>3. reloadMu # None /\ ~disturbed
    BY <1>1, <2>1
  <2>4. \A n : PortTaken(n) => PortTaken(n)'
    BY <2>1, TakenStays
  <2>. QED
    BY <1>2, <2>1, <2>2, <2>3, <2>4 DEF ProgressInv
<1>5. CASE Requests
  BY <1>1, <1>5, RequestSteps
<1>6. ASSUME NEW r \in Reloader, ReloadLock(r)
      PROVE  ProgressInv'
  <2>1. diff' = [NoDiff EXCEPT !.at = "newly", !.todo = external' \ external]
    BY <1>6 DEF ReloadLock
  <2>2. diff'.at = "newly"
    BY <2>1 DEF NoDiff
  <2>3. "newly" \notin Multi
    BY <1>3 DEF Phase
  <2>. QED
    BY <2>2, <2>3 DEF ProgressInv
<1>7. CASE ReloadStep
  <2>1. /\ reloadMu # None /\ Cfg \subseteq Top
        /\ ReloadUnlock \/ (disturbed' = disturbed /\ UNCHANGED <<reloads, reloadMu, Cfg>>)
    BY <1>7, ReloadSteps
  <2>2. ~ReloadUnlock
    BY <1>1 DEF ReloadUnlock
  <2>3. Cfg' = Cfg
    BY <2>1, <2>2
  <2>4. ~disturbed
    BY <1>1, <2>1, <2>2
  <2>5. /\ diff.at \in {"parents", "running"} =>
              /\ Served \subseteq Snapshot
              /\ Snapshot \cap Cfg \subseteq Served
              /\ diff.todo \cap Cfg = {}
        /\ diff.at = "parents" => (Served \cap Multi) \ Cfg \subseteq diff.todo
        /\ diff.at = "running" => Served \ Cfg \subseteq diff.todo
        /\ diff.at = "readd" => Served = Snapshot \cap Cfg
        /\ diff.at \in Multi => Served = (Snapshot \cap Cfg) \ {diff.at}
        /\ diff.at = "add" => /\ Served \subseteq Cfg
                              /\ \A n \in Cfg \ external :
                                    n \in Served \cup diff.todo \/ PortTaken(n)
    BY <1>2, <2>1, <2>4 DEF ProgressInv
  <2>6. diff \in [at : Phase \cup Multi, running : SUBSET Name,
                  parents : SUBSET Multi, todo : SUBSET Name]
    BY DEF StateInv, TypeOK, ControlOK
  <2>7. "newly" \notin Multi /\ "parents" \notin Multi /\ "running" \notin Multi
        /\ "readd" \notin Multi /\ "add" \notin Multi
    BY <1>3 DEF Phase
  <2>8. Multi \subseteq Top /\ Top \subseteq Name
    BY MultiAssumption DEF Name
  <2>9. CASE ReloadRemove
    <3>1. PICK n \in diff.todo : /\ RemoveService(n)
                                 /\ diff' = [diff EXCEPT !.todo = @ \ {n}]
      BY <2>9 DEF ReloadRemove
    <3>2. diff.at \in {"newly", "parents", "running"}
      BY <2>9 DEF ReloadRemove
    <3>3. n \in Name
      BY <2>6
    <3>4. Served' = Served \ {n}
      BY <3>1, <3>3, RemoveFacts
    <3>5. diff'.at = diff.at /\ diff'.todo = diff.todo \ {n} /\ Snapshot' = Snapshot
      BY <2>6, <3>1 DEF Snapshot
    <3>6. CASE diff.at = "newly"
      BY <2>7, <3>5, <3>6 DEF ProgressInv
    <3>7. CASE diff.at = "parents"
      BY <2>3, <2>5, <2>7, <3>4, <3>5, <3>7 DEF ProgressInv
    <3>8. CASE diff.at = "running"
      BY <2>3, <2>5, <2>7, <3>4, <3>5, <3>8 DEF ProgressInv
    <3>. QED
      BY <3>2, <3>6, <3>7, <3>8
  <2>10. CASE ReloadSnapshot
    <3>1. /\ diff' = [at |-> "parents", running |-> Registered, parents |-> Parents,
                      todo |-> Parents \ Cfg]
          /\ UNCHANGED directory
      BY <2>10 DEF ReloadSnapshot
    <3>2. Served' = Served
      BY <3>1 DEF directory, Served, Registered, Parent
    <3>3. Snapshot' = Served
      BY <2>8, <3>1 DEF Snapshot, Served, Registered, Parents, Parent
    <3>4. diff'.at = "parents" /\ diff'.todo = Parents \ Cfg
      BY <3>1
    <3>5. Served \cap Multi \subseteq Parents
      BY DEF Served, Parents, StateInv, DirInv
    <3>6. Parents \subseteq Multi
      BY DEF Parents
    <3>. QED
      BY <2>3, <2>7, <3>2, <3>3, <3>4, <3>5 DEF ProgressInv
  <2>11. CASE ReloadRunning
    <3>1. /\ diff' = [diff EXCEPT !.at = "running",
                !.todo = (diff.running \ Cfg) \ UNION {children[m] : m \in Parents}]
          /\ UNCHANGED directory /\ diff.at = "parents" /\ diff.todo = {}
      BY <2>11 DEF ReloadRunning
    <3>2. Served' = Served
      BY <3>1 DEF directory, Served, Registered, Parent
    <3>3. /\ diff'.at = "running" /\ Snapshot' = Snapshot
          /\ diff'.todo = (diff.running \ Cfg) \ UNION {children[m] : m \in Parents}
      BY <2>6, <3>1 DEF Snapshot
    <3>4. \A n \in Top : n \notin UNION {children[m] : m \in Parents}
      BY ChildrenFacts, MultiAssumption DEF Parents
    <3>5. Served \cap Multi \subseteq Cfg /\ Served \subseteq Top
      BY <2>5, <3>1 DEF Served
    <3>6. ASSUME NEW n \in Served, n \notin Cfg PROVE n \in diff'.todo
      <4>1. n \notin Multi /\ n \in Top
        BY <3>5, <3>6
      <4>2. n \in diff.running
        BY <2>5, <2>6, <3>1, <3>6, <4>1 DEF Snapshot
      <4>. QED
        BY <3>3, <3>4, <3>6, <4>1, <4>2
    <3>7. diff'.todo \cap Cfg = {}
      BY <3>3
    <3>8. Served \subseteq Snapshot /\ Snapshot \cap Cfg \subseteq Served
      BY <2>5, <3>1
    <3>. QED
      BY <2>3, <2>7, <3>2, <3>3, <3>6, <3>7, <3>8 DEF ProgressInv
  <2>12. CASE ReloadReadd
    <3>1. /\ diff' = [diff EXCEPT !.at = "readd", !.todo = Cfg \cap diff.parents]
          /\ UNCHANGED directory /\ diff.at = "running" /\ diff.todo = {}
      BY <2>12 DEF ReloadReadd
    <3>2. Served' = Served
      BY <3>1 DEF directory, Served, Registered, Parent
    <3>3. diff'.at = "readd" /\ Snapshot' = Snapshot
      BY <2>6, <3>1 DEF Snapshot
    <3>4. Served = Snapshot \cap Cfg
      BY <2>5, <3>1
    <3>. QED
      BY <2>3, <2>7, <3>2, <3>3, <3>4 DEF ProgressInv
  <2>13. CASE ReaddRemove
    <3>1. PICK n \in diff.todo :
            /\ RemoveService(n)
            /\ diff' = IF RemoveFails(n) THEN [diff EXCEPT !.todo = @ \ {n}]
                       ELSE [diff EXCEPT !.at = n]
      BY <2>13 DEF ReaddRemove
    <3>2. diff.at = "readd"
      BY <2>13 DEF ReaddRemove
    <3>3. n \in Cfg \cap diff.parents /\ n \in Multi /\ n \in Name
      BY <2>6, <2>8, <3>2 DEF StateInv, ReaddInv
    <3>4. Served = Snapshot \cap Cfg /\ n \in Served
      BY <2>5, <3>2, <3>3 DEF Snapshot
    <3>5. Parent(n) /\ n \in Parents
      BY <3>3, <3>4 DEF Served, Parents, StateInv, DirInv
    <3>6. ~RemoveFails(n)
      BY <1>2, <3>5 DEF RemoveFails, ChildrenListed
    <3>7. Served' = Served \ {n}
      BY <3>1, <3>3, RemoveFacts
    <3>8. diff'.at = n /\ Snapshot' = Snapshot
      BY <2>6, <3>1, <3>3, <3>6 DEF Snapshot
    <3>. QED
      BY <2>3, <2>7, <3>3, <3>4, <3>7, <3>8 DEF ProgressInv
  <2>14. CASE ReaddAdd
    <3>1. /\ diff.at \in Multi /\ AddService(diff.at, Native)
          /\ diff' = [diff EXCEPT !.at = "readd", !.todo = @ \ {diff.at}]
      BY <2>14 DEF ReaddAdd
    <3>2. Served' = Served \cup {diff.at}
      BY <2>8, <3>1, AddFacts DEF Source
    <3>3. diff'.at = "readd" /\ Snapshot' = Snapshot
      BY <2>6, <3>1 DEF Snapshot
    <3>4. diff.at \in Snapshot \cap Cfg
      BY <3>1 DEF StateInv, ReaddInv, Snapshot
    <3>. QED
      BY <2>3, <2>5, <2>7, <3>1, <3>2, <3>3, <3>4 DEF ProgressInv
  <2>15. CASE ReloadForget
    <3>1. /\ external' = external \cap Cfg
          /\ diff' = [diff EXCEPT !.at = "add",
                                  !.todo = Cfg \ (diff.running \cup diff.parents)]
          /\ UNCHANGED directory /\ diff.at = "readd"
      BY <2>15 DEF ReloadForget
    <3>2. Served' = Served
      BY <3>1 DEF directory, Served, Registered, Parent
    <3>3. diff'.at = "add" /\ diff'.todo = Cfg \ (diff.running \cup diff.parents)
      BY <2>6, <3>1
    <3>4. Cfg \subseteq Snapshot \cup diff'.todo
      BY <2>1, <3>3 DEF Snapshot
    <3>. QED
      BY <2>3, <2>5, <2>7, <3>1, <3>2, <3>3, <3>4 DEF ProgressInv
  <2>16. CASE ReloadAdd
    <3>1. PICK n \in diff.todo :
            /\ IF n \in external THEN UNCHANGED directory ELSE AddService(n, Native)
            /\ diff' = [diff EXCEPT !.todo = @ \ {n}]
      BY <2>16 DEF ReloadAdd
    <3>2. diff.at = "add" /\ external' = external
      BY <2>16 DEF ReloadAdd
    <3>3. n \in Cfg /\ n \in Top
      BY <2>1, <3>2 DEF StateInv, ReaddInv
    <3>4. diff'.at = "add" /\ diff'.todo = diff.todo \ {n}
      BY <2>6, <3>1, <3>2
    <3>5. /\ Served \subseteq Served' /\ Served' \subseteq Served \cup {n}
          /\ Registered \subseteq Registered'
          /\ n \notin external => n \in Served' \/ PortTaken(n)
      <4>1. CASE n \in external
        <5>1. Served' = Served /\ Registered' = Registered
          BY <3>1, <4>1 DEF directory, Served, Registered, Parent
        <5>. QED
          BY <4>1, <5>1
      <4>2. CASE n \notin external
        BY <3>1, <3>3, <4>2, AddFacts DEF Source
      <4>. QED
        BY <4>1, <4>2
    <3>6. \A x : PortTaken(x) => PortTaken(x)'
      BY <3>5, TakenStays
    <3>7. Served' \subseteq Cfg
      BY <2>5, <3>2, <3>3, <3>5
    <3>8. \A x \in Cfg \ external : x \in Served' \cup diff'.todo \/ PortTaken(x)'
      BY <2>5, <3>2, <3>4, <3>5, <3>6
    <3>. QED
      BY <2>3, <2>7, <3>2, <3>4, <3>7, <3>8 DEF ProgressInv
  <2>. QED
    BY <1>7, <2>2, <2>9, <2>10, <2>11, <2>12, <2>13, <2>14, <2>15, <2>16 DEF ReloadStep
<1>. QED
  BY <1>4, <1>5, <1>6, <1>7, NextSteps

-----------------------------------------------------------------------------
(* The services of other instances.                                        *)

(* An addition that imposes nothing adds no service of another instance.   *)
LEMMA AddsOwn ==
  ASSUME StateInv, NEW n \in Top, NEW s \in Source, AddService(n, s), Imposes(n) = {}
  PROVE  Served' \cap external \subseteq Served
<1>1. CASE CanAdd(n)
  BY <1>1, AddFacts DEF Imposes
<1>2. CASE ~CanAdd(n)
  <2>1. UNCHANGED directory
    BY <1>2 DEF AddService
  <2>. QED
    BY <2>1 DEF directory, Served, Registered, Parent
<1>. QED
  BY <1>1, <1>2

LEMMA RequestsAddOwn ==
  ASSUME StateInv, "imposed" \notin excused', Requests
  PROVE  Served' \cap external \subseteq Served
<1>1. /\ Top \subseteq Name /\ Child \subseteq Name
      /\ Native \in Source /\ Delegate \in Source
  BY DEF Name, Source
<1>2. ASSUME NEW n \in Name, RemoveService(n)
      PROVE  Served' \cap external \subseteq Served
  BY <1>2, RemoveFacts
<1>3. CASE UNCHANGED directory
  BY <1>3 DEF directory, Served, Registered, Parent
<1>4. ASSUME NEW c \in Client, NEW n \in Top, NEW p \in BOOLEAN, RpcAdd(c, n, p)
      PROVE  Served' \cap external \subseteq Served
  <2>1. AddService(n, Native) /\ Imposes(n) \subseteq excused'
    BY <1>4 DEF RpcAdd, BeginPersist
  <2>2. Imposes(n) = {}
    BY <2>1 DEF Imposes
  <2>. QED
    BY <1>1, <2>1, <2>2, AddsOwn
<1>5. ASSUME NEW c \in Client, NEW n \in Top, NEW p \in BOOLEAN, RpcRemove(c, n, p)
      PROVE  Served' \cap external \subseteq Served
  BY <1>1, <1>2, <1>5 DEF RpcRemove
<1>6. ASSUME NEW n \in Child, RpcRemoveChild(n)
      PROVE  Served' \cap external \subseteq Served
  BY <1>1, <1>2, <1>6 DEF RpcRemoveChild
<1>7. ASSUME NEW n \in Top, Apply(n)
      PROVE  Served' \cap external \subseteq Served
  <2>1. CASE AddService(n, Native) /\ Imposes(n) \subseteq excused'
    <3>1. Imposes(n) = {}
      BY <2>1 DEF Imposes
    <3>. QED
      BY <1>1, <2>1, <3>1, AddsOwn
  <2>. QED
    BY <1>3, <1>7, <2>1 DEF Apply
<1>8. ASSUME NEW n \in Top, HandOver(n)
      PROVE  Served' \cap external \subseteq Served
  <2>1. AddService(n, Delegate) /\ Imposes(n) \subseteq excused'
    BY <1>8 DEF HandOver
  <2>2. Imposes(n) = {}
    BY <2>1 DEF Imposes
  <2>. QED
    BY <1>1, <2>1, <2>2, AddsOwn
<1>9. CASE ReleaseNext
  <2>1. UNCHANGED directory \/ \E n \in release.todo : RemoveService(n)
    BY <1>9 DEF ReleaseNext
  <2>2. release.todo \subseteq Name
    BY <1>1 DEF StateInv, TypeOK, ControlOK
  <2>. QED
    BY <1>2, <1>3, <2>1, <2>2
<1>. QED
  BY <1>4, <1>5, <1>6, <1>7, <1>8, <1>9 DEF Requests

LEMMA ExternalNext ==
  ASSUME StateInv, ExternalInv, Next
  PROVE  ExternalInv'
<1>1. SUFFICES ASSUME "imposed" \notin excused'
               PROVE  ExternalInv'
  BY DEF ExternalInv
<1>2. /\ Served \cap external \subseteq (IF diff.at = "newly" THEN diff.todo ELSE {})
      /\ diff.at \notin {"none", "newly"} => diff.parents \cap external = {}
  BY <1>1, ExcusedGrows DEF ExternalInv
<1>3. CASE UNCHANGED <<diff, external>> /\ Served' \cap external \subseteq Served
  BY <1>2, <1>3 DEF ExternalInv
<1>4. CASE Quiet
  <2>1. UNCHANGED <<diff, external, Served>>
    BY <1>4, QuietSteps
  <2>. QED
    BY <1>3, <2>1
<1>5. CASE Requests
  <2>1. Served' \cap external \subseteq Served
    BY <1>1, <1>5, RequestsAddOwn
  <2>2. UNCHANGED <<diff, external>>
    BY <1>5, RequestSteps
  <2>. QED
    BY <1>3, <2>1, <2>2
<1>6. ASSUME NEW r \in Reloader, ReloadLock(r)
      PROVE  ExternalInv'
  <2>1. /\ reloadMu = None
        /\ diff' = [NoDiff EXCEPT !.at = "newly", !.todo = external' \ external]
        /\ UNCHANGED directory
    BY <1>6 DEF ReloadLock
  <2>2. diff.at = "none"
    BY <2>1 DEF StateInv, MutexInv
  <2>3. Served' = Served
    BY <2>1 DEF directory, Served, Registered, Parent
  <2>4. diff'.at = "newly" /\ diff'.todo = external' \ external
    BY <2>1 DEF NoDiff
  <2>. QED
    BY <1>2, <2>2, <2>3, <2>4 DEF ExternalInv
<1>7. CASE ReloadStep
  <2>1. diff \in [at : Phase \cup Multi, running : SUBSET Name,
                  parents : SUBSET Multi, todo : SUBSET Name] /\ diff.at # "none"
    BY <1>7, ReloadSteps DEF StateInv, TypeOK, ControlOK
  <2>2. \A m \in Multi : m \notin Phase
    BY ValueAssumption
  <2>3. "newly" \notin Multi /\ "none" \notin Multi
    BY <2>2 DEF Phase
  <2>4. Multi \subseteq Top /\ Top \subseteq Name
    BY MultiAssumption DEF Name
  <2>6. CASE ReloadRemove
    <3>1. PICK n \in diff.todo : /\ RemoveService(n)
                                 /\ diff' = [diff EXCEPT !.todo = @ \ {n}]
      BY <2>6 DEF ReloadRemove
    <3>2. Served' = Served \ {n}
      BY <2>1, <3>1, RemoveFacts
    <3>3. /\ diff'.at = diff.at /\ diff'.todo = diff.todo \ {n}
          /\ diff'.parents = diff.parents /\ external' = external
      BY <2>1, <2>6, <3>1 DEF ReloadRemove
    <3>. QED
      BY <1>2, <3>2, <3>3 DEF ExternalInv
  <2>7. CASE ReloadSnapshot
    <3>1. /\ diff' = [at |-> "parents", running |-> Registered, parents |-> Parents,
                      todo |-> Parents \ Cfg]
          /\ UNCHANGED directory /\ external' = external
          /\ diff.at = "newly" /\ diff.todo = {}
      BY <2>7 DEF ReloadSnapshot
    <3>2. Served' = Served
      BY <3>1 DEF directory, Served, Registered, Parent
    <3>3. diff'.at = "parents" /\ diff'.parents = Parents
      BY <3>1
    <3>4. Parents \subseteq Served
      BY <2>4 DEF Parents, Served
    <3>5. Served \cap external = {}
      BY <1>2, <3>1
    <3>. QED
      BY <3>1, <3>2, <3>3, <3>4, <3>5 DEF ExternalInv
  <2>8. ASSUME diff.at # "newly", diff'.at # "newly",
               diff'.parents = diff.parents \/ diff'.at = "none",
               external' \subseteq external, Served' \cap external \subseteq Served
        PROVE  ExternalInv'
    <3>1. Served \cap external = {} /\ diff.parents \cap external = {}
      BY <1>2, <2>1, <2>8
    <3>. QED
      BY <2>8, <3>1 DEF ExternalInv
  <2>9. CASE ReloadRunning \/ ReloadReadd
    <3>1. /\ UNCHANGED directory /\ external' = external
          /\ diff.at # "newly"
      BY <2>9 DEF ReloadRunning, ReloadReadd
    <3>2. diff'.parents = diff.parents /\ diff'.at # "newly"
      BY <2>1, <2>9 DEF ReloadRunning, ReloadReadd
    <3>3. Served' = Served
      BY <3>1 DEF directory, Served, Registered, Parent
    <3>. QED
      BY <2>8, <3>1, <3>2, <3>3
  <2>10. CASE ReaddRemove
    <3>1. PICK n \in diff.todo :
            /\ RemoveService(n)
            /\ diff' = IF RemoveFails(n) THEN [diff EXCEPT !.todo = @ \ {n}]
                       ELSE [diff EXCEPT !.at = n]
      BY <2>10 DEF ReaddRemove
    <3>2. diff.at = "readd" /\ external' = external
      BY <2>10 DEF ReaddRemove
    <3>3. n \in Multi
      BY <2>1, <3>2 DEF StateInv, ReaddInv
    <3>4. Served' = Served \ {n}
      BY <2>4, <3>1, <3>3, RemoveFacts
    <3>5. diff'.parents = diff.parents /\ diff'.at # "newly"
      BY <2>1, <2>3, <3>1, <3>2, <3>3
    <3>. QED
      BY <2>8, <3>2, <3>4, <3>5
  <2>11. CASE ReaddAdd
    <3>1. /\ diff.at \in Multi /\ AddService(diff.at, Native) /\ external' = external
          /\ diff' = [diff EXCEPT !.at = "readd", !.todo = @ \ {diff.at}]
      BY <2>11 DEF ReaddAdd
    <3>2. Served' = Served \cup {diff.at}
      BY <2>4, <3>1, AddFacts DEF Source
    <3>3. diff.at \notin external
      BY <1>2, <2>1, <2>3, <3>1 DEF StateInv, ReaddInv
    <3>4. diff'.parents = diff.parents /\ diff'.at = "readd" /\ diff.at # "newly"
      BY <2>1, <2>3, <3>1
    <3>. QED
      BY <2>8, <3>1, <3>2, <3>3, <3>4
  <2>12. CASE ReloadForget
    <3>1. /\ UNCHANGED directory /\ external' = external \cap Cfg /\ diff.at = "readd"
          /\ diff' = [diff EXCEPT !.at = "add",
                                  !.todo = Cfg \ (diff.running \cup diff.parents)]
      BY <2>12 DEF ReloadForget
    <3>2. Served' = Served
      BY <3>1 DEF directory, Served, Registered, Parent
    <3>3. diff'.parents = diff.parents /\ diff'.at = "add"
      BY <2>1, <3>1
    <3>. QED
      BY <2>8, <3>1, <3>2, <3>3
  <2>13. CASE ReloadAdd
    <3>1. PICK n \in diff.todo :
            /\ IF n \in external THEN UNCHANGED directory ELSE AddService(n, Native)
            /\ diff' = [diff EXCEPT !.todo = @ \ {n}]
      BY <2>13 DEF ReloadAdd
    <3>2. diff.at = "add" /\ external' = external
      BY <2>13 DEF ReloadAdd
    <3>3. n \in Top
      BY <2>1, <3>2, CfgFacts DEF StateInv, ReaddInv
    <3>4. diff'.parents = diff.parents /\ diff'.at = "add"
      BY <2>1, <3>1, <3>2
    <3>5. Served' \cap external \subseteq Served
      <4>1. CASE n \in external
        BY <3>1, <4>1 DEF directory, Served, Registered, Parent
      <4>2. CASE n \notin external
        BY <3>1, <3>3, <4>2, AddFacts DEF Source
      <4>. QED
        BY <4>1, <4>2
    <3>. QED
      BY <2>8, <3>2, <3>4, <3>5
  <2>14. CASE ReloadUnlock
    <3>1. /\ UNCHANGED directory /\ external' = external /\ diff.at = "add" /\ diff' = NoDiff
      BY <2>14 DEF ReloadUnlock
    <3>2. Served' = Served
      BY <3>1 DEF directory, Served, Registered, Parent
    <3>3. diff'.at = "none"
      BY <3>1 DEF NoDiff
    <3>. QED
      BY <2>8, <3>1, <3>2, <3>3
  <2>. QED
    BY <1>7, <2>6, <2>7, <2>9, <2>10, <2>11, <2>12, <2>13, <2>14 DEF ReloadStep
<1>. QED
  BY <1>4, <1>5, <1>6, <1>7, NextSteps

-----------------------------------------------------------------------------
(* The theorems.                                                           *)

LEMMA NextInv == IInv /\ [Next]_vars => IInv'
<1>1. SUFFICES ASSUME IInv, [Next]_vars PROVE IInv'
  OBVIOUS
<1>2. CASE Next
  <2>1. BrokenInv
    BY <1>1 DEF IInv, PersistInv
  <2>. QED
    BY <1>1, <1>2, <2>1, StateNext, ChildrenListedNext, PersistNext, UntracedNext,
       ReleaseInvNext, ProgressNext, ExternalNext DEF IInv
<1>3. CASE UNCHANGED vars
  <2>1. StateInv'
    BY <1>1, <1>3 DEF vars, IInv, StateInv, TypeOK, DirectoryOK, ControlOK, FileNeeded, DirInv,
       Registered, Parents, Parent, MutexInv, ReaddInv, Cfg
  <2>2. ChildrenListed' /\ UntracedInv' /\ ReleaseInv'
    BY <1>1, <1>3 DEF vars, IInv, ChildrenListed, UntracedInv, ReleaseInv, Covered, Removes,
       Registered, Parents, Parent
  <2>3. PersistInv'
    BY <1>1, <1>3 DEF vars, IInv, PersistInv, BrokenInv, AloneInv, LoadedInv, SavedInv,
       MeantInv, Pending
  <2>4. ProgressInv' /\ ExternalInv'
    BY <1>1, <1>3 DEF vars, IInv, ProgressInv, ExternalInv, Snapshot, Served, Registered,
       Parents, Parent, Cfg, PortTaken
  <2>. QED
    BY <2>1, <2>2, <2>3, <2>4 DEF IInv
<1>. QED
  BY <1>1, <1>2, <1>3

(* AddService and RemoveService with persist: whatever the interleaving of *)
(* requests, edits, saves and failing saves, the file says of a service    *)
(* what the user's last edit and the accepted requests since have made of  *)
(* it, unless its own save failed or overlapped, or a save broke the file  *)
(* or went over an edit.                                                   *)
THEOREM PersistsAreExact == Spec => []FileIsLedger
<1>1. IInv => FileIsLedger
  <2>1. SUFFICES ASSUME IInv, \A c \in Client : persists[c].at = "idle"
                 PROVE  IF {file, ledger} \cap {Broken, NoFile} # {}
                        THEN file = ledger \/ unsaved = Top
                        ELSE \A n \in Top \ unsaved : n \in file <=> n \in ledger
    BY DEF FileIsLedger
  <2>2. Pending = {}
    BY <2>1 DEF Pending
  <2>. QED
    BY <2>1, <2>2 DEF IInv, PersistInv, BrokenInv, SavedInv
<1>. QED
  BY <1>1, InitInv, NextInv, PTL DEF Spec

(* ReleaseBySource: of what a delegate contributed only the services that  *)
(* were still being resolved, or whose resolution had failed, when the     *)
(* release began outlive it.                                               *)
THEOREM ReleaseIsComplete == Spec => []DelegateLeavesNothing
<1>1. IInv => DelegateLeavesNothing
  <2>1. SUFFICES ASSUME IInv, release.at = "gone",
                        NEW n \in Name, forwards[n] \in {Delegate, Untraced}
                 PROVE  \E m \in release.missed : n \in ChildrenOf[m] \cup {m}
    BY DEF DelegateLeavesNothing
  <2>2. release.todo = {}
    BY <2>1 DEF IInv, ReleaseInv
  <2>. QED
    BY <2>1, <2>2 DEF IInv, ReleaseInv, Covered
<1>. QED
  BY <1>1, InitInv, NextInv, PTL DEF Spec

(* Manager.Reload: an undisturbed reload ends with the services of the     *)
(* config it has loaded that are not another instance's, but for one whose *)
(* local port another forward has.                                         *)
THEOREM ReloadIsExact == Spec => ReloadConverges
<1>1. ASSUME IInv, [Next]_vars
      PROVE  [(/\ reloadMu # None /\ reloadMu' = None
               /\ ~disturbed /\ "child" \notin excused)
              => /\ \A n \in Cfg \ external : n \in Served \/ PortTaken(n)
                 /\ Served \subseteq Cfg
                 /\ "imposed" \in excused \/ Served \cap external = {}]_vars
  <2>1. SUFFICES ASSUME Next, reloadMu # None, reloadMu' = None,
                        ~disturbed, "child" \notin excused
                 PROVE  /\ \A n \in Cfg \ external : n \in Served \/ PortTaken(n)
                        /\ Served \subseteq Cfg
                        /\ "imposed" \in excused \/ Served \cap external = {}
    BY <1>1
  <2>2. StateInv
    BY <1>1 DEF IInv
  <2>3. ReloadUnlock
    <3>1. ASSUME NEW r \in Reloader PROVE ~ReloadLock(r)
      BY <2>1 DEF ReloadLock
    <3>2. CASE ReloadStep
      BY <2>1, <2>2, <3>2, ReloadSteps
    <3>. QED
      BY <2>1, <2>2, <3>1, <3>2, NextSteps, QuietSteps, RequestSteps
  <2>4. diff.at = "add" /\ diff.todo = {}
    BY <2>3 DEF ReloadUnlock
  <2>5. (\A n \in Cfg \ external : n \in Served \/ PortTaken(n)) /\ Served \subseteq Cfg
    BY <1>1, <2>1, <2>4 DEF IInv, ProgressInv
  <2>6. "imposed" \in excused \/ Served \cap external = {}
    BY <1>1, <2>4 DEF IInv, ExternalInv
  <2>. QED
    BY <2>5, <2>6
<1>. QED
  BY <1>1, InitInv, NextInv, PTL DEF Spec, ReloadConverges
===============================================================================
