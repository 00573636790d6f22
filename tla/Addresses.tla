------------------------------ MODULE Addresses ------------------------------
(***************************************************************************)
(* The SDK of pkg/proxy: clients that copy the daemon's address mappings   *)
(* (client.go), refresh them from a ticker and on demand, and contribute   *)
(* them to the process-wide registry from which gRPC connections resolve   *)
(* their addresses (global_resolver.go).  The forwards of the daemon all   *)
(* reach targets of one name in different namespaces.                      *)
(***************************************************************************)
EXTENDS Naturals, Sequences

Domain == {"cluster.local", "custom"}

CONSTANTS
    Forward,     \* the daemon's forwards
    Order,       \* m.order, a sequence of all of them
    PodBacked,   \* those with svc.Pod set, the others have svc.Service
    MaxPort,     \* local ports are 1..MaxPort, 0 stands for none
    MaxChanges,  \* bound on the changes to the daemon's forwards
    Client,      \* SDK clients of the process
    ClusterDomain, \* of each, the one WithClusterDomain gave it
    Dialled,     \* the names the gRPC connection may dial
    Explicit,    \* clients whose application also calls Refresh itself
    Any          \* the namespace of an unqualified name

ASSUME AddressesAssumption ==
    /\ Order \in Seq(Forward)
    /\ PodBacked \subseteq Forward
    /\ {MaxPort, MaxChanges} \subseteq Nat
    /\ Len(Order) <= MaxPort
    /\ \A f \in Forward : \E i \in DOMAIN Order : Order[i] = f
    /\ Explicit \subseteq Client
    /\ Any \notin Forward
    /\ Dialled \subseteq Forward \X Domain
    /\ ClusterDomain \in [Client -> Domain]

VARIABLES
    running,   \* the daemon: local port of each forward, 0 unless StateRunning
    changes,   \* how often that changed
    phase,     \* of each client
    addrs,     \* c.addrs
    job,       \* the calls that are at work on the registry
    registry,  \* globalRegistry.addrs, 0 for an absent key
    target,    \* what the gRPC connection dials, NoTarget before and after
    shown,     \* the address its resolver last handed to UpdateState
    raced      \* clients whose Refresh overlapped a Refresh or Close of its own

addressVars == <<running, changes, phase, addrs, job, registry, target, shown, raced>>

Short == <<Any, "name">>
Key == {Short} \cup (Forward \X ({"namespace"} \cup Domain))
Empty == [k \in Key |-> 0]
Table == [Key -> 0..MaxPort]

ResolveJob == <<Any, "resolve">>
Job == (Client \X {"new", "close", "tick"}) \cup (Explicit \X {"call"}) \cup {ResolveJob}
Idle == [at |-> "idle", old |-> Empty, new |-> Empty, val |-> 0]
NoTarget == <<Any, "none">>

AddressInit ==
    /\ running = [f \in Forward |-> CHOOSE i \in DOMAIN Order : Order[i] = f]
    /\ changes = 0
    /\ phase = [c \in Client |-> "none"]
    /\ addrs = [c \in Client |-> Empty]
    /\ job = [j \in Job |-> Idle]
    /\ registry = Empty
    /\ target = NoTarget
    /\ shown = 0
    /\ raced = {}

-----------------------------------------------------------------------------
(* The daemon.  A forward begins or stops to run, or moves to a free port. *)
ForwardChanges(f) ==
    /\ changes < MaxChanges
    /\ \E q \in 0..MaxPort :
          /\ q # running[f]
          /\ q = 0 \/ \A g \in Forward : running[g] # q
          /\ running' = [running EXCEPT ![f] = q]
    /\ changes' = changes + 1
    /\ UNCHANGED <<phase, addrs, job, registry, target, shown, raced>>

(* The names of a running forward: of two with one name, the short one is  *)
(* that of the forward that comes last, as in the map the server fills.    *)
Mappings(d) ==
    LET live == SelectSeq(Order, LAMBDA f : running[f] # 0)
    IN [k \in Key |->
          CASE k = Short -> IF live = <<>> THEN 0 ELSE running[live[Len(live)]]
            [] k[2] = "namespace" -> running[k[1]]
            [] k[2] \in Domain -> IF k[2] = d /\ k[1] \notin PodBacked THEN running[k[1]] ELSE 0]

(* resolveAddr for the full name of a forward's target: the exact name, and *)
(* with fuzzy matching the name in its namespace, found for pods only, then *)
(* the bare name in whichever namespace.                                    *)
ResolveAddr(table, t, fuzzy) ==
    LET tries == <<t>> \o (IF fuzzy /\ t[1] \in PodBacked THEN <<<<t[1], "namespace">>>> ELSE <<>>)
                       \o (IF fuzzy THEN <<Short>> ELSE <<>>)
        hits == SelectSeq(tries, LAMBDA k : table[k] # 0)
    IN IF hits = <<>> THEN 0 ELSE table[Head(hits)]

-----------------------------------------------------------------------------
(* registry.swap: the new entries in, the old ones out unless another      *)
(* client has given them another value since.                              *)
SwappedKeepsOld(r, old, new) == [k \in Key |-> IF new[k] # 0 THEN new[k] ELSE r[k]]

Swapped(r, old, new) ==
    [k \in Key |-> CASE new[k] # 0 -> new[k]
                     [] new[k] = 0 /\ old[k] # 0 /\ r[k] = old[k] -> 0
                     [] OTHER -> r[k]]

(* merge and remove, the same with nothing old or nothing new. *)
Merged(r, new) == Swapped(r, Empty, new)
Removed(r, old) == Swapped(r, old, Empty)

(* What follows every change: the resolvers found under the lock are        *)
(* notified after it is released, then the call goes on.                    *)
Ended(j) ==
    /\ job' = [job EXCEPT ![j] = Idle]
    /\ phase' = CASE j[2] = "new" -> [phase EXCEPT ![j[1]] = "open"]
                  [] j[2] = "close" -> [phase EXCEPT ![j[1]] = "closed"]
                  [] OTHER -> phase

NotifyNobody(j, r) == registry' = r /\ Ended(j) /\ UNCHANGED <<running, changes, addrs, target, shown, raced>>

Notify(j, r) ==
    /\ registry' = r
    /\ IF target = NoTarget
          THEN Ended(j)
          ELSE /\ job' = [job EXCEPT ![j] = [Idle EXCEPT !.at = "notify"]]
               /\ phase' = phase
    /\ UNCHANGED <<running, changes, addrs, target, shown, raced>>

(* globalResolver.resolve: translate under the read lock, *)
Translate(j) ==
    /\ job[j].at = "notify"
    /\ IF target = NoTarget
          THEN Ended(j)
          ELSE /\ job' = [job EXCEPT ![j] = [Idle EXCEPT !.at = "update",
                                !.val = ResolveAddr(registry, target, TRUE)]]
               /\ phase' = phase
    /\ UNCHANGED <<running, changes, addrs, registry, target, shown, raced>>

(* and hand the result to gRPC without it. *)
UpdateState(j) ==
    /\ job[j].at = "update"
    /\ shown' = IF target = NoTarget THEN shown ELSE job[j].val
    /\ Ended(j)
    /\ UNCHANGED <<running, changes, addrs, registry, target, raced>>

-----------------------------------------------------------------------------
(* The places discoverTarget looks at, in order.  It takes the first whose *)
(* socket file exists, whether or not a daemon answers there; a config     *)
(* that does not load ends the search.                                     *)
Place == {"absent", "dead", "live"}
Environment == [config : {"none", "broken", "tcp", "unix"}, socket : [1..3 -> Place]]

DiscoverTarget(e) ==
    LET here == IF e.config = "unix" THEN 1 ELSE 2
        found == {i \in here..3 : e.socket[i] # "absent"}
    IN CASE e.config = "broken" -> "absent"
         [] e.config = "tcp" -> e.socket[1]
         [] OTHER -> IF found = {} THEN "absent"
                     ELSE e.socket[CHOOSE i \in found : \A n \in found : i <= n]

Found == {DiscoverTarget(e) : e \in Environment}

(* New: without WithEnabled a failure is the caller's, with it the client  *)
(* becomes the passthrough Noop.                                           *)
New(c, enabled, found) ==
    /\ phase[c] = "none"
    /\ IF enabled # "off" /\ found = "live"
          THEN /\ phase' = [phase EXCEPT ![c] = "opening"]
               /\ addrs' = [addrs EXCEPT ![c] = Mappings(ClusterDomain[c])]
               /\ job' = [job EXCEPT ![<<c, "new">>] = [Idle EXCEPT !.at = "stored", !.new = addrs'[c]]]
          ELSE /\ phase' = [phase EXCEPT ![c] = IF enabled = "unset" THEN "failed" ELSE "noop"]
               /\ UNCHANGED <<addrs, job>>
    /\ UNCHANGED <<running, changes, registry, target, shown, raced>>

Merge(c) ==
    LET j == <<c, "new">>
    IN job[j].at = "stored" /\ Notify(j, Merged(registry, job[j].new))

(* Refresh, from the ticker or from the application, asks for the mappings *)
(* of the default cluster domain.  A failed call changes nothing.          *)
Fetch(c, k) ==
    LET j == <<c, k>>
    IN /\ job[j].at = "idle"
       /\ phase[c] \in {"open", "closing"}
       /\ job' = [job EXCEPT ![j] = [Idle EXCEPT !.at = "got", !.new = Mappings("cluster.local")]]
       /\ UNCHANGED <<running, changes, phase, addrs, registry, target, shown, raced>>

Stored(c) == {k \in {"tick", "call", "close"} : <<c, k>> \in Job /\ job[<<c, k>>].at = "stored"}

Store(c, k) ==
    LET j == <<c, k>>
    IN /\ job[j].at = "got"
       /\ addrs' = [addrs EXCEPT ![c] = job[j].new]
       /\ job' = [job EXCEPT ![j] = [@ EXCEPT !.at = "stored", !.old = addrs[c]]]
       /\ raced' = IF Stored(c) # {} \/ phase[c] # "open" THEN raced \cup {c} ELSE raced
       /\ UNCHANGED <<running, changes, phase, registry, target, shown>>

Swap(c, k) ==
    LET j == <<c, k>>
    IN job[j].at = "stored" /\ Notify(j, Swapped(registry, job[j].old, job[j].new))

(* Close: the first call ends the ticker and reads the table, *)
Close(c) ==
    /\ phase[c] = "open"
    /\ phase' = [phase EXCEPT ![c] = "closing"]
    /\ job' = [job EXCEPT ![<<c, "close">>] = [Idle EXCEPT !.at = "stored", !.old = addrs[c]]]
    /\ raced' = IF Stored(c) # {} THEN raced \cup {c} ELSE raced
    /\ UNCHANGED <<running, changes, addrs, registry, target, shown>>

(* removes its entries, and closes the connection when that is done. *)
Remove(c) ==
    LET j == <<c, "close">>
    IN job[j].at = "stored" /\ Notify(j, Removed(registry, job[j].old))

-----------------------------------------------------------------------------
(* The global resolver of one gRPC connection. *)
Build(t) ==
    /\ target = NoTarget
    /\ shown = 0
    /\ job[ResolveJob].at = "idle"
    /\ target' = t
    /\ job' = [job EXCEPT ![ResolveJob] = [Idle EXCEPT !.at = "notify"]]
    /\ UNCHANGED <<running, changes, phase, addrs, registry, shown, raced>>

ResolveNow ==
    /\ target # NoTarget
    /\ job[ResolveJob].at = "idle"
    /\ job' = [job EXCEPT ![ResolveJob] = [Idle EXCEPT !.at = "notify"]]
    /\ UNCHANGED <<running, changes, phase, addrs, registry, target, shown, raced>>

(* Behaviours are followed up to the first race. *)
AddressNext ==
    /\ raced = {}
    /\ \/ \E f \in Forward : ForwardChanges(f)
       \/ \E c \in Client :
             \/ \E enabled \in {"unset", "on", "off"}, found \in Found : New(c, enabled, found)
             \/ Merge(c)
             \/ Close(c)
             \/ Remove(c)
       \/ \E j \in Job : j[2] \in {"tick", "call"} /\ (Fetch(j[1], j[2]) \/ Store(j[1], j[2]) \/ Swap(j[1], j[2]))
       \/ \E j \in Job : Translate(j) \/ UpdateState(j)
       \/ \E t \in Dialled : Build(t)
       \/ ResolveNow

AddressSpec == AddressInit /\ [][AddressNext]_addressVars

(* Calls go on once begun, the ticker comes round, and the daemon answers  *)
(* it now and then.  Nobody has to create, refresh or close a client.      *)
AddressFairness ==
    /\ \A j \in Job : WF_addressVars(Translate(j)) /\ WF_addressVars(UpdateState(j))
    /\ \A c \in Client : WF_addressVars(Merge(c)) /\ WF_addressVars(Remove(c)) /\ WF_addressVars(Fetch(c, "tick"))
    /\ \A j \in Job : j[2] \in {"tick", "call"} => WF_addressVars(Store(j[1], j[2])) /\ WF_addressVars(Swap(j[1], j[2]))

AddressFairSpec == AddressSpec /\ AddressFairness

-----------------------------------------------------------------------------
(* Every address in the registry (global_resolver.go) is one that a client *)
(* which is still open holds, or is about to replace: a process whose      *)
(* clients are all closed is left with none.  A Refresh that overlapped    *)
(* another Refresh or the Close of its client excuses that client's, since *)
(* client.go:251 stores and swaps under two different locks.               *)
NoLeftovers ==
    raced = {} =>
        \A k \in Key : registry[k] # 0 =>
            \E c \in Client :
                /\ phase[c] \in {"opening", "open", "closing"}
                /\ \/ addrs[c][k] = registry[k]
                   \/ \E j \in Job : /\ j[1] = c
                                     /\ job[j].at = "stored"
                                     /\ job[j].old[k] = registry[k]

(* A gRPC connection that keeps its resolver ends up with the address the  *)
(* daemon's mappings give its target, whatever other clients close, expire *)
(* or overwrite meanwhile and in whatever order the notifications arrive,  *)
(* as long as one client stays open: its ticker puts back what another     *)
(* client's remove took along (global_resolver.go:93).                     *)
ResolverConverges ==
    <>[](raced = {} /\ target # NoTarget /\ \E c \in Client : phase[c] = "open")
        => <>[](target # NoTarget /\ shown = ResolveAddr(Mappings("cluster.local"), target, TRUE))
=============================================================================
