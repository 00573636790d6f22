------------------------------ MODULE SdkProofs ------------------------------
(***************************************************************************)
(* Proofs about the two modules of pkg/proxy, which have no state in       *)
(* common: what Addresses promises of the process-wide registry, for any   *)
(* clients, forwards and bounds, and the type invariant of Gateway and its *)
(* credentials property, for any number of connections and hosts.          *)
(***************************************************************************)
EXTENDS Addresses, Gateway, TLAPS

-----------------------------------------------------------------------------
(* Addresses *)

(* Nothing below depends on which addresses the tables hold.               *)
IsWork(w) == DOMAIN w = {"at", "old", "new", "val"}

AddressTypeOK ==
    /\ phase \in [Client -> {"none", "failed", "noop", "opening", "open", "closing", "closed"}]
    /\ addrs = [c \in Client |-> addrs[c]]
    /\ job = [j \in Job |-> job[j]]
    /\ \A j \in Job : IsWork(job[j])

(* The calls of a client.  New is at work while the client is opening,     *)
(* Close while it is closing; what either merges or removes is the client's*)
(* table, and so is what a Refresh is about to put in: no second call has  *)
(* stored another one meanwhile.                                           *)
NewInv ==
    \A c \in Client :
        LET w == job[<<c, "new">>]
        IN  /\ w.at # "idle" => phase[c] = "opening"
            /\ w.at # "got"
            /\ w.at = "stored" => w.new = addrs[c] /\ w.old = Empty

CloseInv ==
    \A c \in Client :
        LET w == job[<<c, "close">>]
        IN  /\ w.at # "idle" => phase[c] = "closing"
            /\ w.at # "got"
            /\ w.at = "stored" => w.old = addrs[c] /\ w.new = Empty /\ Stored(c) = {"close"}

RefreshInv ==
    \A j \in Job : j[2] \in {"tick", "call"} /\ job[j].at = "stored" =>
        phase[j[1]] = "open" /\ job[j].new = addrs[j[1]] /\ Stored(j[1]) = {j[2]}

(* A client holds an entry that its table has, or that the call at work is *)
(* to take out, until its Close has removed its entries.                   *)
Holds(c, k) ==
    /\ \/ phase[c] \in {"opening", "open"}
       \/ phase[c] = "closing" /\ job[<<c, "close">>].at = "stored"
    /\ \/ addrs[c][k] = registry[k]
       \/ \E j \in Job : j[1] = c /\ job[j].at = "stored" /\ job[j].old[k] = registry[k]

HeldInv == \A k \in Key : registry[k] # 0 => \E c \in Client : Holds(c, k)

ResolveInv == job[ResolveJob].at \notin {"got", "stored"}

CallsInv == NewInv /\ CloseInv /\ RefreshInv /\ ResolveInv

AddressInv == AddressTypeOK /\ (raced = {} => CallsInv /\ HeldInv)

-----------------------------------------------------------------------------
(* The calls.                                                              *)

LEMMA Jobs ==
    /\ \A c \in Client : /\ <<c, "new">> \in Job /\ <<c, "close">> \in Job
                         /\ <<c, "tick">> \in Job
    /\ ResolveJob \in Job /\ ResolveJob[2] = "resolve"
    /\ \A j \in Job : /\ j = <<j[1], j[2]>> /\ j[2] \in {"new", "close", "tick", "call", "resolve"}
                      /\ j[2] # "resolve" => j[1] \in Client
                      /\ j[2] = "resolve" => j = ResolveJob
BY AddressesAssumption DEF Job, ResolveJob

LEMMA JobTurned ==
    ASSUME AddressTypeOK, NEW j \in Job, NEW w, IsWork(w), job' = [job EXCEPT ![j] = w]
    PROVE  /\ job'[j] = w /\ \A i \in Job \ {j} : job'[i] = job[i]
           /\ job' = [i \in Job |-> job'[i]] /\ \A i \in Job : IsWork(job'[i])
<1>1. DOMAIN job = Job
  BY DEF AddressTypeOK
<1>2. job' = [i \in Job |-> IF i = j THEN w ELSE job[i]]
  BY <1>1
<1>3. /\ job'[j] = w /\ \A i \in Job \ {j} : job'[i] = job[i]
      /\ job' = [i \in Job |-> job'[i]]
  BY <1>2
<1> QED
  BY <1>3 DEF AddressTypeOK

LEMMA Works ==
    ASSUME NEW a, NEW o, NEW n, NEW v
    PROVE  /\ IsWork(Idle) /\ Idle.at = "idle"
           /\ LET w == [Idle EXCEPT !.at = a] IN IsWork(w) /\ w.at = a
           /\ LET w == [Idle EXCEPT !.at = a, !.new = n]
              IN  IsWork(w) /\ w.at = a /\ w.new = n /\ w.old = Empty
           /\ LET w == [Idle EXCEPT !.at = a, !.old = o]
              IN  IsWork(w) /\ w.at = a /\ w.old = o /\ w.new = Empty
           /\ LET w == [Idle EXCEPT !.at = a, !.val = v] IN IsWork(w) /\ w.at = a
<1>1. IsWork(Idle) /\ Idle.at = "idle"
  BY DEF IsWork, Idle
<1>2. LET w == [Idle EXCEPT !.at = a] IN IsWork(w) /\ w.at = a
  BY DEF IsWork, Idle
<1>3. LET w == [Idle EXCEPT !.at = a, !.new = n]
      IN  IsWork(w) /\ w.at = a /\ w.new = n /\ w.old = Empty
  BY DEF IsWork, Idle
<1>4. LET w == [Idle EXCEPT !.at = a, !.old = o]
      IN  IsWork(w) /\ w.at = a /\ w.old = o /\ w.new = Empty
  BY DEF IsWork, Idle
<1>5. LET w == [Idle EXCEPT !.at = a, !.val = v] IN IsWork(w) /\ w.at = a
  BY DEF IsWork, Idle
<1> QED
  BY <1>1, <1>2, <1>3, <1>4, <1>5

LEMMA StoredNow ==
    ASSUME NEW w, IsWork(w), NEW o
    PROVE  LET u == [w EXCEPT !.at = "stored", !.old = o]
           IN  IsWork(u) /\ u.at = "stored" /\ u.old = o /\ u.new = w.new
BY DEF IsWork

-----------------------------------------------------------------------------
(* A call that goes on without a new table: it is over, or about to notify *)
(* the resolvers.                                                          *)
Proceeds(j) ==
    /\ job[j].at # "idle"
    /\ addrs' = addrs /\ raced' = raced
    /\ \E w : /\ IsWork(w) /\ w.at \in {"idle", "notify", "update"}
              /\ job' = [job EXCEPT ![j] = w]
              /\ IF w.at = "idle" /\ j[2] \in {"new", "close"}
                    THEN phase' = [phase EXCEPT ![j[1]] = IF j[2] = "new" THEN "open" ELSE "closed"]
                    ELSE phase' = phase

LEMMA EndedProceeds ==
    ASSUME NEW j \in Job, job[j].at # "idle", addrs' = addrs, raced' = raced, Ended(j)
    PROVE  Proceeds(j)
<1>1. IsWork(Idle) /\ Idle.at = "idle"
  BY Works
<1>2. IF j[2] \in {"new", "close"}
         THEN phase' = [phase EXCEPT ![j[1]] = IF j[2] = "new" THEN "open" ELSE "closed"]
         ELSE phase' = phase
  BY DEF Ended
<1> HIDE DEF Idle
<1> QED
  BY <1>1, <1>2 DEF Ended, Proceeds

LEMMA NotifyProceeds ==
    ASSUME NEW j \in Job, job[j].at # "idle", NEW r, Notify(j, r)
    PROVE  Proceeds(j) /\ registry' = r
<1>1. addrs' = addrs /\ raced' = raced /\ registry' = r
  BY DEF Notify
<1>2. CASE target = NoTarget
  BY <1>1, <1>2, EndedProceeds DEF Notify
<1>3. CASE target # NoTarget
  <2> DEFINE w == [Idle EXCEPT !.at = "notify"]
  <2>1. job' = [job EXCEPT ![j] = w] /\ phase' = phase
    BY <1>3 DEF Notify
  <2>2. IsWork(w) /\ w.at = "notify"
    BY Works
  <2> HIDE DEF w
  <2> QED
    BY <1>1, <2>1, <2>2 DEF Proceeds
<1> QED
  BY <1>2, <1>3

LEMMA TranslateProceeds ==
    ASSUME NEW j \in Job, Translate(j)
    PROVE  Proceeds(j) /\ registry' = registry /\ job[j].at = "notify"
<1>1. addrs' = addrs /\ raced' = raced /\ registry' = registry /\ job[j].at = "notify"
  BY DEF Translate
<1>2. CASE target = NoTarget
  BY <1>1, <1>2, EndedProceeds DEF Translate
<1>3. CASE target # NoTarget
  <2> DEFINE v == ResolveAddr(registry, target, TRUE)
             w == [Idle EXCEPT !.at = "update", !.val = v]
  <2>1. job' = [job EXCEPT ![j] = w] /\ phase' = phase
    BY <1>3 DEF Translate
  <2> HIDE DEF v
  <2>2. IsWork(w) /\ w.at = "update"
    BY Works
  <2> HIDE DEF w
  <2> QED
    BY <1>1, <2>1, <2>2 DEF Proceeds
<1> QED
  BY <1>2, <1>3

LEMMA UpdateProceeds ==
    ASSUME NEW j \in Job, UpdateState(j)
    PROVE  Proceeds(j) /\ registry' = registry /\ job[j].at = "update"
BY EndedProceeds DEF UpdateState

LEMMA ProceedTypes ==
    ASSUME AddressTypeOK, NEW j \in Job, Proceeds(j)
    PROVE  AddressTypeOK'
<1>1. PICK w : /\ IsWork(w) /\ job' = [job EXCEPT ![j] = w]
               /\ phase' = phase \/ \E p \in {"open", "closed"} : phase' = [phase EXCEPT ![j[1]] = p]
  BY DEF Proceeds
<1>2. job' = [i \in Job |-> job'[i]] /\ \A i \in Job : IsWork(job'[i])
  BY <1>1, JobTurned
<1>3. phase' \in [Client -> {"none", "failed", "noop", "opening", "open", "closing", "closed"}]
  BY <1>1 DEF AddressTypeOK
<1>4. addrs' = [c \in Client |-> addrs'[c]]
  BY DEF Proceeds, AddressTypeOK
<1> QED
  BY <1>2, <1>3, <1>4 DEF AddressTypeOK

(* No call is stored that was not.                                         *)
LEMMA ProceedCalls ==
    ASSUME AddressTypeOK, CallsInv, NEW j \in Job, Proceeds(j)
    PROVE  CallsInv'
<1>1. PICK w : /\ IsWork(w) /\ w.at \in {"idle", "notify", "update"}
               /\ job' = [job EXCEPT ![j] = w]
               /\ IF w.at = "idle" /\ j[2] \in {"new", "close"}
                     THEN phase' = [phase EXCEPT ![j[1]] = IF j[2] = "new" THEN "open" ELSE "closed"]
                     ELSE phase' = phase
  BY DEF Proceeds
<1>2. job'[j] = w /\ \A i \in Job \ {j} : job'[i] = job[i]
  BY <1>1, JobTurned
<1>3. addrs' = addrs /\ job[j].at # "idle"
  BY DEF Proceeds
<1>4. \A c \in Client : Stored(c)' = Stored(c) \ {k \in {j[2]} : j[1] = c}
  BY <1>1, <1>2, Jobs DEF Stored
<1>5. \A c \in Client : \/ phase'[c] = phase[c]
                        \/ c = j[1] /\ j[2] \in {"new", "close"} /\ w.at = "idle"
  BY <1>1 DEF AddressTypeOK
<1>6. NewInv'
  <2> SUFFICES ASSUME NEW c \in Client
               PROVE  LET u == job'[<<c, "new">>]
                      IN  /\ u.at # "idle" => phase'[c] = "opening"
                          /\ u.at # "got"
                          /\ u.at = "stored" => u.new = addrs'[c] /\ u.old = Empty
    BY DEF NewInv
  <2>1. CASE j = <<c, "new">>
    BY <2>1, <1>1, <1>2, <1>3, <1>5 DEF CallsInv, NewInv
  <2>2. CASE j # <<c, "new">>
    <3>1. job'[<<c, "new">>] = job[<<c, "new">>]
      BY <2>2, <1>2, Jobs
    <3>2. job[<<c, "new">>].at # "idle" => phase'[c] = phase[c]
      <4>1. SUFFICES ASSUME j = <<c, "close">> PROVE job[<<c, "new">>].at = "idle"
        BY <2>2, <1>5, Jobs
      <4> QED
        BY <4>1, <1>3 DEF CallsInv, NewInv, CloseInv
    <3> QED
      BY <3>1, <3>2, <1>3 DEF CallsInv, NewInv
  <2> QED
    BY <2>1, <2>2
<1>7. CloseInv'
  <2> SUFFICES ASSUME NEW c \in Client
               PROVE  LET u == job'[<<c, "close">>]
                      IN  /\ u.at # "idle" => phase'[c] = "closing"
                          /\ u.at # "got"
                          /\ u.at = "stored" => /\ u.old = addrs'[c] /\ u.new = Empty
                                                /\ Stored(c)' = {"close"}
    BY DEF CloseInv
  <2>1. CASE j = <<c, "close">>
    BY <2>1, <1>1, <1>2, <1>3, <1>5 DEF CallsInv, CloseInv
  <2>2. CASE j # <<c, "close">>
    <3>1. job'[<<c, "close">>] = job[<<c, "close">>]
      BY <2>2, <1>2, Jobs
    <3>2. job[<<c, "close">>].at # "idle" => phase'[c] = phase[c]
      <4>1. SUFFICES ASSUME j = <<c, "new">> PROVE job[<<c, "close">>].at = "idle"
        BY <2>2, <1>5, Jobs
      <4> QED
        BY <4>1, <1>3 DEF CallsInv, NewInv, CloseInv
    <3>3. job[<<c, "close">>].at = "stored" => Stored(c)' = {"close"}
      BY <2>2, <1>4, Jobs DEF CallsInv, CloseInv
    <3> QED
      BY <3>1, <3>2, <3>3, <1>3 DEF CallsInv, CloseInv
  <2> QED
    BY <2>1, <2>2
<1>8. RefreshInv'
  <2> SUFFICES ASSUME NEW i \in Job, i[2] \in {"tick", "call"}, job'[i].at = "stored"
               PROVE  /\ phase'[i[1]] = "open" /\ job'[i].new = addrs'[i[1]]
                      /\ Stored(i[1])' = {i[2]}
    BY DEF RefreshInv
  <2>1. i # j /\ job'[i] = job[i] /\ i[1] \in Client /\ i = <<i[1], i[2]>>
    BY <1>1, <1>2, Jobs
  <2>2. phase[i[1]] = "open" /\ job[i].new = addrs[i[1]] /\ Stored(i[1]) = {i[2]}
    BY <2>1 DEF CallsInv, RefreshInv
  <2>3. phase'[i[1]] = "open"
    <3>1. SUFFICES ASSUME i[1] = j[1], j[2] \in {"new", "close"} PROVE FALSE
      BY <2>1, <2>2, <1>5
    <3>2. j = <<i[1], j[2]>>
      BY <3>1, Jobs
    <3> QED
      BY <3>1, <3>2, <2>1, <2>2, <1>3 DEF CallsInv, NewInv, CloseInv
  <2>4. Stored(i[1])' = {i[2]}
    BY <2>1, <2>2, <1>4, Jobs
  <2> QED
    BY <2>1, <2>2, <2>3, <2>4, <1>3
<1>9. ResolveInv'
  BY <1>1, <1>2, Jobs DEF CallsInv, ResolveInv
<1> QED
  BY <1>6, <1>7, <1>8, <1>9 DEF CallsInv

(* A client lets go of nothing as one of its calls proceeds, but for the   *)
(* entries that this call stored.                                          *)
LEMMA ProceedHolds ==
    ASSUME AddressTypeOK, CallsInv, NEW j \in Job, Proceeds(j),
           NEW c \in Client, NEW k \in Key, Holds(c, k), registry'[k] = registry[k],
           j = <<c, "close">> => job[j].at # "stored",
           job[j].at = "stored" => job[j].old[k] # registry[k]
    PROVE  Holds(c, k)'
<1>1. PICK w : /\ IsWork(w) /\ w.at \in {"idle", "notify", "update"}
               /\ job' = [job EXCEPT ![j] = w]
               /\ IF w.at = "idle" /\ j[2] \in {"new", "close"}
                     THEN phase' = [phase EXCEPT ![j[1]] = IF j[2] = "new" THEN "open" ELSE "closed"]
                     ELSE phase' = phase
  BY DEF Proceeds
<1>2. job'[j] = w /\ \A i \in Job \ {j} : job'[i] = job[i]
  BY <1>1, JobTurned
<1>3. addrs' = addrs /\ job[j].at # "idle"
  BY DEF Proceeds
<1>4. \/ phase'[c] \in {"opening", "open"}
      \/ phase'[c] = "closing" /\ job'[<<c, "close">>].at = "stored"
  <2>1. CASE j = <<c, "new">>
    BY <2>1, <1>1, <1>2, <1>3, Jobs DEF AddressTypeOK, CallsInv, NewInv, Holds
  <2>2. CASE j = <<c, "close">>
    BY <2>2, <1>3 DEF CallsInv, CloseInv, Holds
  <2>3. CASE j \notin {<<c, "new">>, <<c, "close">>}
    <3>1. phase'[c] = phase[c]
      BY <2>3, <1>1, Jobs DEF AddressTypeOK
    <3>2. job'[<<c, "close">>] = job[<<c, "close">>]
      BY <2>3, <1>2, Jobs
    <3> QED
      BY <3>1, <3>2 DEF Holds
  <2> QED
    BY <2>1, <2>2, <2>3
<1>5. \/ addrs'[c][k] = registry'[k]
      \/ \E i \in Job : i[1] = c /\ job'[i].at = "stored" /\ job'[i].old[k] = registry'[k]
  BY <1>2, <1>3 DEF Holds
<1> QED
  BY <1>4, <1>5 DEF Holds

(* Merge, Swap and Remove: what comes into the registry is in the table of *)
(* the client, and what stays is not what the call stored.                 *)
LEMMA SwapHolds ==
    ASSUME AddressTypeOK, CallsInv, HeldInv, NEW j \in Job, job[j].at = "stored", Proceeds(j),
           registry' = Swapped(registry, job[j].old, job[j].new)
    PROVE  HeldInv'
<1> SUFFICES ASSUME NEW k \in Key, registry'[k] # 0 PROVE \E c \in Client : Holds(c, k)'
  BY DEF HeldInv
<1>1. j[1] \in Client /\ j = <<j[1], j[2]>> /\ j[2] \in {"new", "close", "tick", "call"}
  BY Jobs DEF CallsInv, ResolveInv
<1>2. \/ job[j].new[k] # 0 /\ registry'[k] = job[j].new[k]
      \/ job[j].new[k] = 0 /\ registry'[k] = registry[k] /\ job[j].old[k] # registry[k]
  BY DEF Swapped
<1>3. CASE job[j].new[k] # 0 /\ registry'[k] = job[j].new[k]
  <2>1. job[j].new # Empty
    BY <1>3 DEF Empty
  <2>2. j[2] # "close"
    BY <2>1, <1>1 DEF CallsInv, CloseInv
  <2>3. job[j].new = addrs[j[1]] /\ phase[j[1]] \in {"opening", "open"}
    BY <2>2, <1>1 DEF CallsInv, NewInv, RefreshInv
  <2>4. phase'[j[1]] \in {"opening", "open"} /\ addrs' = addrs
    BY <2>2, <2>3, <1>1 DEF Proceeds, AddressTypeOK
  <2> QED
    BY <1>1, <1>3, <2>3, <2>4 DEF Holds
<1>4. CASE job[j].new[k] = 0 /\ registry'[k] = registry[k] /\ job[j].old[k] # registry[k]
  <2>1. PICK c \in Client : Holds(c, k)
    BY <1>4 DEF HeldInv
  <2>2. j # <<c, "close">>
    <3> SUFFICES ASSUME j = <<c, "close">> PROVE FALSE
      OBVIOUS
    <3>1. phase[c] = "closing" /\ job[j].old = addrs[c] /\ Stored(c) = {"close"}
      BY DEF CallsInv, CloseInv
    <3>2. PICK i \in Job : i[1] = c /\ job[i].at = "stored" /\ job[i].old[k] = registry[k]
      BY <2>1, <3>1, <1>4 DEF Holds
    <3>3. i # j /\ i = <<c, i[2]>> /\ i[2] \in {"new", "close", "tick", "call"}
      BY <3>2, <1>4, Jobs DEF CallsInv, ResolveInv
    <3>4. i[2] # "new"
      BY <3>1, <3>2, <3>3 DEF CallsInv, NewInv
    <3>5. i[2] \in Stored(c)
      BY <3>2, <3>3, <3>4 DEF Stored
    <3> QED
      BY <3>1, <3>3, <3>5
  <2> QED
    BY <2>1, <2>2, <1>4, ProceedHolds
<1> QED
  BY <1>2, <1>3, <1>4

-----------------------------------------------------------------------------
(* The steps that begin a call or store a table.  Each has its types, its  *)
(* calls and what is held.                                                 *)

LEMMA NewKeeps ==
    ASSUME AddressTypeOK, raced = {} => CallsInv /\ HeldInv,
           NEW c \in Client, NEW enabled, NEW found, New(c, enabled, found)
    PROVE  AddressInv'
<1> DEFINE j == <<c, "new">>
<1>1. phase[c] = "none" /\ raced' = raced /\ registry' = registry
  BY DEF New
<1>2. CASE enabled # "off" /\ found = "live"
  <2> DEFINE n == Mappings(ClusterDomain[c])
             w == [Idle EXCEPT !.at = "stored", !.new = addrs'[c]]
  <2>1. /\ phase' = [phase EXCEPT ![c] = "opening"]
        /\ addrs' = [addrs EXCEPT ![c] = n] /\ job' = [job EXCEPT ![j] = w]
    BY <1>2 DEF New
  <2> HIDE DEF n
  <2>2. IsWork(w) /\ w.at = "stored" /\ w.new = addrs'[c] /\ w.old = Empty
    BY DEF IsWork, Idle
  <2> HIDE DEF w
  <2>3. /\ job'[j] = w /\ \A i \in Job \ {j} : job'[i] = job[i]
        /\ job' = [i \in Job |-> job'[i]] /\ \A i \in Job : IsWork(job'[i])
    BY <2>1, <2>2, JobTurned, Jobs
  <2>4. phase'[c] = "opening" /\ \A d \in Client \ {c} : phase'[d] = phase[d]
    BY <2>1 DEF AddressTypeOK
  <2>5. \A d \in Client \ {c} : addrs'[d] = addrs[d]
    BY <2>1 DEF AddressTypeOK
  <2>6. AddressTypeOK'
    BY <2>1, <2>3 DEF AddressTypeOK
  <2>7. ASSUME raced' = {} PROVE CallsInv'
    <3>1. CallsInv
      BY <1>1, <2>7
    <3>2. NewInv'
      <4> SUFFICES ASSUME NEW d \in Client
                   PROVE  LET u == job'[<<d, "new">>]
                          IN  /\ u.at # "idle" => phase'[d] = "opening"
                              /\ u.at # "got"
                              /\ u.at = "stored" => u.new = addrs'[d] /\ u.old = Empty
        BY DEF NewInv
      <4>1. CASE d = c
        BY <4>1, <2>2, <2>3, <2>4
      <4>2. CASE d # c
        <5>1. job'[<<d, "new">>] = job[<<d, "new">>]
          BY <4>2, <2>3, Jobs
        <5> QED
          BY <4>2, <5>1, <2>4, <2>5, <3>1 DEF CallsInv, NewInv
      <4> QED
        BY <4>1, <4>2
    <3>3. \A d \in Client : Stored(d)' = Stored(d)
      BY <2>3, Jobs DEF Stored
    <3>4. CloseInv'
      <4>1. \A d \in Client : job'[<<d, "close">>] = job[<<d, "close">>]
        BY <2>3, Jobs
      <4>2. job[<<c, "close">>].at = "idle"
        BY <1>1, <3>1 DEF CallsInv, CloseInv
      <4> QED
        BY <4>1, <4>2, <2>4, <2>5, <3>1, <3>3 DEF CallsInv, CloseInv
    <3>5. RefreshInv'
      <4>1. \A i \in Job : i[2] \in {"tick", "call"} => job'[i] = job[i] /\ i[1] \in Client
        BY <2>3, Jobs
      <4>2. \A i \in Job : i[2] \in {"tick", "call"} /\ job[i].at = "stored" => i[1] # c
        BY <1>1, <3>1 DEF CallsInv, RefreshInv
      <4> QED
        BY <4>1, <4>2, <2>4, <2>5, <3>1, <3>3 DEF CallsInv, RefreshInv
    <3>6. ResolveInv'
      BY <2>3, <3>1, Jobs DEF CallsInv, ResolveInv
    <3> QED
      BY <3>2, <3>4, <3>5, <3>6 DEF CallsInv
  <2>8. ASSUME raced' = {} PROVE HeldInv'
    <3> SUFFICES ASSUME NEW k \in Key, registry'[k] # 0 PROVE \E d \in Client : Holds(d, k)'
      BY DEF HeldInv
    <3>1. CallsInv /\ registry[k] # 0 /\ HeldInv
      BY <1>1, <2>8
    <3>2. PICK d \in Client : Holds(d, k)
      BY <3>1 DEF HeldInv
    <3>3. d # c
      BY <3>2, <1>1 DEF Holds
    <3>4. \A i \in Job : i[1] = d => job'[i] = job[i]
      BY <3>3, <2>3
    <3>5. job'[<<d, "close">>] = job[<<d, "close">>]
      BY <3>4, Jobs
    <3>6. phase'[d] = phase[d] /\ addrs'[d] = addrs[d]
      BY <3>3, <2>4, <2>5
    <3> QED
      BY <3>2, <3>4, <3>5, <3>6, <1>1 DEF Holds
  <2> QED
    BY <2>6, <2>7, <2>8 DEF AddressInv
<1>3. CASE ~(enabled # "off" /\ found = "live")
  <2>1. PICK p \in {"failed", "noop"} : phase' = [phase EXCEPT ![c] = p]
    BY <1>3 DEF New
  <2>2. addrs' = addrs /\ job' = job
    BY <1>3 DEF New
  <2>3. \A d \in Client : phase[d] # "none" => phase'[d] = phase[d]
    BY <2>1, <1>1 DEF AddressTypeOK
  <2>4. \A d \in Client : Stored(d)' = Stored(d)
    BY <2>2 DEF Stored
  <2>5. AddressTypeOK'
    BY <2>1, <2>2 DEF AddressTypeOK
  <2>6. ASSUME CallsInv PROVE CallsInv'
    <3>1. NewInv' /\ CloseInv'
      BY <2>2, <2>3, <2>4, <2>6 DEF CallsInv, NewInv, CloseInv
    <3>2. RefreshInv' /\ ResolveInv'
      BY <2>2, <2>3, <2>4, <2>6, Jobs DEF CallsInv, RefreshInv, ResolveInv
    <3> QED
      BY <3>1, <3>2 DEF CallsInv
  <2>7. ASSUME HeldInv PROVE HeldInv'
    BY <2>2, <2>3, <2>7, <1>1 DEF HeldInv, Holds
  <2> QED
    BY <2>5, <2>6, <2>7, <1>1 DEF AddressInv
<1> QED
  BY <1>2, <1>3

LEMMA FetchKeeps ==
    ASSUME AddressTypeOK, raced = {} => CallsInv /\ HeldInv,
           NEW c \in Client, NEW k0 \in {"tick", "call"}, <<c, k0>> \in Job, Fetch(c, k0)
    PROVE  AddressInv'
<1> DEFINE j == <<c, k0>>
           n == Mappings("cluster.local")
           w == [Idle EXCEPT !.at = "got", !.new = n]
<1>1. /\ job[j].at = "idle" /\ job' = [job EXCEPT ![j] = w]
      /\ phase' = phase /\ addrs' = addrs /\ raced' = raced /\ registry' = registry
  BY DEF Fetch
<1> HIDE DEF n
<1>2. IsWork(w) /\ w.at = "got"
  BY Works
<1> HIDE DEF w
<1>3. /\ job'[j] = w /\ \A i \in Job \ {j} : job'[i] = job[i]
      /\ job' = [i \in Job |-> job'[i]] /\ \A i \in Job : IsWork(job'[i])
  BY <1>1, <1>2, JobTurned
<1>4. \A d \in Client : Stored(d)' = Stored(d)
  BY <1>1, <1>2, <1>3 DEF Stored
<1>5. AddressTypeOK'
  BY <1>1, <1>3 DEF AddressTypeOK
<1>6. ASSUME CallsInv PROVE CallsInv'
  <2>1. NewInv' /\ CloseInv'
    BY <1>1, <1>3, <1>4, <1>6, Jobs DEF CallsInv, NewInv, CloseInv
  <2>2. RefreshInv'
    <3>1. \A i \in Job : job'[i].at = "stored" => job'[i] = job[i]
      BY <1>2, <1>3
    <3>2. \A i \in Job : i[2] \in {"tick", "call"} => i[1] \in Client
      BY Jobs
    <3> QED
      BY <1>1, <1>4, <1>6, <3>1, <3>2 DEF CallsInv, RefreshInv
  <2>3. ResolveInv'
    BY <1>3, <1>6, Jobs DEF CallsInv, ResolveInv
  <2> QED
    BY <2>1, <2>2, <2>3 DEF CallsInv
<1>7. ASSUME HeldInv PROVE HeldInv'
  <2>1. \A i \in Job : job[i].at = "stored" => job'[i] = job[i]
    BY <1>1, <1>3
  <2>2. \A d \in Client : <<d, "close">> \in Job
    BY Jobs
  <2>3. \A d \in Client, k \in Key : Holds(d, k) => Holds(d, k)'
    BY <1>1, <2>1, <2>2 DEF Holds
  <2> QED
    BY <1>1, <2>3, <1>7 DEF HeldInv
<1> QED
  BY <1>1, <1>5, <1>6, <1>7 DEF AddressInv

(* Store: unless it races, the client is open and nothing else of it is    *)
(* stored, so that the table it replaces is the one the registry has.      *)
LEMMA StoreKeeps ==
    ASSUME AddressTypeOK, raced = {} => CallsInv /\ HeldInv,
           NEW c \in Client, NEW k0 \in {"tick", "call"}, <<c, k0>> \in Job, Store(c, k0)
    PROVE  AddressInv'
<1> DEFINE j == <<c, k0>>
           w == [job[j] EXCEPT !.at = "stored", !.old = addrs[c]]
<1>1. /\ addrs' = [addrs EXCEPT ![c] = job[j].new] /\ job' = [job EXCEPT ![j] = w]
      /\ phase' = phase /\ registry' = registry /\ job[j].at = "got"
      /\ raced' = IF Stored(c) # {} \/ phase[c] # "open" THEN raced \cup {c} ELSE raced
  BY DEF Store
<1>2. IsWork(w) /\ w.at = "stored" /\ w.old = addrs[c] /\ w.new = job[j].new
  BY StoredNow DEF AddressTypeOK
<1> HIDE DEF w
<1>3. /\ job'[j] = w /\ \A i \in Job \ {j} : job'[i] = job[i]
      /\ job' = [i \in Job |-> job'[i]] /\ \A i \in Job : IsWork(job'[i])
  BY <1>1, <1>2, JobTurned
<1>4. AddressTypeOK'
  BY <1>1, <1>3 DEF AddressTypeOK
<1>5. addrs'[c] = w.new /\ \A d \in Client \ {c} : addrs'[d] = addrs[d]
  BY <1>1, <1>2 DEF AddressTypeOK
<1>6. ASSUME raced' = {} PROVE CallsInv' /\ HeldInv'
  <2>1. raced = {} /\ Stored(c) = {} /\ phase[c] = "open" /\ CallsInv /\ HeldInv
    BY <1>1, <1>6
  <2>2. job[<<c, "new">>].at = "idle" /\ job[<<c, "close">>].at = "idle"
    BY <2>1 DEF CallsInv, NewInv, CloseInv
  <2>3. Stored(c)' = {k0} /\ \A d \in Client \ {c} : Stored(d)' = Stored(d)
    BY <1>2, <1>3, <2>1, Jobs DEF Stored
  <2>4. NewInv' /\ CloseInv'
    BY <1>1, <1>3, <1>5, <2>1, <2>2, <2>3, Jobs DEF CallsInv, NewInv, CloseInv
  <2>5. RefreshInv'
    <3> SUFFICES ASSUME NEW i \in Job, i[2] \in {"tick", "call"}, job'[i].at = "stored"
                 PROVE  /\ phase'[i[1]] = "open" /\ job'[i].new = addrs'[i[1]]
                        /\ Stored(i[1])' = {i[2]}
      BY DEF RefreshInv
    <3>1. CASE i = j
      BY <3>1, <1>1, <1>2, <1>3, <1>5, <2>1, <2>3
    <3>2. CASE i # j
      <4>1. i = <<i[1], i[2]>> /\ i[1] \in Client /\ job'[i] = job[i]
        BY <3>2, <1>3, Jobs
      <4>2. i[2] \in Stored(i[1])
        BY <4>1 DEF Stored
      <4>3. i[1] # c
        BY <4>2, <2>1
      <4> QED
        BY <4>1, <4>3, <1>1, <1>5, <2>1, <2>3 DEF CallsInv, RefreshInv
    <3> QED
      BY <3>1, <3>2
  <2>6. ResolveInv'
    BY <1>3, <2>1, Jobs DEF CallsInv, ResolveInv
  <2>7. HeldInv'
    <3> SUFFICES ASSUME NEW k \in Key, registry'[k] # 0 PROVE \E d \in Client : Holds(d, k)'
      BY DEF HeldInv
    <3>1. PICK d \in Client : Holds(d, k)
      BY <1>1, <2>1 DEF HeldInv
    <3>2. CASE d = c
      <4>1. addrs[c][k] = registry[k]
        <5> SUFFICES ASSUME NEW i \in Job, i[1] = c, job[i].at = "stored" PROVE FALSE
          BY <3>1, <3>2 DEF Holds
        <5>1. i = <<c, i[2]>> /\ i[2] \in {"new", "close", "tick", "call"}
          BY <2>1, Jobs DEF CallsInv, ResolveInv
        <5>2. i[2] \in Stored(c)
          BY <5>1, <2>2 DEF Stored
        <5> QED
          BY <5>2, <2>1
      <4> QED
        BY <4>1, <1>1, <1>2, <1>3, <2>1 DEF Holds
    <3>3. CASE d # c
      <4>1. \A i \in Job : i[1] = d => job'[i] = job[i]
        BY <3>3, <1>3
      <4> QED
        BY <3>1, <3>3, <4>1, <1>1, <1>5, Jobs DEF Holds
    <3> QED
      BY <3>2, <3>3
  <2> QED
    BY <2>4, <2>5, <2>6, <2>7 DEF CallsInv
<1> QED
  BY <1>4, <1>6 DEF AddressInv

LEMMA CloseKeeps ==
    ASSUME AddressTypeOK, raced = {} => CallsInv /\ HeldInv, NEW c \in Client, Close(c)
    PROVE  AddressInv'
<1> DEFINE j == <<c, "close">>
           w == [Idle EXCEPT !.at = "stored", !.old = addrs[c]]
<1>1. /\ phase[c] = "open" /\ phase' = [phase EXCEPT ![c] = "closing"]
      /\ job' = [job EXCEPT ![j] = w] /\ addrs' = addrs /\ registry' = registry
      /\ raced' = IF Stored(c) # {} THEN raced \cup {c} ELSE raced
  BY DEF Close
<1>2. IsWork(w) /\ w.at = "stored" /\ w.old = addrs[c] /\ w.new = Empty
  BY DEF IsWork, Idle
<1> HIDE DEF w
<1>3. /\ job'[j] = w /\ \A i \in Job \ {j} : job'[i] = job[i]
      /\ job' = [i \in Job |-> job'[i]] /\ \A i \in Job : IsWork(job'[i])
  BY <1>1, <1>2, JobTurned, Jobs
<1>4. AddressTypeOK'
  BY <1>1, <1>3 DEF AddressTypeOK
<1>5. phase'[c] = "closing" /\ \A d \in Client \ {c} : phase'[d] = phase[d]
  BY <1>1 DEF AddressTypeOK
<1>6. ASSUME raced' = {} PROVE CallsInv' /\ HeldInv'
  <2>1. Stored(c) = {} /\ CallsInv /\ HeldInv
    BY <1>1, <1>6
  <2>2. job[<<c, "new">>].at = "idle" /\ job[j].at = "idle"
    BY <1>1, <2>1 DEF CallsInv, NewInv, CloseInv
  <2>3. Stored(c)' = {"close"} /\ \A d \in Client \ {c} : Stored(d)' = Stored(d)
    <3>1. \A k \in {"tick", "call"} : <<c, k>> \in Job => job'[<<c, k>>].at # "stored"
      BY <1>3, <2>1 DEF Stored
    <3>2. <<c, "close">> \in Job /\ job'[<<c, "close">>].at = "stored"
      BY <1>2, <1>3, Jobs
    <3>3. Stored(c)' = {"close"}
      BY <3>1, <3>2 DEF Stored
    <3>4. \A d \in Client \ {c} : Stored(d)' = Stored(d)
      BY <1>3 DEF Stored
    <3> QED
      BY <3>3, <3>4
  <2>4. NewInv' /\ CloseInv'
    BY <1>1, <1>2, <1>3, <1>5, <2>1, <2>2, <2>3, Jobs DEF CallsInv, NewInv, CloseInv
  <2>5. RefreshInv'
    <3> SUFFICES ASSUME NEW i \in Job, i[2] \in {"tick", "call"}, job'[i].at = "stored"
                 PROVE  /\ phase'[i[1]] = "open" /\ job'[i].new = addrs'[i[1]]
                        /\ Stored(i[1])' = {i[2]}
      BY DEF RefreshInv
    <3>1. i = <<i[1], i[2]>> /\ i[1] \in Client /\ job'[i] = job[i]
      BY <1>3, Jobs
    <3>2. i[2] \in Stored(i[1])
      BY <3>1 DEF Stored
    <3>3. i[1] # c
      BY <3>2, <2>1
    <3> QED
      BY <3>1, <3>3, <1>1, <1>5, <2>1, <2>3 DEF CallsInv, RefreshInv
  <2>6. ResolveInv'
    BY <1>3, <2>1, Jobs DEF CallsInv, ResolveInv
  <2>7. HeldInv'
    <3>1. \A i \in Job : job[i].at = "stored" => job'[i] = job[i]
      BY <1>3, <2>2
    <3>2. \A d \in Client, k \in Key : Holds(d, k) => Holds(d, k)'
      BY <1>1, <1>2, <1>3, <1>5, <3>1, Jobs DEF Holds
    <3> QED
      BY <3>2, <1>1, <2>1 DEF HeldInv
  <2> QED
    BY <2>4, <2>5, <2>6, <2>7 DEF CallsInv
<1> QED
  BY <1>4, <1>6 DEF AddressInv

(* A resolver that notifies itself holds no table of a client.             *)
LEMMA ResolveKeeps ==
    ASSUME AddressTypeOK, raced = {} => CallsInv /\ HeldInv,
           (\E t \in Dialled : Build(t)) \/ ResolveNow
    PROVE  AddressInv'
<1> DEFINE w == [Idle EXCEPT !.at = "notify"]
<1>1. /\ job[ResolveJob].at = "idle" /\ job' = [job EXCEPT ![ResolveJob] = w]
      /\ phase' = phase /\ addrs' = addrs /\ raced' = raced /\ registry' = registry
  BY DEF Build, ResolveNow
<1>2. IsWork(w) /\ w.at = "notify"
  BY Works
<1> HIDE DEF w
<1>3. /\ job'[ResolveJob] = w /\ \A i \in Job \ {ResolveJob} : job'[i] = job[i]
      /\ job' = [i \in Job |-> job'[i]] /\ \A i \in Job : IsWork(job'[i])
  BY <1>1, <1>2, JobTurned, Jobs
<1>4. AddressTypeOK'
  BY <1>1, <1>3 DEF AddressTypeOK
<1>5. /\ \A i \in Job : i[2] # "resolve" => job'[i] = job[i]
      /\ \A i \in Job : job[i].at = "stored" \/ job'[i].at = "stored" => job'[i] = job[i]
  BY <1>1, <1>2, <1>3, Jobs
<1>6. \A d \in Client : Stored(d)' = Stored(d)
  BY <1>5 DEF Stored
<1>7. ASSUME CallsInv PROVE CallsInv'
  <2>1. NewInv' /\ CloseInv'
    BY <1>1, <1>5, <1>6, <1>7, Jobs DEF CallsInv, NewInv, CloseInv
  <2>2. RefreshInv'
    <3>1. \A i \in Job : i[2] \in {"tick", "call"} => i[1] \in Client
      BY Jobs
    <3> QED
      BY <1>1, <1>5, <1>6, <1>7, <3>1 DEF CallsInv, RefreshInv
  <2>3. ResolveInv'
    BY <1>2, <1>3 DEF ResolveInv
  <2> QED
    BY <2>1, <2>2, <2>3 DEF CallsInv
<1>8. ASSUME HeldInv PROVE HeldInv'
  <2>1. \A d \in Client : <<d, "close">> \in Job
    BY Jobs
  <2>2. \A d \in Client, k \in Key : Holds(d, k) => Holds(d, k)'
    BY <1>1, <1>5, <2>1 DEF Holds
  <2> QED
    BY <1>1, <2>2, <1>8 DEF HeldInv
<1> QED
  BY <1>1, <1>4, <1>7, <1>8 DEF AddressInv

-----------------------------------------------------------------------------

LEMMA InitKeeps == AddressInit => AddressInv
<1> SUFFICES ASSUME AddressInit PROVE AddressInv
  OBVIOUS
<1>1. IsWork(Idle) /\ Idle.at = "idle"
  BY Works
<1>2. job = [j \in Job |-> Idle]
  BY DEF AddressInit
<1> HIDE DEF Idle
<1>3. \A j \in Job : job[j].at = "idle"
  BY <1>1, <1>2
<1>4. AddressTypeOK
  BY <1>1, <1>2 DEF AddressInit, AddressTypeOK
<1>5. CallsInv
  BY <1>3, Jobs DEF CallsInv, NewInv, CloseInv, RefreshInv, ResolveInv
<1>6. HeldInv
  BY DEF AddressInit, Empty, HeldInv
<1> QED
  BY <1>4, <1>5, <1>6 DEF AddressInv

(* The three calls that put their change into the registry.                *)
LEMMA ChangesSwap ==
    ASSUME NEW j \in Job, CallsInv,
           \/ \E c \in Client : j = <<c, "new">> /\ Merge(c)
           \/ \E c \in Client : j = <<c, "close">> /\ Remove(c)
           \/ j[2] \in {"tick", "call"} /\ Swap(j[1], j[2])
    PROVE  /\ job[j].at = "stored"
           /\ Notify(j, Swapped(registry, job[j].old, job[j].new))
<1>1. ASSUME NEW c \in Client, j = <<c, "new">>, Merge(c)
      PROVE  /\ job[j].at = "stored" /\ job[j].old = Empty
             /\ Notify(j, Swapped(registry, Empty, job[j].new))
  BY <1>1 DEF Merge, Merged, CallsInv, NewInv
<1>2. ASSUME NEW c \in Client, j = <<c, "close">>, Remove(c)
      PROVE  /\ job[j].at = "stored" /\ job[j].new = Empty
             /\ Notify(j, Swapped(registry, job[j].old, Empty))
  BY <1>2 DEF Remove, Removed, CallsInv, CloseInv
<1>3. ASSUME j[2] \in {"tick", "call"}, Swap(j[1], j[2])
      PROVE  /\ job[j].at = "stored"
             /\ Notify(j, Swapped(registry, job[j].old, job[j].new))
  <2>1. j = <<j[1], j[2]>>
    BY Jobs
  <2> QED
    BY <1>3, <2>1 DEF Swap
<1> QED
  BY <1>1, <1>2, <1>3

LEMMA SwapKeeps ==
    ASSUME AddressTypeOK, raced = {}, CallsInv, HeldInv, NEW j \in Job, job[j].at = "stored",
           Notify(j, Swapped(registry, job[j].old, job[j].new))
    PROVE  AddressInv'
<1>1. Proceeds(j) /\ registry' = Swapped(registry, job[j].old, job[j].new)
  BY NotifyProceeds
<1> QED
  BY <1>1, ProceedTypes, ProceedCalls, SwapHolds DEF AddressInv

LEMMA NotifyKeeps ==
    ASSUME AddressTypeOK, raced = {}, CallsInv, HeldInv, NEW j \in Job, Translate(j) \/ UpdateState(j)
    PROVE  AddressInv'
<1>1. Proceeds(j) /\ registry' = registry /\ job[j].at # "stored"
  BY TranslateProceeds, UpdateProceeds
<1>2. \A c \in Client, k \in Key : Holds(c, k) => Holds(c, k)'
  BY <1>1, ProceedHolds
<1>3. HeldInv'
  BY <1>1, <1>2 DEF HeldInv
<1> QED
  BY <1>1, <1>3, ProceedTypes, ProceedCalls DEF AddressInv

LEMMA NextKeeps == AddressInv /\ [AddressNext]_addressVars => AddressInv'
<1> SUFFICES ASSUME AddressInv, [AddressNext]_addressVars PROVE AddressInv'
  OBVIOUS
<1>1. AddressTypeOK /\ (raced = {} => CallsInv /\ HeldInv)
  BY DEF AddressInv
<1>2. CASE UNCHANGED <<phase, addrs, job, registry, raced>>
  <2>1. UNCHANGED <<AddressTypeOK, CallsInv, HeldInv, raced>>
    BY <1>2 DEF AddressTypeOK, CallsInv, NewInv, CloseInv, RefreshInv, ResolveInv, HeldInv, Holds, Stored
  <2> QED
    BY <1>1, <2>1 DEF AddressInv
<1>3. CASE AddressNext
  <2>1. raced = {} /\ CallsInv /\ HeldInv
    BY <1>1, <1>3 DEF AddressNext
  <2>2. CASE \E f \in Forward : ForwardChanges(f)
    BY <2>2, <1>2 DEF ForwardChanges
  <2>3. CASE \E c \in Client, enabled \in {"unset", "on", "off"}, found \in Found :
                New(c, enabled, found)
    BY <2>3, <1>1, NewKeeps
  <2>4. CASE \E c \in Client : Merge(c) \/ Remove(c)
    <3>1. PICK c \in Client : Merge(c) \/ Remove(c)
      BY <2>4
    <3>2. PICK j \in Job : \/ j = <<c, "new">> /\ Merge(c)
                           \/ j = <<c, "close">> /\ Remove(c)
      BY <3>1, Jobs
    <3> QED
      BY <3>2, <1>1, <2>1, ChangesSwap, SwapKeeps
  <2>5. CASE \E c \in Client : Close(c)
    BY <2>5, <1>1, CloseKeeps
  <2>6. CASE \E j \in Job : j[2] \in {"tick", "call"} /\ Swap(j[1], j[2])
    BY <2>6, <1>1, <2>1, ChangesSwap, SwapKeeps
  <2>7. CASE \E j \in Job : /\ j[2] \in {"tick", "call"}
                            /\ Fetch(j[1], j[2]) \/ Store(j[1], j[2])
    <3>1. PICK j \in Job : j[2] \in {"tick", "call"} /\ (Fetch(j[1], j[2]) \/ Store(j[1], j[2]))
      BY <2>7
    <3>2. j[1] \in Client /\ <<j[1], j[2]>> \in Job
      BY <3>1, Jobs
    <3> QED
      BY <3>1, <3>2, <1>1, FetchKeeps, StoreKeeps
  <2>8. CASE \E j \in Job : Translate(j) \/ UpdateState(j)
    BY <2>8, <1>1, <2>1, NotifyKeeps
  <2>9. CASE (\E t \in Dialled : Build(t)) \/ ResolveNow
    BY <2>9, <1>1, ResolveKeeps
  <2> QED
    BY <1>3, <2>2, <2>3, <2>4, <2>5, <2>6, <2>7, <2>8, <2>9 DEF AddressNext
<1>4. CASE UNCHANGED addressVars
  BY <1>4, <1>2 DEF addressVars
<1> QED
  BY <1>3, <1>4

LEMMA AddressInvHolds == AddressSpec => []AddressInv
BY InitKeeps, NextKeeps, PTL DEF AddressSpec

(* Whatever clients open, refresh and close, whatever the daemon answers   *)
(* them and in whatever order their calls reach the registry: unless two   *)
(* calls of one client raced, every address there is one that a client     *)
(* which is not yet closed holds or is about to take out                   *)
(* (global_resolver.go: merge, swap, remove; client.go: New, Refresh,      *)
(* Close).                                                                 *)
THEOREM RegistryHasOwners == AddressSpec => []NoLeftovers
<1>1. AddressInv => NoLeftovers
  BY DEF AddressInv, HeldInv, Holds, NoLeftovers
<1> QED
  BY <1>1, AddressInvHolds, PTL

-----------------------------------------------------------------------------
(* Gateway *)

(* A client gets as far as a dial only with its credentials shown; in      *)
(* SOCKS, where they come before the request, as far as the request.       *)
Granted ==
    \A c \in Conn :
        (\/ pc[c] \in {"connecting", "dialling"} \cup Connected
         \/ kind = "socks" /\ pc[c] = "request")
        => (auth => proved[c])

(* The request in hand is for the host that was asked for. *)
RequestMatches ==
    \A c \in Conn :
        /\ pc[c] \in {"connecting", "dialling"} => asked[c] \in Host
        /\ pc[c] \in {"dialling", "forward"} =>
              request[c] \in Request /\ request[c].host = asked[c]

IInv == TypeOK /\ Granted /\ RequestMatches /\ UpstreamTrusted

(* The initial states satisfy the invariant. *)
LEMMA InitInv == Init => IInv
  BY GatewayAssumption DEF Init, IInv, TypeOK, Granted, RequestMatches, UpstreamTrusted,
     Request, NoRequest, Both, Reading, Handshake, Connected

(* A handler that returns leaves nothing to be granted or sent. *)
LEMMA ClosedInv ==
  ASSUME IInv, NEW c \in Conn, serve \notin {"connect", "listen", "failed"}, Closed(c)
  PROVE  IInv'
  <1>1. TypeOK'
    BY GatewayAssumption DEF IInv, TypeOK, Closed, serverVars, Request, NoRequest, Both, Reading, Handshake, Connected
  <1>2. Granted'
    BY DEF IInv, TypeOK, Granted, Closed, serverVars, Connected
  <1>3. RequestMatches'
    BY DEF IInv, TypeOK, RequestMatches, Closed
  <1>4. UpstreamTrusted'
    BY DEF IInv, UpstreamTrusted, Closed, serverVars
  <1> QED BY <1>1, <1>2, <1>3, <1>4 DEF IInv

-----------------------------------------------------------------------------
(* The goroutine that owns the server: it touches no connection, and it is *)
(* back in "connect", "listen" or "failed" only from there.                *)
LEMMA ServerInv ==
  ASSUME IInv, UNCHANGED <<serverVars, connVars, upstream>>,
         serve' \in {"connect", "listen", "accept", "drain", "returned", "failed"},
         serve' \in {"connect", "listen", "failed"} => serve \in {"connect", "listen", "failed"},
         daemon' \in {"none", "open", "closed"},
         ctxDone' \in BOOLEAN
  PROVE  IInv'
  <1>1. TypeOK'
    BY DEF IInv, TypeOK, serverVars, connVars
  <1>2. Granted' /\ RequestMatches' /\ UpstreamTrusted'
    BY DEF IInv, Granted, RequestMatches, UpstreamTrusted, serverVars, connVars
  <1> QED BY <1>1, <1>2 DEF IInv

LEMMA ServerSteps ==
  ASSUME IInv,
         \/ \E ok \in BOOLEAN : ConnectDaemon(ok) \/ Listen(ok)
         \/ Cancel \/ CloseListener \/ ServeReturns \/ CloseClient
  PROVE  IInv'
  <1> USE DEF IInv, TypeOK
  <1>1. CASE \E ok \in BOOLEAN : ConnectDaemon(ok) \/ Listen(ok)
    BY <1>1, ServerInv DEF ConnectDaemon, Listen
  <1>2. CASE Cancel
    BY <1>2, ServerInv DEF Cancel
  <1>3. CASE CloseListener
    BY <1>3, ServerInv DEF CloseListener
  <1>4. CASE ServeReturns
    BY <1>4, ServerInv DEF ServeReturns
  <1>5. CASE CloseClient
    BY <1>5, ServerInv DEF CloseClient
  <1> QED BY <1>1, <1>2, <1>3, <1>4, <1>5

-----------------------------------------------------------------------------
(* A connection is accepted with nothing granted, and its deadline passes. *)
LEMMA AcceptInv ==
  ASSUME IInv, NEW c \in Conn, Accept(c) \/ Expire(c)
  PROVE  IInv'
  <1>1. TypeOK'
    BY DEF IInv, TypeOK, Accept, Expire, serverVars, Reading, Handshake, Connected
  <1>2. Granted'
    BY DEF IInv, TypeOK, Granted, Accept, Expire, serverVars, Connected
  <1>3. RequestMatches' /\ UpstreamTrusted'
    BY DEF IInv, TypeOK, RequestMatches, UpstreamTrusted, Accept, Expire, serverVars
  <1> QED BY <1>1, <1>2, <1>3 DEF IInv

(* A connection that is under way belongs to a server that accepts or      *)
(* drains, or has done so.                                                 *)
LEMMA Serving ==
  ASSUME IInv, NEW c \in Conn, pc[c] # "none"
  PROVE  serve \notin {"connect", "listen", "failed"}
  BY DEF IInv, TypeOK

(* The SOCKS handshake grants the request only after the credentials. *)
LEMMA NegotiateInv ==
  ASSUME IInv, NEW c \in Conn,
         \/ \E methods \in SUBSET {"none", "userpass"} : Negotiate(c, methods)
         \/ \E good \in BOOLEAN : NegotiateUserPass(c, good)
  PROVE  IInv'
  <1>1. CASE Closed(c)
    BY <1>1, ClosedInv, Serving DEF Negotiate, NegotiateUserPass
  <1>2. CASE Goes(c, "userpass") /\ UNCHANGED proved
    <2>1. pc[c] # "none"
      BY DEF Negotiate, NegotiateUserPass
    <2>2. TypeOK'
      BY <1>2, <2>1, Serving DEF IInv, TypeOK, Goes, serverVars, Reading, Handshake, Connected
    <2>3. Granted' /\ RequestMatches' /\ UpstreamTrusted'
      BY <1>2 DEF IInv, TypeOK, Granted, RequestMatches, UpstreamTrusted, Goes, serverVars, Connected
    <2> QED BY <2>2, <2>3 DEF IInv
  <1>3. CASE /\ Goes(c, "request") /\ pc[c] # "none"
             /\ \/ ~auth /\ UNCHANGED proved
                \/ proved' = [proved EXCEPT ![c] = TRUE]
    <2>1. TypeOK'
      BY <1>3, Serving DEF IInv, TypeOK, Goes, serverVars, Reading, Handshake, Connected
    <2>2. Granted'
      BY <1>3 DEF IInv, TypeOK, Granted, Goes, serverVars, Connected
    <2>3. RequestMatches' /\ UpstreamTrusted'
      BY <1>3 DEF IInv, TypeOK, RequestMatches, UpstreamTrusted, Goes, serverVars
    <2> QED BY <2>1, <2>2, <2>3 DEF IInv
  <1> QED BY <1>1, <1>2, <1>3 DEF Negotiate, NegotiateUserPass

(* A request leads to a dial for the host it names. *)
LEMMA AsksInv ==
  ASSUME IInv, NEW c \in Conn, NEW r \in Request, NEW how \in {"connecting", "dialling"},
         Asks(c, r, how), pc[c] = "request",
         \/ UNCHANGED proved /\ (auth => proved[c])
         \/ \E good \in BOOLEAN : proved' = [proved EXCEPT ![c] = good] /\ (auth => good)
  PROVE  IInv'
  <1>1. r.host \in Host
    BY DEF Request
  <1>2. TypeOK'
    BY <1>1, Serving DEF IInv, TypeOK, Asks, serverVars, Reading, Handshake, Connected
  <1>3. Granted'
    BY DEF IInv, TypeOK, Granted, Asks, serverVars
  <1>4. RequestMatches'
    BY <1>1 DEF IInv, TypeOK, RequestMatches, Asks
  <1>5. UpstreamTrusted'
    BY DEF IInv, TypeOK, UpstreamTrusted, Asks, serverVars
  <1> QED BY <1>2, <1>3, <1>4, <1>5 DEF IInv

LEMMA ReadInv ==
  ASSUME IInv, NEW c \in Conn,
         \/ \E h \in Host, supported \in BOOLEAN : ReadSocks(c, h, supported)
         \/ \E h \in Host, credentials \in {"none", "bad", "good"}, connect \in BOOLEAN :
               ReadHttp(c, h, credentials, connect)
  PROVE  IInv'
  <1>1. CASE Closed(c)
    BY <1>1, ClosedInv, Serving DEF ReadSocks, ReadHttp
  <1>2. CASE \E h \in Host : /\ kind = "socks" /\ pc[c] = "request"
                             /\ Asks(c, [host |-> h, secret |-> FALSE], "connecting")
                             /\ UNCHANGED proved
    <2>1. auth => proved[c]
      BY <1>2 DEF IInv, Granted
    <2>2. \A h \in Host : [host |-> h, secret |-> FALSE] \in Request
      BY DEF Request
    <2> QED BY <1>2, <2>1, <2>2, AsksInv
  <1>3. ASSUME NEW h \in Host, NEW credentials \in {"none", "bad", "good"}, NEW connect \in BOOLEAN,
               ReadHttp(c, h, credentials, connect), ~Closed(c)
        PROVE  IInv'
    <2> DEFINE r == [host |-> h, secret |-> credentials # "none"]
               how == IF connect THEN "connecting" ELSE "dialling"
    <2>1. r \in Request /\ how \in {"connecting", "dialling"}
      BY DEF Request
    <2>2. Asks(c, r, how) /\ pc[c] = "request"
      BY <1>3 DEF ReadHttp
    <2>3. \E good \in BOOLEAN : proved' = [proved EXCEPT ![c] = good] /\ (auth => good)
      <3>1. proved' = [proved EXCEPT ![c] = credentials = "good"]
        BY <1>3 DEF ReadHttp
      <3>2. auth => credentials = "good"
        BY <1>3 DEF ReadHttp
      <3> QED BY <3>1, <3>2
    <2> HIDE DEF r, how
    <2> QED BY <2>1, <2>2, <2>3, AsksInv
  <1> QED BY <1>1, <1>2, <1>3 DEF ReadSocks

-----------------------------------------------------------------------------
(* The dial succeeds: the deadline is off before the relay or the first    *)
(* request begins.                                                         *)
LEMMA DialInv ==
  ASSUME IInv, NEW c \in Conn, Dial(c)
  PROVE  IInv'
  <1>1. asked[c] # NoHost
    BY GatewayAssumption DEF IInv, RequestMatches, Dial
  <1>2. TypeOK'
    BY <1>1, Serving DEF IInv, TypeOK, Dial, serverVars, Both, Handshake, Connected
  <1>3. Granted'
    BY DEF IInv, TypeOK, Granted, Dial, serverVars, Connected
  <1>4. RequestMatches' /\ UpstreamTrusted'
    BY DEF IInv, TypeOK, RequestMatches, UpstreamTrusted, Dial, serverVars
  <1> QED BY <1>2, <1>3, <1>4 DEF IInv

(* What a relay copies is for the host that was asked for. *)
LEMMA RelayInv ==
  ASSUME IInv, NEW c \in Conn, RelayUp(c) \/ \E side \in Both : RelayEnds(c, side)
  PROVE  IInv'
  <1>1. CASE RelayUp(c)
    <2>1. asked[c] \in Host
      BY <1>1 DEF IInv, TypeOK, Connected, RelayUp
    <2> DEFINE u == [conn |-> c, target |-> asked[c], host |-> asked[c], secret |-> FALSE]
    <2>2. /\ upstream' = upstream \cup {u}
          /\ u \in [conn : Conn, target : Host, host : Host, secret : BOOLEAN]
      BY <1>1, <2>1 DEF RelayUp
    <2> HIDE DEF u
    <2>5. TypeOK'
      BY <1>1, <2>2 DEF IInv, TypeOK, RelayUp, serverVars, connVars
    <2>3. Granted' /\ RequestMatches'
      BY <1>1 DEF IInv, Granted, RequestMatches, RelayUp, serverVars, connVars
    <2>4. UpstreamTrusted'
      BY <1>1 DEF IInv, UpstreamTrusted, Granted, Connected, RelayUp, serverVars, connVars
    <2> QED BY <2>3, <2>4, <2>5 DEF IInv
  <1>2. CASE \E side \in Both : RelayEnds(c, side)
    <2>1. CASE Closed(c)
      BY <1>2, <2>1, ClosedInv, Serving DEF RelayEnds
    <2>2. CASE ~Closed(c)
      <3>1. TypeOK'
        BY <1>2, <2>2 DEF IInv, TypeOK, RelayEnds, serverVars
      <3>2. Granted' /\ RequestMatches' /\ UpstreamTrusted'
        BY <1>2, <2>2 DEF IInv, Granted, RequestMatches, UpstreamTrusted, RelayEnds, serverVars
      <3> QED BY <3>1, <3>2 DEF IInv
    <2> QED BY <2>1, <2>2
  <1> QED BY <1>1, <1>2

-----------------------------------------------------------------------------
(* Stripping keeps the host and drops the credentials. *)
LEMMA StrippedFacts ==
  ASSUME NEW r \in Request
  PROVE  Stripped(r).host = r.host /\ Stripped(r).secret = FALSE
  BY DEF Stripped, Request

(* The request that is written is for the host that is connected, and it   *)
(* has lost its proxy headers.                                             *)
LEMMA WriteInv ==
  ASSUME IInv, NEW c \in Conn, WriteRequest(c)
  PROVE  IInv'
  <1> DEFINE u == [conn |-> c, target |-> asked[c], host |-> Stripped(request[c]).host,
                   secret |-> Stripped(request[c]).secret]
  <1>1. /\ request[c] \in Request /\ request[c].host = asked[c]
        /\ auth => proved[c]
    BY DEF IInv, RequestMatches, Granted, Connected, WriteRequest
  <1>2. Stripped(request[c]).host = asked[c] /\ Stripped(request[c]).secret = FALSE
    BY <1>1, StrippedFacts
  <1>3. asked[c] \in Host
    BY <1>1 DEF Request
  <1>4. upstream' = upstream \cup {u}
    BY DEF WriteRequest
  <1>5. /\ u \in [conn : Conn, target : Host, host : Host, secret : BOOLEAN]
        /\ u.conn = c /\ u.host = u.target /\ ~u.secret
    BY <1>2, <1>3
  <1> HIDE DEF u
  <1>6. TypeOK'
    BY <1>4, <1>5, Serving DEF IInv, TypeOK, WriteRequest, serverVars, Handshake, Connected
  <1>7. Granted'
    BY DEF IInv, TypeOK, Granted, WriteRequest, serverVars, Connected
  <1>8. RequestMatches'
    BY DEF IInv, TypeOK, RequestMatches, WriteRequest
  <1>9. UpstreamTrusted'
    BY <1>1, <1>4, <1>5 DEF IInv, UpstreamTrusted, WriteRequest, serverVars
  <1> QED BY <1>6, <1>7, <1>8, <1>9 DEF IInv

(* The stream of requests goes on, to the same host only. *)
LEMMA StreamInv ==
  ASSUME IInv, NEW c \in Conn,
         \/ \E keepAlive \in BOOLEAN : ReadResponse(c, keepAlive)
         \/ \E r \in Request : NextRequest(c, r)
  PROVE  IInv'
  <1>1. CASE Closed(c)
    BY <1>1, ClosedInv, Serving DEF ReadResponse, NextRequest
  <1>2. CASE pc[c] = "response" /\ Goes(c, "next") /\ UNCHANGED proved
    <2>1. TypeOK'
      BY <1>2, Serving DEF IInv, TypeOK, Goes, serverVars, Handshake, Connected
    <2>2. Granted' /\ RequestMatches' /\ UpstreamTrusted'
      BY <1>2 DEF IInv, TypeOK, Granted, RequestMatches, UpstreamTrusted, Goes, serverVars, Connected
    <2> QED BY <2>1, <2>2 DEF IInv
  <1>3. ASSUME NEW r \in Request, NextRequest(c, r), ~Closed(c)
        PROVE  IInv'
    <2>1. pc[c] = "next" /\ r.host = asked[c] /\ pc' = [pc EXCEPT ![c] = "forward"]
      BY <1>3 DEF NextRequest
    <2>2. TypeOK'
      BY <1>3, <2>1, Serving DEF IInv, TypeOK, NextRequest, serverVars, Handshake, Connected
    <2>3. Granted' /\ UpstreamTrusted'
      BY <1>3, <2>1 DEF IInv, TypeOK, Granted, UpstreamTrusted, NextRequest, serverVars, Connected
    <2>4. RequestMatches'
      BY <1>3, <2>1 DEF IInv, TypeOK, RequestMatches, NextRequest
    <2> QED BY <2>2, <2>3, <2>4 DEF IInv
  <1> QED BY <1>1, <1>2, <1>3 DEF ReadResponse

(* The handlers' other ends. *)
LEMMA FailsInv ==
  ASSUME IInv, NEW c \in Conn, ReadFails(c) \/ DialFails(c) \/ TargetFails(c)
  PROVE  IInv'
  <1>1. Closed(c) /\ pc[c] # "none"
    BY DEF ReadFails, DialFails, TargetFails, Reading
  <1> QED BY <1>1, ClosedInv, Serving

-----------------------------------------------------------------------------
(* The inductive step. *)
LEMMA NextInv == IInv /\ [Next]_vars => IInv'
  <1> SUFFICES ASSUME IInv, [Next]_vars PROVE IInv'
    OBVIOUS
  <1>1. CASE UNCHANGED vars
    BY <1>1 DEF IInv, TypeOK, Granted, RequestMatches, UpstreamTrusted, vars, serverVars, connVars
  <1>2. ASSUME NEW c \in Conn, Handler(c) PROVE IInv'
    BY <1>2, NegotiateInv, ReadInv, FailsInv, DialInv, RelayInv, WriteInv, StreamInv DEF Handler
  <1>3. CASE Next
    BY <1>2, <1>3, ServerSteps, AcceptInv DEF Next
  <1> QED BY <1>1, <1>3

(* Every reachable state is well typed; in particular a connection that    *)
(* relays or forwards has its handshake deadline lifted (socks.go:160).    *)
THEOREM TypeCorrect == Spec => []TypeOK
  <1>1. IInv => TypeOK
    BY DEF IInv
  <1> QED BY InitInv, NextInv, <1>1, PTL DEF Spec

(* Whatever a target is sent was meant for it and comes from a client that *)
(* has shown its credentials, and carries none of them (httpproxy.go:185). *)
THEOREM TrustCorrect == Spec => []UpstreamTrusted
  <1>1. IInv => UpstreamTrusted
    BY DEF IInv
  <1> QED BY InitInv, NextInv, <1>1, PTL DEF Spec
=============================================================================
