---------------------------- MODULE ManagerProofs ----------------------------
(* Theorems about Manager, for every value of its constants. *)
EXTENDS Manager, SequenceTheorems, TLAPS

(* Control: a call in progress has a request; the loop executes the request *)
(* of a waiting caller; doRemove's loop has a child to go on with and       *)
(* removeSingle's second half a struct to cancel.                           *)
ControlOK ==
    /\ \A c \in Caller : at[c] # "idle" => req[c] \in Request
    /\ loop \in {"add", "remove", "unlink", "cancel"} =>
          /\ serving \in Caller
          /\ at[serving] = "waiting"
    /\ loop = "add" => req[serving] \in [op : {"add"}, arg : Service]
    /\ loop \in {"remove", "unlink", "cancel"} =>
          req[serving] \in [op : {"remove"}, arg : Name]
    /\ loop \in {"unlink", "cancel"} => pending # <<>>
    /\ loop = "cancel" => victim \in Pf

(* A registered struct has been allocated, for a service of that name.      *)
EntriesNamed ==
    \A n \in Name : Registered(n) =>
        /\ forwards[n] <= nPf
        /\ svc[forwards[n]] \in Entry
        /\ svc[forwards[n]].name = n

(* Removing the only occurrence of an element from a sequence. *)
LEMMA RemoveFirstFacts ==
    ASSUME NEW S, NEW s \in Seq(S), NEW k \in 1..Len(s),
           \A i, j \in 1..Len(s) : s[i] = s[j] => i = j
    PROVE  /\ RemoveFirst(s, s[k]) \in Seq(S)
           /\ Len(RemoveFirst(s, s[k])) = Len(s) - 1
           /\ \A i \in 1..(Len(s) - 1) :
                RemoveFirst(s, s[k])[i] = IF i < k THEN s[i] ELSE s[i + 1]
  <1> DEFINE I == {i \in 1..Len(s) : s[i] = s[k]}
  <1>1. I = {k}
    OBVIOUS
  <1>2. Min(I) = k
    BY <1>1 DEF Min
  <1>3. SelectInSeq(s, LAMBDA v : v = s[k]) = k
    BY <1>1, <1>2 DEF SelectInSeq
  <1>4. RemoveFirst(s, s[k]) = RemoveAt(s, k)
    BY <1>3 DEF RemoveFirst
  <1> DEFINE A == SubSeq(s, 1, k - 1)
             B == SubSeq(s, k + 1, Len(s))
  <1>5. /\ A \in Seq(S)
        /\ Len(A) = k - 1
        /\ \A i \in 1..(k - 1) : A[i] = s[i]
    OBVIOUS
  <1>6. /\ B \in Seq(S)
        /\ Len(B) = Len(s) - k
        /\ \A i \in 1..(Len(s) - k) : B[i] = s[i + k]
    OBVIOUS
  <1>7. RemoveFirst(s, s[k]) = A \o B
    BY <1>4 DEF RemoveAt
  <1>8. Len(s) \in Nat
    OBVIOUS
  <1> HIDE DEF A, B, I
  <1>9. A \o B \in Seq(S) /\ Len(A \o B) = Len(s) - 1
    BY <1>5, <1>6, <1>8
  <1>10. ASSUME NEW i \in 1..(Len(s) - 1)
         PROVE  (A \o B)[i] = IF i < k THEN s[i] ELSE s[i + 1]
    <2>1. CASE i < k
      BY <2>1, <1>5, <1>6, <1>8
    <2>2. CASE ~(i < k)
      <3>1. (A \o B)[i] = B[i - (k - 1)]
        BY <2>2, <1>5, <1>6, <1>8
      <3>2. i - (k - 1) \in 1..(Len(s) - k) /\ (i - (k - 1)) + k = i + 1
        BY <2>2, <1>8
      <3>3. B[i - (k - 1)] = s[(i - (k - 1)) + k]
        BY <3>2, <1>6
      <3>4. QED
        BY <2>2, <3>1, <3>2, <3>3
    <2>3. QED
      BY <2>1, <2>2
  <1>11. QED
    BY <1>7, <1>9, <1>10

LEMMA InitType == Init => TypeOK /\ ControlOK
  <1>1. Len(Configured) \in Nat
    BY ConstantsAssumption
  <1>2. <<>> \in Seq(Name)
    OBVIOUS
  <1>3. Init => TypeOK
    <2> SUFFICES ASSUME Init PROVE TypeOK
      OBVIOUS
    <2>1. external \subseteq Name
      BY ConstantsAssumption DEF Init
    <2>2. nPf \in 0..MaxPf /\ booted \in 0..Len(Configured) /\ calls \in 0..MaxCalls
      BY <1>1, ConstantsAssumption DEF Init
    <2>3. restarts \in [Pf -> 0..RestartCap]
      BY ConstantsAssumption DEF Init
    <2>4. QED
      BY <1>2, <2>1, <2>2, <2>3 DEF Init, TypeOK, State, Phase, LoopPc, Result
  <1>4. Init => ControlOK
    BY DEF Init, ControlOK
  <1>5. QED
    BY <1>3, <1>4

(* A supervisor's step is well typed when the fields it writes are. *)
SupFrame ==
    UNCHANGED <<directory, external, multiVars, nPf, svc, loopVars, callerVars, stopVars>>

SupFields ==
    /\ state \in [Pf -> State]
    /\ restarts \in [Pf -> 0..RestartCap]
    /\ actualPort \in [Pf -> Port \cup {0}]
    /\ sup \in [Pf -> Phase]
    /\ cancelled \subseteq Pf
    /\ bound \in [Port -> Pf \cup {None}]

LEMMA SupFrameType ==
    ASSUME TypeOK, ControlOK, SupFrame, SupFields'
    PROVE  TypeOK' /\ ControlOK'
  <1> USE DEF SupFrame, directory, multiVars, loopVars, callerVars, stopVars
  <1>1. TypeOK'
    BY DEF SupFields, TypeOK
  <1>2. ControlOK'
    BY DEF ControlOK
  <1>3. QED
    BY <1>1, <1>2

LEMMA GotoType ==
    ASSUME SupFields, NEW p \in Pf, NEW from, NEW to \in Phase,
           NEW st \in State,
           Goto(p, from, to) \/ GotoIn(p, from, to, st)
    PROVE  SupFrame /\ SupFields'
  BY DEF Goto, GotoIn, SupStep, SupFrame, SupFields

(* The actions that change nothing but a supervisor's own fields. *)
LEMMA SupStepType ==
    ASSUME TypeOK, ControlOK, NEW p \in Pf,
           SupProgress(p) \/ SupDrops(p) \/ SupPreempted(p)
    PROVE  TypeOK' /\ ControlOK'
  <1>0. SupFields
    BY DEF TypeOK, SupFields
  <1>a. SUFFICES SupFrame /\ SupFields'
    BY SupFrameType
  <1>b. /\ {"head", "begin", "launch", "dial", "up", "errored", "preempted", "fail",
            "backoff", "done"} \subseteq Phase
        /\ {"starting", "stopped"} \subseteq State
    BY DEF Phase, State
  <1>1. CASE SupHead(p)
    BY <1>0, <1>1, <1>b, GotoType DEF SupHead
  <1>2. CASE SupBegin(p)
    BY <1>0, <1>2, <1>b, GotoType DEF SupBegin
  <1>3. CASE SupLaunch(p)
    BY <1>0, <1>3, <1>b DEF SupLaunch, SupStep, SupFrame, SupFields
  <1>4. CASE SupReady(p)
    <2>1. PICK q \in Port :
             /\ SupStep(p, "dial", "up")
             /\ bound' = [bound EXCEPT ![q] = p]
             /\ state' = [state EXCEPT ![p] = "running"]
             /\ actualPort' = [actualPort EXCEPT ![p] = q]
             /\ UNCHANGED <<restarts, cancelled>>
      BY <1>4 DEF SupReady
    <2>2. SupFrame /\ sup' \in [Pf -> Phase]
      BY <1>0, <1>b, <2>1 DEF SupStep, SupFrame, SupFields
    <2>3. QED
      BY <1>0, <2>1, <2>2 DEF SupFields, State
  <1>5. CASE SupDialFails(p) \/ SupLost(p) \/ SupDrops(p) \/ SupCancelled(p)
             \/ SupPreempted(p)
    BY <1>0, <1>5, <1>b, GotoType
       DEF SupDialFails, SupLost, SupDrops, SupCancelled, SupPreempted
  <1>6. CASE SupReturned(p)
    BY <1>0, <1>6, <1>b, GotoType DEF SupReturned
  <1>7. CASE SupFail(p)
    <2>1. Bump(restarts[p]) \in 0..RestartCap
      BY <1>0, ConstantsAssumption DEF Bump, SupFields
    <2>2. restarts' \in [Pf -> 0..RestartCap]
      BY <1>0, <1>7, <2>1 DEF SupFail, SupFields
    <2>3. SupFrame /\ sup' \in [Pf -> Phase]
      BY <1>0, <1>7, <1>b DEF SupFail, SupStep, SupFrame, SupFields
    <2>4. QED
      BY <1>0, <1>7, <2>2, <2>3 DEF SupFail, SupFields, State
  <1>8. CASE SupBackoff(p)
    BY <1>0, <1>8, <1>b, GotoType DEF SupBackoff
  <1>9. QED
    BY <1>1, <1>2, <1>3, <1>4, <1>5, <1>6, <1>7, <1>8 DEF SupProgress

-----------------------------------------------------------------------------
(* The directory invariant: what the three operations on the directory     *)
(* (NewForward, Unlink, nothing) preserve.                                  *)

DirInv == EntriesNamed /\ OrderEnumeratesForwards /\ StaticPortsDistinct

LEMMA SameDirectory ==
    ASSUME DirInv, UNCHANGED <<forwards, order, nPf, svc>>
    PROVE  DirInv'
  BY DEF DirInv, EntriesNamed, OrderEnumeratesForwards, StaticPortsDistinct, Registered

(* Allocating a struct keeps the directory well formed, provided it is     *)
(* registered only under a free name and, as a single-port service, only   *)
(* with a static port that no registered forward has.                      *)
LEMMA NewForwardDirectory ==
    ASSUME TypeOK, DirInv,
           NEW e \in Entry, NEW st, NEW ph, NEW reg \in BOOLEAN,
           NewForward(e, st, ph, reg),
           reg => ~Registered(e.name),
           reg /\ e.parent = None /\ e.port # 0 =>
              \A n \in Name : Registered(n) => svc[forwards[n]].port # e.port
    PROVE  DirInv'
  <1> DEFINE p == nPf + 1
  <1>1. /\ nPf \in Nat
        /\ p \in Pf /\ nPf' = p
        /\ e.name \in Name /\ p # None
    BY NoneAssumption, ConstantsAssumption DEF TypeOK, NewForward, Entry, Pf
  <1>2. svc' = [svc EXCEPT ![p] = e]
    BY DEF NewForward
  <1>3. CASE ~reg
    <2>1. forwards' = forwards /\ order' = order
      BY <1>3 DEF NewForward
    <2>2. \A n \in Name : Registered(n) => svc'[forwards[n]] = svc[forwards[n]]
      BY <1>1, <1>2 DEF DirInv, EntriesNamed, TypeOK, Registered
    <2>3. EntriesNamed'
      BY <1>1, <2>1, <2>2 DEF DirInv, EntriesNamed, TypeOK, Registered, Pf
    <2>4. OrderEnumeratesForwards'
      BY <2>1 DEF DirInv, OrderEnumeratesForwards, Registered
    <2>5. StaticPortsDistinct'
      BY <2>1, <2>2 DEF DirInv, StaticPortsDistinct, Registered
    <2>6. QED
      BY <2>3, <2>4, <2>5 DEF DirInv
  <1>4. CASE reg
    <2>1. /\ forwards' = [forwards EXCEPT ![e.name] = p]
          /\ order' = Append(order, e.name)
          /\ ~Registered(e.name)
      BY <1>4 DEF NewForward
    <2>2. \A n \in Name : n # e.name =>
             /\ forwards'[n] = forwards[n]
             /\ Registered(n) => svc'[forwards[n]] = svc[forwards[n]]
      BY <1>1, <1>2, <2>1 DEF DirInv, EntriesNamed, TypeOK, Registered
    <2>3. forwards'[e.name] = p /\ svc'[p] = e
      BY <1>1, <1>2, <2>1 DEF TypeOK
    <2>4. EntriesNamed'
      <3> SUFFICES ASSUME NEW n \in Name, Registered(n)'
                   PROVE  /\ forwards'[n] <= nPf'
                          /\ svc'[forwards'[n]] \in Entry
                          /\ svc'[forwards'[n]].name = n
        BY DEF EntriesNamed
      <3>1. CASE n = e.name
        BY <1>1, <2>3, <3>1
      <3>2. CASE n # e.name
        <4>1. /\ Registered(n) /\ forwards[n] \in Pf
              /\ forwards'[n] = forwards[n] /\ svc'[forwards[n]] = svc[forwards[n]]
          BY <2>2, <3>2 DEF Registered, TypeOK
        <4>2. forwards[n] <= nPf + 1
          BY <1>1, <4>1, ConstantsAssumption DEF DirInv, EntriesNamed, Pf
        <4>3. QED
          BY <1>1, <4>1, <4>2 DEF DirInv, EntriesNamed
      <3>3. QED
        BY <3>1, <3>2
    <2>5. OrderEnumeratesForwards'
      <3>1. /\ Len(order) \in Nat
            /\ Len(order') = Len(order) + 1
            /\ \A i \in 1..Len(order) : order'[i] = order[i]
            /\ order'[Len(order) + 1] = e.name
        BY <1>1, <2>1 DEF TypeOK
      <3>2. \A i \in 1..Len(order) : order[i] # e.name
        BY <2>1, <1>1 DEF DirInv, OrderEnumeratesForwards, ToSet, TypeOK
      <3>3. \A i, j \in 1..Len(order') : order'[i] = order'[j] => i = j
        BY <3>1, <3>2 DEF DirInv, OrderEnumeratesForwards
      <3>4. ToSet(order') = ToSet(order) \cup {e.name}
        <4>1. order \in Seq(Name) /\ order' \in Seq(Name)
          BY <1>1, <2>1 DEF TypeOK
        <4>2. ToSet(order) = {order[i] : i \in 1..Len(order)}
          BY <4>1 DEF ToSet
        <4>3. ToSet(order') = {order'[i] : i \in 1..Len(order')}
          BY <4>1 DEF ToSet
        <4>4. QED
          BY <3>1, <4>2, <4>3
      <3>5. \A n \in Name : Registered(n)' <=> n \in ToSet(order')
        BY <1>1, <2>2, <2>3, <3>4 DEF DirInv, OrderEnumeratesForwards, Registered
      <3>6. QED
        BY <3>3, <3>5 DEF OrderEnumeratesForwards
    <2>6. StaticPortsDistinct'
      BY <1>1, <1>4, <2>1, <2>2, <2>3 DEF DirInv, StaticPortsDistinct, Registered
    <2>7. QED
      BY <2>4, <2>5, <2>6 DEF DirInv
  <1>5. QED
    BY <1>3, <1>4

(* Unlinking a registered name keeps the directory well formed.  That      *)
(* m.order has the name once is what makes removing one occurrence enough. *)
LEMMA UnlinkDirectory ==
    ASSUME TypeOK, DirInv, NEW n \in Name, Registered(n), Unlink(n),
           UNCHANGED <<nPf, svc>>
    PROVE  /\ DirInv'
           /\ forwards' \in [Name -> Pf \cup {None}]
           /\ order' \in Seq(Name)
  <1>1. forwards' = [forwards EXCEPT ![n] = None] /\ order' = RemoveFirst(order, n)
    BY DEF Unlink
  <1>2. order \in Seq(Name) /\ Len(order) \in Nat
    BY DEF TypeOK
  <1>3. ToSet(order) = {order[i] : i \in 1..Len(order)}
    BY <1>2 DEF ToSet
  <1>4. PICK k \in 1..Len(order) : order[k] = n
    BY <1>3 DEF DirInv, OrderEnumeratesForwards
  <1>5. \A i, j \in 1..Len(order) : order[i] = order[j] => i = j
    BY DEF DirInv, OrderEnumeratesForwards
  <1>6. /\ order' \in Seq(Name)
        /\ Len(order') = Len(order) - 1
        /\ \A i \in 1..(Len(order) - 1) :
              order'[i] = IF i < k THEN order[i] ELSE order[i + 1]
    BY <1>1, <1>2, <1>4, <1>5, RemoveFirstFacts
  <1>7. forwards' \in [Name -> Pf \cup {None}]
    BY <1>1 DEF TypeOK
  <1>8. \A x \in Name : forwards'[x] = IF x = n THEN None ELSE forwards[x]
    BY <1>1 DEF TypeOK
  <1>9. EntriesNamed'
    BY <1>8 DEF DirInv, EntriesNamed, Registered
  <1>10. StaticPortsDistinct'
    BY <1>8 DEF DirInv, StaticPortsDistinct, Registered
  <1>11. \A i, j \in 1..Len(order') : order'[i] = order'[j] => i = j
    <2> SUFFICES ASSUME NEW i \in 1..(Len(order) - 1), NEW j \in 1..(Len(order) - 1),
                        order'[i] = order'[j]
                 PROVE  i = j
      BY <1>6
    <2> DEFINE h(x) == IF x < k THEN x ELSE x + 1
    <2>1. h(i) \in 1..Len(order) /\ h(j) \in 1..Len(order)
      BY <1>2
    <2>2. order'[i] = order[h(i)] /\ order'[j] = order[h(j)]
      BY <1>6
    <2>3. h(i) = h(j)
      BY <1>5, <2>1, <2>2
    <2>4. QED
      BY <2>3, <1>2
  <1>12. ToSet(order') = ToSet(order) \ {n}
    <2>1. ToSet(order') = {order'[i] : i \in 1..Len(order')}
      BY <1>6 DEF ToSet
    <2>2. ASSUME NEW x \in ToSet(order') PROVE x \in ToSet(order) \ {n}
      <3>1. PICK i \in 1..(Len(order) - 1) : x = order'[i]
        BY <2>1, <1>6
      <3>2. PICK j \in 1..Len(order) : x = order[j] /\ j # k
        BY <3>1, <1>2, <1>6
      <3>3. QED
        BY <3>2, <1>3, <1>4, <1>5
    <2>3. ASSUME NEW x \in ToSet(order) \ {n} PROVE x \in ToSet(order')
      <3>1. PICK j \in 1..Len(order) : x = order[j] /\ j # k
        BY <1>3, <1>4
      <3>2. \E i \in 1..(Len(order) - 1) : x = order'[i]
        <4>1. CASE j < k
          BY <4>1, <3>1, <1>2, <1>6
        <4>2. CASE j > k
          <5>1. j - 1 \in 1..(Len(order) - 1) /\ ~(j - 1 < k) /\ (j - 1) + 1 = j
            BY <4>2, <1>2
          <5>2. QED
            BY <5>1, <3>1, <1>6
        <4>3. QED
          BY <3>1, <4>1, <4>2, <1>2
      <3>3. QED
        BY <3>2, <2>1, <1>6
    <2>4. QED
      BY <2>2, <2>3
  <1>13. OrderEnumeratesForwards'
    BY <1>8, <1>11, <1>12 DEF DirInv, OrderEnumeratesForwards, Registered
  <1>14. QED
    BY <1>6, <1>7, <1>9, <1>10, <1>13 DEF DirInv

-----------------------------------------------------------------------------
(* The parts of the type invariant that the operations of the directory,   *)
(* and those of the event loop, change.                                    *)

DirType ==
    /\ forwards \in [Name -> Pf \cup {None}]
    /\ order \in Seq(Name)
    /\ nPf \in 0..MaxPf
    /\ svc \in [Pf -> Entry \cup {None}]
    /\ state \in [Pf -> State]
    /\ restarts \in [Pf -> 0..RestartCap]
    /\ actualPort \in [Pf -> Port \cup {0}]
    /\ sup \in [Pf -> Phase]
    /\ cancelled \subseteq Pf
    /\ bound \in [Port -> Pf \cup {None}]

LoopType ==
    /\ loop \in LoopPc
    /\ serving \in Caller \cup {None}
    /\ pending \in Seq(Name)
    /\ victim \in Pf \cup {None}
    /\ removeErr \in Result
    /\ at \in [Caller -> {"idle", "sending", "waiting"}]
    /\ req \in [Caller -> Request \cup {None}]
    /\ ret \in [Caller -> Result]

IInv == TypeOK /\ ControlOK /\ DirInv

LEMMA NewForwardType ==
    ASSUME TypeOK, NEW e \in Entry, NEW st \in State, NEW ph \in Phase,
           NEW reg \in BOOLEAN, NewForward(e, st, ph, reg)
    PROVE  DirType'
  <1>1. nPf + 1 \in Pf /\ e.name \in Name
    BY DEF NewForward, Entry
  <1>2. nPf' \in 0..MaxPf
    BY <1>1, ConstantsAssumption DEF NewForward, Pf, TypeOK
  <1>3. forwards' \in [Name -> Pf \cup {None}] /\ order' \in Seq(Name)
    BY <1>1 DEF NewForward, TypeOK
  <1>4. QED
    BY <1>1, <1>2, <1>3 DEF NewForward, TypeOK, DirType

LEMMA ServiceFields ==
    ASSUME NEW s \in Service
    PROVE  /\ s.name \in Name /\ s.multi \in BOOLEAN
           /\ s.port \in Port \cup {0} /\ s.source \in Source
  BY ConstantsAssumption

(* The success path of reserveForward, whoever calls it. *)
LEMMA ReserveStep ==
    ASSUME IInv, NEW s \in Service, Verdict(s) = "ok", ReserveAndSpawn(s)
    PROVE  /\ DirType' /\ DirInv'
           /\ children' \in [Name -> Seq(Name) \cup {None}]
           /\ resolving' \in [Service -> Nat]
  <1>1. ~Exists(s.name) /\ ~PortTaken(s)
    BY DEF Verdict
  <1>2. CASE s.multi
    <2>1. /\ children' = [children EXCEPT ![s.name] = <<>>]
          /\ resolving' = [resolving EXCEPT ![s] = @ + 1]
          /\ UNCHANGED <<forwards, order, structs, goroutines>>
      BY <1>2 DEF ReserveAndSpawn
    <2>2. DirType'
      BY <2>1 DEF IInv, TypeOK, DirType, structs, goroutines
    <2>3. DirInv'
      BY <2>1, SameDirectory DEF IInv, structs
    <2>4. QED
      BY <2>1, <2>2, <2>3, ServiceFields DEF IInv, TypeOK
  <1>3. CASE ~s.multi
    <2> DEFINE e == [name |-> s.name, port |-> s.port, parent |-> None,
                     source |-> s.source]
    <2>1. NewForward(e, "starting", "head", TRUE) /\ UNCHANGED <<children, resolving>>
      BY <1>3 DEF ReserveAndSpawn
    <2>2. e \in Entry /\ e.name = s.name /\ e.port = s.port
      BY ServiceFields DEF Entry
    <2> HIDE DEF e
    <2>3. DirType'
      BY <2>1, <2>2, NewForwardType DEF IInv, State, Phase
    <2>4. e.port # 0 => \A n \in Name : Registered(n) => svc[forwards[n]].port # e.port
      BY <1>1, <1>3, <2>2 DEF PortTaken, PortOf
    <2>5. ~Registered(e.name)
      BY <1>1, <2>2 DEF Exists
    <2>6. DirInv'
      BY <2>1, <2>2, <2>4, <2>5, NewForwardDirectory DEF IInv
    <2>7. QED
      BY <2>1, <2>3, <2>6 DEF IInv, TypeOK
  <1>4. QED
    BY <1>2, <1>3

LEMMA ReplyType ==
    ASSUME TypeOK, ControlOK, serving \in Caller, NEW r \in Result, Reply(r)
    PROVE  LoopType' /\ ControlOK'
  <1>1. LoopType'
    BY DEF Reply, TypeOK, LoopType, LoopPc, Result
  <1>2. ControlOK'
    BY DEF Reply, TypeOK, ControlOK
  <1>3. QED
    BY <1>1, <1>2

LEMMA NextChildType ==
    ASSUME TypeOK, ControlOK, loop \in {"unlink", "cancel"}, NEW err \in Result,
           NextChild(err)
    PROVE  LoopType' /\ ControlOK'
  <1>1. serving \in Caller
    BY DEF ControlOK
  <1>2. CASE Len(pending) > 1
    <2>1. /\ loop' = "unlink"
          /\ pending' = Tail(pending)
          /\ victim' = None
          /\ removeErr' = err
          /\ UNCHANGED <<serving, at, req, ret>>
      BY <1>2 DEF NextChild
    <2>2. pending \in Seq(Name) /\ Tail(pending) \in Seq(Name) /\ Tail(pending) # <<>>
      <3>1. pending \in Seq(Name) /\ Len(pending) \in Nat
        BY DEF TypeOK
      <3>2. Tail(pending) \in Seq(Name) /\ Len(Tail(pending)) = Len(pending) - 1
        BY <1>2, <3>1
      <3>3. Len(<<>>) = 0
        OBVIOUS
      <3>4. QED
        BY <1>2, <3>1, <3>2, <3>3
    <2>3. LoopType'
      BY <2>1, <2>2 DEF TypeOK, LoopType, LoopPc
    <2>4. ControlOK'
      BY <2>1, <2>2 DEF ControlOK
    <2>5. QED
      BY <2>3, <2>4
  <1>3. CASE ~(Len(pending) > 1)
    <2>1. Reply(IF err = "none" THEN "ok" ELSE err)
      BY <1>3 DEF NextChild
    <2>2. (IF err = "none" THEN "ok" ELSE err) \in Result
      BY DEF Result
    <2>3. QED
      BY <1>1, <2>1, <2>2, ReplyType
  <1>4. QED
    BY <1>2, <1>3

-----------------------------------------------------------------------------
(* Every step preserves the invariant: one lemma per goroutine. *)

LEMMA StartStep ==
    ASSUME IInv, StartWork
    PROVE  IInv'
  <1> USE DEF IInv
  <1>1. CASE StartBegin \/ StartLoop
    <2>1. UNCHANGED <<directory, external, multiVars, structs, goroutines, booted,
                      serving, pending, victim, removeErr, callerVars, stopVars>>
          /\ loop' \in {"boot", "idle"}
      BY <1>1 DEF StartBegin, StartLoop
    <2>2. DirInv'
      BY <2>1, SameDirectory DEF directory, structs
    <2>3. TypeOK' /\ ControlOK'
      BY <2>1 DEF TypeOK, ControlOK, LoopPc, directory, multiVars, structs,
                  goroutines, callerVars, stopVars
    <2>4. QED
      BY <2>2, <2>3
  <1>2. CASE StartReserve
    <2>1. /\ loop = "boot" /\ booted < Len(Configured) /\ booted' = booted + 1
          /\ UNCHANGED <<external, registering, loop, serving, pending, victim,
                         removeErr, callerVars, stopVars>>
      BY <1>2 DEF StartReserve
    <2>2. Len(Configured) \in Nat /\ booted \in Nat
      BY ConstantsAssumption DEF TypeOK
    <2> DEFINE s == Configured[booted + 1]
    <2>3. s \in Service /\ booted' \in 0..Len(Configured)
      BY <2>1, <2>2, ConstantsAssumption
    <2>4. /\ DirType' /\ DirInv'
          /\ children' \in [Name -> Seq(Name) \cup {None}]
          /\ resolving' \in [Service -> Nat]
      <3>1. CASE Verdict(s) = "ok" /\ ReserveAndSpawn(s)
        BY <2>3, <3>1, ReserveStep
      <3>2. CASE UNCHANGED <<directory, resolving, structs, goroutines>>
        <4>1. DirInv'
          BY <3>2, SameDirectory DEF directory, structs
        <4>2. QED
          BY <3>2, <4>1 DEF TypeOK, DirType, directory, structs, goroutines
      <3>3. QED
        BY <1>2, <3>1, <3>2 DEF StartReserve
    <2>5. TypeOK'
      BY <2>1, <2>3, <2>4 DEF TypeOK, DirType, callerVars, stopVars
    <2>6. ControlOK'
      BY <2>1 DEF ControlOK, callerVars
    <2>7. QED
      BY <2>4, <2>5, <2>6
  <1>3. QED
    BY <1>1, <1>2 DEF StartWork

LEMMA CallStep ==
    ASSUME IInv, NEW c \in Caller, NEW r \in Request, NEW v \in Result, Call(c, r, v)
    PROVE  IInv'
  <1> USE DEF IInv
  <1>1. DirInv'
    BY SameDirectory DEF Call, directory, structs
  <1>2. TypeOK'
    BY ConstantsAssumption DEF Call, TypeOK, directory, multiVars, structs,
                goroutines, loopVars, stopVars
  <1>3. ControlOK'
    BY DEF Call, TypeOK, ControlOK, loopVars
  <1>4. QED
    BY <1>1, <1>2, <1>3

LEMMA CallerStep ==
    ASSUME IInv, NEW c \in Caller,
           \/ \E s \in Service : CallAdd(c, s)
           \/ \E n \in Name : CallRemove(c, n)
           \/ CallerSeesDone(c)
    PROVE  IInv'
  <1>1. ASSUME NEW s \in Service, CallAdd(c, s) PROVE IInv'
    <2> DEFINE r == [op |-> "add", arg |-> s]
               v == IF ~ValidateService(s) THEN "invalid"
                    ELSE IF loop = "off" THEN "notstarted" ELSE "none"
    <2>1. r \in Request /\ v \in Result /\ Call(c, r, v)
      BY <1>1 DEF Request, Result, CallAdd
    <2> HIDE DEF r, v
    <2>2. QED
      BY <2>1, CallStep
  <1>2. ASSUME NEW n \in Name, CallRemove(c, n) PROVE IInv'
    <2> DEFINE r == [op |-> "remove", arg |-> n]
               v == IF loop = "off" THEN "notstarted" ELSE "none"
    <2>1. r \in Request /\ v \in Result /\ Call(c, r, v)
      BY <1>2 DEF Request, Result, CallRemove
    <2> HIDE DEF r, v
    <2>2. QED
      BY <2>1, CallStep
  <1>3. CASE CallerSeesDone(c)
    <2> USE <1>3 DEF IInv, CallerSeesDone
    <2>1. DirInv'
      BY SameDirectory DEF directory, structs
    <2>2. TypeOK'
      BY DEF TypeOK, Result, directory, multiVars, structs, goroutines, loopVars, stopVars
    <2>3. ControlOK'
      BY DEF TypeOK, ControlOK, loopVars
    <2>4. QED
      BY <2>1, <2>2, <2>3
  <1>4. QED
    BY <1>1, <1>2, <1>3

LEMMA LoopIdleStep ==
    ASSUME IInv, LoopExit \/ \E c \in Caller : LoopReceive(c)
    PROVE  IInv'
  <1> USE DEF IInv
  <1>1. CASE LoopExit
    <2>1. DirInv'
      BY <1>1, SameDirectory DEF LoopExit, directory, structs
    <2>2. TypeOK' /\ ControlOK'
      BY <1>1 DEF LoopExit, TypeOK, ControlOK, LoopPc, directory, multiVars, structs,
                  goroutines, callerVars, stopVars
    <2>3. QED
      BY <2>1, <2>2
  <1>2. ASSUME NEW c \in Caller, LoopReceive(c) PROVE IInv'
    <2> USE <1>2
    <2>1. DirInv'
      BY SameDirectory DEF LoopReceive, directory, structs
    <2>2. \/ req[c] \in [op : {"add"}, arg : Service] /\ req[c].op = "add"
          \/ req[c] \in [op : {"remove"}, arg : Name] /\ req[c].op = "remove"
      BY DEF LoopReceive, ControlOK, Request
    <2>3. TypeOK'
      BY <2>2 DEF LoopReceive, TypeOK, LoopPc, directory, multiVars, structs,
                  goroutines, stopVars
    <2>4. ControlOK'
      BY <2>2 DEF LoopReceive, TypeOK, ControlOK
    <2>5. QED
      BY <2>1, <2>3, <2>4
  <1>3. QED
    BY <1>1, <1>2

LEMMA LoopAddStep ==
    ASSUME IInv, LoopAdd
    PROVE  IInv'
  <1> USE DEF IInv
  <1> DEFINE s == req[serving].arg
  <1>1. serving \in Caller /\ s \in Service
    BY DEF LoopAdd, ControlOK
  <1>2. /\ Reply(Verdict(s))
        /\ UNCHANGED <<external, registering, booted, calls, stopVars>>
    BY DEF LoopAdd
  <1>3. Verdict(s) \in Result
    BY DEF Verdict, Result
  <1>4. /\ DirType' /\ DirInv'
        /\ children' \in [Name -> Seq(Name) \cup {None}]
        /\ resolving' \in [Service -> Nat]
    <2>1. CASE Verdict(s) = "ok" /\ ReserveAndSpawn(s)
      BY <1>1, <2>1, ReserveStep
    <2>2. CASE UNCHANGED <<directory, resolving, structs, goroutines>>
      <3>1. DirInv'
        BY <2>2, SameDirectory DEF directory, structs
      <3>2. QED
        BY <2>2, <3>1 DEF TypeOK, DirType, directory, structs, goroutines
    <2>3. QED
      BY <2>1, <2>2 DEF LoopAdd
  <1>5. LoopType' /\ ControlOK'
    BY <1>1, <1>2, <1>3, ReplyType
  <1>6. TypeOK'
    BY <1>2, <1>4, <1>5 DEF TypeOK, DirType, LoopType, stopVars
  <1>7. QED
    BY <1>4, <1>5, <1>6

LEMMA LoopRemoveStep ==
    ASSUME IInv, LoopRemove
    PROVE  IInv'
  <1> USE DEF IInv
  <1> DEFINE n == req[serving].arg
  <1>1. /\ serving \in Caller /\ n \in Name /\ loop = "remove"
        /\ req[serving] \in [op : {"remove"}, arg : Name]
    BY DEF LoopRemove, ControlOK
  <1>2. UNCHANGED <<external, multiVars, structs, goroutines, booted, calls, stopVars>>
    BY DEF LoopRemove
  <1>3. /\ DirInv'
        /\ forwards' \in [Name -> Pf \cup {None}]
        /\ order' \in Seq(Name)
        /\ children' \in [Name -> Seq(Name) \cup {None}]
    <2>1. children' \in [Name -> Seq(Name) \cup {None}]
      BY <1>1 DEF LoopRemove, directory, TypeOK
    <2>2. CASE Registered(n) /\ Unlink(n)
      BY <1>1, <1>2, <2>1, <2>2, UnlinkDirectory DEF structs
    <2>3. CASE UNCHANGED <<forwards, order>>
      <3>1. DirInv'
        BY <1>2, <2>3, SameDirectory DEF structs
      <3>2. QED
        BY <2>1, <2>3, <3>1 DEF TypeOK
    <2>4. QED
      BY <2>2, <2>3 DEF LoopRemove, directory
  <1>4. LoopType' /\ ControlOK'
    <2>1. CASE Reply("ok")
      BY <1>1, <2>1, ReplyType DEF Result
    <2>2. ASSUME NEW pend \in Seq(Name), pend # <<>>, loop' = "unlink",
                 pending' = pend, UNCHANGED <<serving, victim, removeErr, at, req, ret>>
          PROVE  LoopType' /\ ControlOK'
      <3>1. LoopType'
        BY <2>2 DEF TypeOK, LoopType, LoopPc
      <3>2. ControlOK'
        BY <1>1, <2>2 DEF ControlOK
      <3>3. QED
        BY <3>1, <3>2
    <2>3. CASE /\ children[n] # None /\ children[n] # <<>> /\ loop' = "unlink"
               /\ pending' = children[n]
               /\ UNCHANGED <<serving, victim, removeErr, at, req, ret>>
      <3>1. children[n] \in Seq(Name)
        BY <1>1, <2>3 DEF TypeOK
      <3>2. QED
        BY <2>2, <2>3, <3>1
    <2>4. CASE /\ loop' = "unlink" /\ pending' = <<n>>
               /\ UNCHANGED <<serving, victim, removeErr, at, req, ret>>
      <3>1. <<n>> \in Seq(Name) /\ <<n>> # <<>>
        BY <1>1
      <3>2. QED
        BY <2>2, <2>4, <3>1
    <2>5. QED
      BY <2>1, <2>3, <2>4 DEF LoopRemove
  <1>5. TypeOK'
    BY <1>2, <1>3, <1>4 DEF TypeOK, LoopType, multiVars, structs, goroutines, stopVars
  <1>6. QED
    BY <1>3, <1>4, <1>5

LEMMA LoopUnlinkStep ==
    ASSUME IInv, LoopUnlink
    PROVE  IInv'
  <1> USE DEF IInv
  <1> DEFINE n == Head(pending)
  <1>1. loop = "unlink" /\ pending \in Seq(Name) /\ pending # <<>> /\ n \in Name
    BY DEF LoopUnlink, ControlOK, TypeOK
  <1>2. UNCHANGED <<children, external, multiVars, structs, goroutines, booted, calls,
                    stopVars>>
    BY DEF LoopUnlink
  <1> HIDE DEF n
  <1>3. CASE /\ Registered(n) /\ Unlink(n) /\ victim' = forwards[n] /\ loop' = "cancel"
             /\ UNCHANGED <<serving, pending, removeErr, at, req, ret>>
    <2>1. /\ DirInv'
          /\ forwards' \in [Name -> Pf \cup {None}]
          /\ order' \in Seq(Name)
      BY <1>1, <1>2, <1>3, UnlinkDirectory DEF structs
    <2>2. victim' \in Pf
      BY <1>1, <1>3 DEF TypeOK, Registered
    <2>3. TypeOK'
      BY <1>2, <1>3, <2>1, <2>2 DEF TypeOK, LoopPc, multiVars, structs, goroutines, stopVars
    <2>4. ControlOK'
      BY <1>1, <1>3, <2>2 DEF ControlOK
    <2>5. QED
      BY <2>1, <2>3, <2>4
  <1>4. CASE NextChild(FirstErr("notfound")) /\ UNCHANGED <<forwards, order>>
    <2>1. DirInv'
      BY <1>2, <1>4, SameDirectory DEF structs
    <2>2. FirstErr("notfound") \in Result
      BY DEF FirstErr, TypeOK, Result
    <2>3. LoopType' /\ ControlOK'
      BY <1>1, <1>4, <2>2, NextChildType
    <2>4. TypeOK'
      BY <1>2, <1>4, <2>3 DEF TypeOK, LoopType, multiVars, structs, goroutines, stopVars
    <2>5. QED
      BY <2>1, <2>3, <2>4
  <1>5. QED
    BY <1>3, <1>4 DEF LoopUnlink, n

LEMMA LoopCancelStep ==
    ASSUME IInv, LoopCancel
    PROVE  IInv'
  <1> USE DEF IInv
  <1>1. victim \in Pf
    BY DEF LoopCancel, ControlOK
  <1>2. DirInv'
    BY SameDirectory DEF LoopCancel, directory
  <1>3. LoopType' /\ ControlOK'
    BY NextChildType DEF LoopCancel, TypeOK
  <1>4. TypeOK'
    BY <1>1, <1>3 DEF LoopCancel, TypeOK, LoopType, State, directory, multiVars, stopVars
  <1>5. QED
    BY <1>2, <1>3, <1>4

LEMMA ResolveStep ==
    ASSUME IInv, NEW s \in Service, Resolve(s)
    PROVE  IInv'
  <1> USE DEF IInv
  <1>1. s.name \in Name
    BY ServiceFields
  <1>2. CASE ResolveFails(s)
    <2>1. /\ resolving' = [resolving EXCEPT ![s] = @ - 1] /\ resolving[s] > 0
          /\ UNCHANGED <<children, external, registering, loopVars, callerVars, stopVars>>
      BY <1>2 DEF ResolveFails
    <2>2. DirType' /\ DirInv'
      <3> DEFINE e == [name |-> s.name, port |-> 0, parent |-> None, source |-> Native]
      <3>1. CASE ~Registered(s.name) /\ NewForward(e, "failed", "unspawned", TRUE)
        <4>1. e \in Entry /\ e.name = s.name /\ e.port = 0
          BY <1>1, ConstantsAssumption DEF Entry
        <4> HIDE DEF e
        <4>2. DirType'
          BY <3>1, <4>1, NewForwardType DEF State, Phase
        <4>3. DirInv'
          BY <3>1, <4>1, NewForwardDirectory
        <4>4. QED
          BY <4>2, <4>3
      <3>2. CASE UNCHANGED <<forwards, order, structs, goroutines>>
        <4>1. DirInv'
          BY <3>2, SameDirectory DEF structs
        <4>2. QED
          BY <3>2, <4>1 DEF TypeOK, DirType, structs, goroutines
      <3>3. QED
        BY <1>2, <3>1, <3>2 DEF ResolveFails
    <2>3. resolving' \in [Service -> Nat]
      BY <2>1 DEF TypeOK
    <2>4. TypeOK'
      BY <2>1, <2>2, <2>3 DEF TypeOK, DirType, loopVars, callerVars, stopVars
    <2>5. ControlOK'
      BY <2>1 DEF ControlOK, loopVars, callerVars
    <2>6. QED
      BY <2>2, <2>4, <2>5
  <1>3. ASSUME NEW ports \in Expansion[s.name], ResolveSucceeds(s, ports)
        PROVE  IInv'
    <2>1. DirInv'
      BY <1>3, SameDirectory DEF ResolveSucceeds, directory, structs
    <2>2. ports \in Seq(ResolvedPort)
      BY <1>1, ConstantsAssumption
    <2>3. resolving' \in [Service -> Nat]
      BY <1>3 DEF ResolveSucceeds, TypeOK
    <2>4. nPf \in Nat
      BY DEF TypeOK
    <2>5. registering' \in Registration \cup {None}
      BY <1>3, <2>2, <2>4 DEF ResolveSucceeds, Registration
    <2>6. TypeOK'
      BY <1>3, <2>3, <2>5 DEF ResolveSucceeds, TypeOK, directory, structs, goroutines,
                              loopVars, callerVars, stopVars
    <2>7. ControlOK'
      BY <1>3 DEF ResolveSucceeds, ControlOK, loopVars, callerVars
    <2>8. QED
      BY <2>1, <2>6, <2>7
  <1>4. QED
    BY <1>2, <1>3 DEF Resolve

LEMMA RegisterStep ==
    ASSUME IInv, Register
    PROVE  IInv'
  <1> USE DEF IInv
  <1>1. registering \in Registration
    BY DEF Register, RegisterChild, RegisterDone, TypeOK
  <1>2. registering.svc \in Service /\ registering.ports \in Seq(ResolvedPort)
        /\ registering.next \in Nat \ {0} /\ registering.svc.name \in Name
    BY <1>1, ServiceFields DEF Registration
  <1>3. CASE RegisterChild
    <2> DEFINE child == registering.ports[registering.next]
               e == [name |-> child.name, port |-> child.port,
                     parent |-> registering.svc.name, source |-> registering.svc.source]
               reg == ~Registered(child.name)
    <2>1. /\ NewForward(e, "starting", "unspawned", reg)
          /\ registering' = [registering EXCEPT !.next = @ + 1]
          /\ UNCHANGED <<children, external, resolving, loopVars, callerVars, stopVars>>
      BY <1>3 DEF RegisterChild
    <2>2. registering.next \in 1..Len(registering.ports)
      BY <1>2, <1>3 DEF RegisterChild
    <2>3. child \in ResolvedPort
      BY <1>2, <2>2
    <2>4. e \in Entry /\ e.name = child.name /\ e.parent # None /\ reg \in BOOLEAN
      BY <1>2, <2>3, ServiceFields, NoneAssumption DEF Entry, ResolvedPort
    <2>5. reg => ~Registered(e.name)
      BY <2>4
    <2> HIDE DEF e, reg
    <2>6. DirType'
      BY <2>1, <2>4, NewForwardType DEF State, Phase
    <2>7. DirInv'
      BY <2>1, <2>4, <2>5, NewForwardDirectory
    <2>8. registering' \in Registration
      BY <1>1, <2>1 DEF Registration
    <2>9. TypeOK'
      BY <2>1, <2>6, <2>8 DEF TypeOK, DirType, loopVars, callerVars, stopVars
    <2>10. ControlOK'
      BY <2>1 DEF ControlOK, loopVars, callerVars
    <2>11. QED
      BY <2>7, <2>9, <2>10
  <1>4. CASE RegisterDone
    <2>1. DirInv'
      BY <1>4, SameDirectory DEF RegisterDone, structs
    <2> DEFINE ports == registering.ports
               names == [i \in 1..Len(ports) |-> ports[i].name]
    <2>2. names \in Seq(Name)
      <3>1. Len(ports) \in Nat /\ \A i \in 1..Len(ports) : ports[i].name \in Name
        <4>1. Len(ports) \in Nat /\ \A i \in 1..Len(ports) : ports[i] \in ResolvedPort
          BY <1>2
        <4>2. QED
          BY <4>1 DEF ResolvedPort
      <3>2. QED
        BY <3>1
    <2>3. children' = [children EXCEPT ![registering.svc.name] = names]
      BY <1>4 DEF RegisterDone
    <2> HIDE DEF names, ports
    <2>4. children' \in [Name -> Seq(Name) \cup {None}]
      BY <1>2, <2>2, <2>3 DEF TypeOK
    <2>5. sup' \in [Pf -> Phase]
      BY <1>4 DEF RegisterDone, TypeOK, Phase
    <2>6. TypeOK'
      BY <1>4, <2>4, <2>5 DEF RegisterDone, TypeOK, structs, loopVars, callerVars, stopVars
    <2>7. ControlOK'
      BY <1>4 DEF RegisterDone, ControlOK, loopVars, callerVars
    <2>8. QED
      BY <2>1, <2>6, <2>7
  <1>5. QED
    BY <1>3, <1>4 DEF Register

LEMMA SupervisorStep ==
    ASSUME IInv, NEW p \in Pf, SupProgress(p) \/ SupDrops(p) \/ SupPreempted(p)
    PROVE  IInv'
  <1>1. UNCHANGED <<forwards, order, nPf, svc>>
    BY DEF SupProgress, SupHead, SupBegin, SupLaunch, SupReady, SupDialFails, SupLost, SupDrops,
           SupCancelled, SupPreempted, SupReturned, SupFail, SupBackoff, Goto, GotoIn,
           SupStep, directory
  <1>2. QED
    BY <1>1, SupStepType, SameDirectory DEF IInv

LEMMA StopStep ==
    ASSUME IInv,
           \/ \E p \in Pf : TunnelDies(p)
           \/ \E q \in Port : CloseListener(q)
           \/ CancelContext
           \/ StopMark
    PROVE  IInv'
  <1> USE DEF IInv
  <1>1. UNCHANGED <<forwards, order, nPf, svc, loopVars, callerVars>>
    BY DEF TunnelDies, CloseListener, CancelContext, StopMark, directory, structs
  <1>2. DirInv' /\ ControlOK'
    BY <1>1, SameDirectory DEF ControlOK, loopVars, callerVars
  <1>3. CASE \E q \in Port : CloseListener(q)
    BY <1>2, <1>3 DEF CloseListener, TypeOK, directory, multiVars, structs, loopVars,
                callerVars, stopVars
  <1>4. CASE CancelContext
    BY <1>2, <1>4 DEF CancelContext, TypeOK, directory, multiVars, structs, goroutines,
                loopVars, callerVars
  <1>5. CASE StopMark
    BY <1>2, <1>5 DEF StopMark, TypeOK, State, directory, multiVars, loopVars, callerVars
  <1>6. ASSUME NEW p \in Pf, TunnelDies(p) PROVE IInv'
    BY <1>2, <1>6 DEF TunnelDies, TypeOK, directory, multiVars, structs, loopVars,
                callerVars, stopVars
  <1>7. QED
    BY <1>3, <1>4, <1>5, <1>6

LEMMA InitInv == Init => IInv
  <1> SUFFICES ASSUME Init PROVE IInv
    OBVIOUS
  <1>1. \A n \in Name : ~Registered(n)
    BY DEF Init, Registered
  <1>2. ToSet(order) = {} /\ Len(order) = 0
    BY DEF Init, ToSet
  <1>3. DirInv
    BY <1>1, <1>2 DEF DirInv, EntriesNamed, OrderEnumeratesForwards, StaticPortsDistinct
  <1>4. QED
    BY <1>3, InitType DEF IInv

LEMMA NextInv == IInv /\ [Next]_vars => IInv'
  <1> SUFFICES ASSUME IInv, [Next]_vars PROVE IInv'
    OBVIOUS
  <1>1. CASE UNCHANGED vars
    <2>1. DirInv'
      BY <1>1, SameDirectory DEF IInv, vars, directory, structs
    <2>2. TypeOK' /\ ControlOK'
      BY <1>1 DEF IInv, TypeOK, ControlOK, vars, directory, multiVars, structs,
                  goroutines, loopVars, callerVars, stopVars
    <2>3. QED
      BY <2>1, <2>2 DEF IInv
  <1>2. CASE Next
    BY <1>2, StartStep, CallerStep, LoopIdleStep, LoopAddStep, LoopRemoveStep,
       LoopUnlinkStep, LoopCancelStep, ResolveStep, RegisterStep, SupervisorStep, StopStep
       DEF Next, LoopWork
  <1>3. QED
    BY <1>1, <1>2

LEMMA Invariance == Spec => []IInv
  BY InitInv, NextInv, PTL DEF Spec

(* Every variable of the manager keeps its type, for every set of names,   *)
(* callers and services and every bound.                                   *)
THEOREM TypeCorrect == Spec => []TypeOK
  <1>1. IInv => TypeOK
    BY DEF IInv
  <1>2. QED
    BY <1>1, Invariance, PTL

(* Whatever is added, removed, expanded or stopped in whatever order,      *)
(* m.order lists the keys of m.forwards, each once, so the dereference of  *)
(* m.forwards[name] in Status and Mappings never meets nil.   *)
THEOREM OrderCorrect == Spec => []OrderEnumeratesForwards
  <1>1. IInv => OrderEnumeratesForwards
    BY DEF IInv, DirInv
  <1>2. QED
    BY <1>1, Invariance, PTL

(* reserveForward, called serially, keeps the static local ports of        *)
(* single-port services distinct however many callers race.                *)
THEOREM StaticPortsCorrect == Spec => []StaticPortsDistinct
  <1>1. IInv => StaticPortsDistinct
    BY DEF IInv, DirInv
  <1>2. QED
    BY <1>1, Invariance, PTL

-----------------------------------------------------------------------------
(* Supervision: what the event loop, the resolvers and Stop may do to a    *)
(* struct whose supervisor runs.                                           *)

(* A struct that is not allocated has its initial fields.                  *)
FreshOK ==
    \A p \in Pf : p > nPf =>
        sup[p] = "unspawned" /\ state[p] = "starting" /\ restarts[p] = 0

(* The structs of the registration loop wait for their supervisors, and    *)
(* none of them is the one that removeSingle is about to cancel.           *)
RegisteringOK ==
    registering # None =>
        /\ registering.base <= nPf
        /\ \A p \in Pf : registering.base < p /\ p <= nPf =>
              sup[p] = "unspawned" /\ state[p] = "starting"
        /\ loop = "cancel" => victim <= registering.base

(* That one is no longer registered.                                       *)
VictimOK == loop = "cancel" => victim <= nPf /\ \A n \in Name : forwards[n] # victim

(* GivesUpOnlyWhenExhausted, of structs that are not registered as well.   *)
GaveUp ==
    \A p \in Pf : sup[p] = "done" =>
        ctxDone \/ (MaxRestarts > 0 /\ restarts[p] >= MaxRestarts)

(* The part of StatusTruthful that is about one struct.                    *)
Truthful(p) ==
    /\ sup[p] = "up" => state[p] = "running"
    /\ sup[p] \in {"launch", "dial"} => state[p] = "starting"
    /\ sup[p] \in {"backoff", "done"} => state[p] = "failed"

SupInv == FreshOK /\ RegisteringOK /\ VictimOK /\ GaveUp /\ StatusTruthful

LEMMA TruthfulStatus ==
    /\ StatusTruthful <=>
          (~ctxDone => \A n \in Name : Registered(n) => Truthful(forwards[n]))
    /\ StatusTruthful' <=>
          (~ctxDone' => \A n \in Name : Registered(n)' => (Truthful(forwards[n]))')
  BY DEF StatusTruthful, Truthful

(* Nothing happens to the structs, of which some may be unregistered.      *)
LEMMA SupQuiet ==
    ASSUME SupInv,
           UNCHANGED <<nPf, sup, state, restarts, registering, ctxDone>>,
           \A n \in Name : forwards'[n] = forwards[n] \/ forwards'[n] = None,
           loop' = "cancel" => loop = "cancel" /\ victim' = victim,
           None \notin Pf, loop = "cancel" => victim \in Pf
    PROVE  SupInv'
  <1>1. FreshOK' /\ RegisteringOK' /\ GaveUp'
    BY DEF SupInv, FreshOK, RegisteringOK, GaveUp
  <1>2. VictimOK'
    BY DEF SupInv, VictimOK
  <1>3. StatusTruthful'
    <2>1. ASSUME NEW n \in Name, Registered(n)'
          PROVE  Registered(n) /\ forwards'[n] = forwards[n]
      BY <2>1 DEF Registered
    <2>2. QED
      BY <2>1 DEF SupInv, StatusTruthful
  <1>4. QED
    BY <1>1, <1>2, <1>3 DEF SupInv

(* A struct is allocated.                                                  *)
LEMMA SupAllocate ==
    ASSUME IInv, SupInv, NEW e \in Entry, NEW st, NEW ph \in {"unspawned", "head"},
           NEW reg, NewForward(e, st, ph, reg), ctxDone' = ctxDone,
           loop' = "cancel" => loop = "cancel" /\ victim' = victim,
           \/ registering = None /\ registering' = None
           \/ /\ registering # None /\ ph = "unspawned" /\ st = "starting"
              /\ registering' # None /\ registering'.base = registering.base
    PROVE  SupInv'
  <1> DEFINE p == nPf + 1
  <1>1. nPf \in Nat /\ p \in Pf /\ nPf' = p /\ p # None
    BY NoneAssumption, ConstantsAssumption DEF IInv, TypeOK, NewForward, Pf
  <1>2. /\ sup'[p] = ph /\ state'[p] = st /\ restarts' = restarts
        /\ \A r \in Pf \ {p} : sup'[r] = sup[r] /\ state'[r] = state[r]
    BY <1>1 DEF IInv, TypeOK, NewForward
  <1>3. \A r \in Pf : r \in Nat
    BY ConstantsAssumption DEF Pf
  <1>4. \A n \in Name : forwards'[n] = forwards[n] \/ forwards'[n] = p
    BY <1>1 DEF IInv, TypeOK, NewForward
  <1>5. \A n \in Name : Registered(n) => forwards[n] <= nPf /\ forwards[n] \in Pf
    BY DEF IInv, DirInv, EntriesNamed, Registered, TypeOK
  <1>6. FreshOK'
    BY <1>1, <1>2, <1>3 DEF SupInv, FreshOK
  <1>7. loop' = "cancel" => victim' = victim /\ victim <= nPf /\ victim \in Pf
    BY DEF SupInv, VictimOK, IInv, ControlOK
  <1>8. RegisteringOK'
    <2>1. CASE registering' = None
      BY <2>1 DEF RegisteringOK
    <2>2. CASE registering # None /\ registering' # None
      <3>1. /\ ph = "unspawned" /\ st = "starting"
            /\ registering'.base = registering.base /\ registering.base <= nPf
            /\ registering.base \in Nat
        BY <2>2 DEF SupInv, RegisteringOK, IInv, TypeOK, Registration
      <3>2. \A r \in Pf : registering.base < r /\ r <= p =>
               sup'[r] = "unspawned" /\ state'[r] = "starting"
        BY <1>1, <1>2, <1>3, <2>2, <3>1 DEF SupInv, RegisteringOK
      <3>3. QED
        BY <1>1, <2>2, <3>1, <3>2 DEF SupInv, RegisteringOK
    <2>3. QED
      BY <2>1, <2>2
  <1>9. VictimOK'
    BY <1>1, <1>3, <1>4, <1>7 DEF SupInv, VictimOK
  <1>10. GaveUp'
    BY <1>2 DEF SupInv, GaveUp
  <1>11. StatusTruthful'
    <2> SUFFICES ASSUME ~ctxDone, NEW n \in Name, Registered(n)'
                 PROVE  (Truthful(forwards[n]))'
      BY TruthfulStatus
    <2>1. CASE forwards'[n] = p
      BY <1>2, <2>1 DEF Truthful
    <2>2. CASE forwards'[n] = forwards[n] /\ forwards[n] # p
      <3>1. forwards[n] \in Pf /\ Registered(n)
        BY <1>5, <2>2 DEF Registered
      <3>2. Truthful(forwards[n])
        BY <3>1, TruthfulStatus DEF SupInv
      <3>3. QED
        BY <1>2, <2>2, <3>1, <3>2 DEF Truthful
    <2>3. QED
      BY <1>4, <2>1, <2>2
  <1>12. QED
    BY <1>6, <1>8, <1>9, <1>10, <1>11 DEF SupInv

(* The steps of a supervisor, by what they do to its struct: it moves on   *)
(* and leaves the state alone, or sets it, or has failed.                  *)
LEMMA SupEffect ==
    ASSUME TypeOK, NEW p \in Pf, SupProgress(p) \/ SupDrops(p) \/ SupPreempted(p)
    PROVE  /\ UNCHANGED <<forwards, nPf, registering, loop, victim, ctxDone>>
           /\ \A r \in Pf \ {p} : UNCHANGED <<sup[r], state[r], restarts[r]>>
           /\ \/ /\ restarts'[p] = restarts[p] /\ state'[p] = state[p]
                 /\ \/ sup[p] = "head" /\ sup'[p] = "begin"
                    \/ sup[p] = "launch" /\ sup'[p] = "dial"
                    \/ sup[p] \in {"dial", "up"} /\ sup'[p] = "errored"
                    \/ sup[p] = "up" /\ sup'[p] = "preempted"
                    \/ sup[p] = "errored" /\ sup'[p] = "fail"
                    \/ sup[p] = "preempted" /\ sup'[p] = "head" /\ ~ctxDone
                    \/ sup[p] = "backoff" /\ sup'[p] = "head"
                    \/ sup[p] = "backoff" /\ sup'[p] = "done" /\ ctxDone
              \/ /\ restarts'[p] = restarts[p]
                 /\ \/ sup[p] = "begin" /\ sup'[p] = "launch" /\ state'[p] = "starting"
                    \/ sup[p] = "dial" /\ sup'[p] = "up" /\ state'[p] = "running"
                    \/ /\ sup[p] \in {"head", "errored", "preempted"} /\ sup'[p] = "done"
                       /\ state'[p] = "stopped" /\ ctxDone
              \/ /\ sup[p] = "fail" /\ state'[p] = "failed"
                 /\ restarts'[p] = Bump(restarts[p])
                 /\ sup'[p] = IF Exhausted(Bump(restarts[p])) THEN "done" ELSE "backoff"
  <1> USE DEF TypeOK, SupStep, multiVars, loopVars, stopVars, directory
  <1>1. CASE SupHead(p)
    BY <1>1 DEF SupHead, Goto, GotoIn
  <1>2. CASE SupBegin(p) \/ SupLaunch(p) \/ SupReady(p)
    BY <1>2 DEF SupBegin, SupLaunch, SupReady, GotoIn
  <1>3. CASE SupDialFails(p) \/ SupLost(p) \/ SupDrops(p) \/ SupCancelled(p) \/ SupPreempted(p)
    BY <1>3 DEF SupDialFails, SupLost, SupDrops, SupCancelled, SupPreempted, Goto
  <1>4. CASE SupReturned(p)
    BY <1>4 DEF SupReturned, Goto, GotoIn
  <1>5. CASE SupFail(p)
    BY <1>5 DEF SupFail
  <1>6. CASE SupBackoff(p)
    BY <1>6 DEF SupBackoff, Goto
  <1>7. QED
    BY <1>1, <1>2, <1>3, <1>4, <1>5, <1>6 DEF SupProgress

LEMMA SupervisorTruthful ==
    ASSUME IInv, SupInv, NEW p \in Pf, SupProgress(p) \/ SupDrops(p) \/ SupPreempted(p)
    PROVE  SupInv'
  <1>1. /\ UNCHANGED <<forwards, nPf, registering, loop, victim, ctxDone>>
        /\ \A r \in Pf \ {p} : UNCHANGED <<sup[r], state[r], restarts[r]>>
    BY SupEffect DEF IInv
  <1>2. /\ sup[p] # "unspawned" /\ sup[p] # "done"
        /\ sup'[p] = "done" => \/ ctxDone
                               \/ Exhausted(restarts'[p]) /\ state'[p] = "failed"
        /\ sup'[p] = "up" => state'[p] = "running"
        /\ sup'[p] = "launch" => state'[p] = "starting"
        /\ sup'[p] = "dial" => sup[p] = "launch" /\ state'[p] = state[p]
        /\ sup'[p] = "backoff" => state'[p] = "failed"
    BY SupEffect, Zenon DEF IInv
  <1>3. FreshOK'
    BY <1>1, <1>2 DEF SupInv, FreshOK
  <1>4. RegisteringOK'
    BY <1>1, <1>2 DEF SupInv, RegisteringOK
  <1>5. VictimOK'
    BY <1>1 DEF SupInv, VictimOK
  <1>6. GaveUp'
    BY <1>1, <1>2 DEF SupInv, GaveUp, Exhausted
  <1>7. StatusTruthful'
    <2> SUFFICES ASSUME ~ctxDone, NEW n \in Name, Registered(n)'
                 PROVE  (Truthful(forwards[n]))'
      BY <1>1, TruthfulStatus
    <2>1. Registered(n) /\ forwards'[n] = forwards[n] /\ forwards[n] \in Pf
      BY <1>1 DEF Registered, IInv, TypeOK
    <2>2. Truthful(forwards[n])
      BY <2>1, TruthfulStatus DEF SupInv
    <2>3. CASE forwards[n] = p
      BY <1>2, <2>1, <2>2, <2>3 DEF Truthful
    <2>4. CASE forwards[n] # p
      BY <1>1, <2>1, <2>2, <2>4 DEF Truthful
    <2>5. QED
      BY <2>3, <2>4
  <1>8. QED
    BY <1>3, <1>4, <1>5, <1>6, <1>7 DEF SupInv

(* Whoever reserves a service allocates at most one struct, under m.mu.    *)
LEMMA ReserveTruthful ==
    ASSUME IInv, SupInv, NEW s \in Service, registering = None,
           UNCHANGED <<registering, ctxDone>>, loop' # "cancel",
           \/ ReserveAndSpawn(s)
           \/ UNCHANGED <<forwards, structs, goroutines>>
    PROVE  SupInv'
  <1> DEFINE e == [name |-> s.name, port |-> s.port, parent |-> None, source |-> s.source]
  <1>1. CASE NewForward(e, "starting", "head", TRUE)
    <2>1. e \in Entry
      BY ServiceFields DEF Entry
    <2> HIDE DEF e
    <2>2. QED
      BY <1>1, <2>1, SupAllocate
  <1>2. CASE UNCHANGED <<forwards, structs, goroutines>>
    BY <1>2, SupQuiet, NoneAssumption DEF structs, goroutines, IInv, ControlOK
  <1>3. QED
    BY <1>1, <1>2 DEF ReserveAndSpawn

LEMMA StartTruthful ==
    ASSUME IInv, SupInv, StartWork
    PROVE  SupInv'
  <1>1. CASE StartBegin \/ StartLoop
    BY <1>1, SupQuiet, NoneAssumption DEF StartBegin, StartLoop, directory, structs, goroutines,
       multiVars, stopVars, IInv, ControlOK
  <1>2. CASE StartReserve
    <2>1. /\ registering = None /\ loop' # "cancel" /\ UNCHANGED <<registering, ctxDone>>
          /\ booted < Len(Configured)
      BY <1>2 DEF StartReserve, MuFree, stopVars
    <2> DEFINE s == Configured[booted + 1]
    <2>2. s \in Service
      BY <2>1, ConstantsAssumption DEF IInv, TypeOK
    <2>3. ReserveAndSpawn(s) \/ UNCHANGED <<forwards, structs, goroutines>>
      BY <1>2 DEF StartReserve, directory
    <2>4. QED
      BY <2>1, <2>2, <2>3, ReserveTruthful
  <1>3. QED
    BY <1>1, <1>2 DEF StartWork

LEMMA CallerTruthful ==
    ASSUME IInv, SupInv,
           \/ \E c \in Caller, s \in Service : CallAdd(c, s)
           \/ \E c \in Caller, n \in Name : CallRemove(c, n)
           \/ \E c \in Caller : LoopReceive(c)
           \/ \E c \in Caller : CallerSeesDone(c)
           \/ LoopExit
    PROVE  SupInv'
  <1>1. UNCHANGED <<directory, structs, goroutines, registering, victim, stopVars>>
    BY DEF CallAdd, CallRemove, Call, LoopReceive, CallerSeesDone, LoopExit, multiVars,
       loopVars
  <1>2. loop' = "cancel" => loop = "cancel"
    <2>1. ASSUME NEW c \in Caller, LoopReceive(c) PROVE loop' \in {"add", "remove"}
      BY <2>1 DEF LoopReceive, IInv, ControlOK, Request
    <2>2. QED
      BY <2>1 DEF CallAdd, CallRemove, Call, CallerSeesDone, LoopExit, loopVars
  <1>3. QED
    BY <1>1, <1>2, SupQuiet, NoneAssumption DEF directory, structs, goroutines, stopVars, IInv,
       ControlOK

LEMMA NextChildLoop ==
    ASSUME NEW err, NextChild(err)
    PROVE  loop' \in {"unlink", "idle"}
  BY DEF NextChild, Reply

(* The commands of the event loop. *)
LEMMA LoopTruthful ==
    ASSUME IInv, SupInv, LoopWork
    PROVE  SupInv'
  <1>1. CASE LoopAdd
    <2> DEFINE s == req[serving].arg
    <2>1. /\ registering = None /\ loop' # "cancel" /\ UNCHANGED <<registering, ctxDone>>
          /\ s \in Service
      BY <1>1 DEF LoopAdd, Reply, MuFree, stopVars, IInv, ControlOK
    <2>2. ReserveAndSpawn(s) \/ UNCHANGED <<forwards, structs, goroutines>>
      BY <1>1 DEF LoopAdd, directory
    <2>3. QED
      BY <2>1, <2>2, ReserveTruthful
  <1>2. CASE LoopRemove
    <2>1. UNCHANGED <<structs, goroutines, registering, stopVars>>
      BY <1>2 DEF LoopRemove, multiVars
    <2>2. loop' # "cancel" /\ loop # "cancel"
      BY <1>2 DEF LoopRemove, Reply
    <2>3. \A n \in Name : forwards'[n] = forwards[n] \/ forwards'[n] = None
      <3>1. forwards' = forwards \/ \E n \in Name : forwards' = [forwards EXCEPT ![n] = None]
        BY <1>2 DEF LoopRemove, Unlink, directory, IInv, ControlOK
      <3>2. QED
        BY <3>1 DEF IInv, TypeOK
    <2>4. QED
      BY <2>1, <2>2, <2>3, SupQuiet, NoneAssumption DEF structs, goroutines, stopVars
  <1>3. CASE LoopUnlink
    <2> DEFINE n == Head(pending)
    <2>1. /\ UNCHANGED <<structs, goroutines, registering, stopVars>>
          /\ loop = "unlink" /\ registering = None
      BY <1>3 DEF LoopUnlink, multiVars, MuFree
    <2>2. CASE ~Registered(n) /\ NextChild(FirstErr("notfound")) /\ UNCHANGED forwards
      BY <2>1, <2>2, NextChildLoop, SupQuiet, NoneAssumption DEF structs, goroutines, stopVars
    <2>3. CASE Registered(n) /\ Unlink(n) /\ victim' = forwards[n]
      <3>1. n \in Name
        BY <2>1 DEF IInv, ControlOK, TypeOK
      <3>2. /\ forwards[n] \in Pf /\ forwards[n] <= nPf
            /\ \A k \in Name : forwards[k] = forwards[n] => k = n
        BY <2>3, <3>1 DEF IInv, TypeOK, Registered, DirInv, EntriesNamed
      <3> HIDE DEF n
      <3>3. \A k \in Name : forwards'[k] = IF k = n THEN None ELSE forwards[k]
        BY <2>3 DEF Unlink, IInv, TypeOK
      <3>4. VictimOK'
        BY <2>1, <2>3, <3>2, <3>3, NoneAssumption DEF VictimOK, structs
      <3>5. FreshOK' /\ RegisteringOK' /\ GaveUp'
        BY <2>1 DEF SupInv, FreshOK, RegisteringOK, GaveUp, structs, goroutines, stopVars
      <3>6. StatusTruthful'
        <4>1. ASSUME NEW k \in Name, Registered(k)'
              PROVE  Registered(k) /\ forwards'[k] = forwards[k]
          BY <3>3, <4>1 DEF Registered
        <4>2. QED
          BY <2>1, <4>1 DEF SupInv, StatusTruthful, structs, goroutines, stopVars
      <3>7. QED
        BY <3>4, <3>5, <3>6 DEF SupInv
    <2>4. QED
      BY <1>3, <2>2, <2>3 DEF LoopUnlink
  <1>4. CASE LoopCancel
    <2>1. /\ victim \in Pf /\ state' = [state EXCEPT ![victim] = "stopped"]
          /\ UNCHANGED <<forwards, nPf, sup, restarts, registering, ctxDone>>
          /\ loop = "cancel" /\ loop' # "cancel"
      BY <1>4, NextChildLoop DEF LoopCancel, IInv, ControlOK, directory, multiVars, stopVars
    <2>2. \A r \in Pf \ {victim} : state'[r] = state[r]
      BY <2>1 DEF IInv, TypeOK
    <2>3. victim <= nPf /\ (registering # None => victim <= registering.base)
      BY <2>1 DEF SupInv, VictimOK, RegisteringOK
    <2>4. nPf \in Nat /\ victim \in Nat /\ (registering # None => registering.base \in Nat)
      BY <2>1, ConstantsAssumption DEF IInv, TypeOK, Pf, Registration
    <2>5. FreshOK' /\ GaveUp'
      BY <2>1, <2>2, <2>3, <2>4 DEF SupInv, FreshOK, GaveUp, Pf
    <2>6. RegisteringOK'
      BY <2>1, <2>2, <2>3, <2>4 DEF SupInv, RegisteringOK, Pf
    <2>7. VictimOK'
      BY <2>1 DEF VictimOK
    <2>8. StatusTruthful'
      <3> SUFFICES ASSUME ~ctxDone, NEW n \in Name, Registered(n)'
                   PROVE  (Truthful(forwards[n]))'
        BY <2>1, TruthfulStatus
      <3>1. Registered(n) /\ forwards'[n] = forwards[n] /\ forwards[n] \in Pf \ {victim}
        BY <2>1 DEF Registered, IInv, TypeOK, SupInv, VictimOK
      <3>2. Truthful(forwards[n])
        BY <3>1, TruthfulStatus DEF SupInv
      <3>3. QED
        BY <2>1, <2>2, <3>1, <3>2 DEF Truthful
    <2>9. QED
      BY <2>5, <2>6, <2>7, <2>8 DEF SupInv
  <1>5. QED
    BY <1>1, <1>2, <1>3, <1>4 DEF LoopWork

LEMMA ResolveTruthful ==
    ASSUME IInv, SupInv, NEW s \in Service, Resolve(s)
    PROVE  SupInv'
  <1>1. CASE ResolveFails(s)
    <2> DEFINE e == [name |-> s.name, port |-> 0, parent |-> None, source |-> Native]
    <2>1. /\ registering = None /\ registering' = None
          /\ UNCHANGED <<loop, victim, ctxDone>>
      BY <1>1 DEF ResolveFails, MuFree, loopVars, stopVars
    <2>2. e \in Entry
      BY ServiceFields, ConstantsAssumption DEF Entry
    <2>3. CASE NewForward(e, "failed", "unspawned", TRUE)
      <3> HIDE DEF e
      <3>1. QED
        BY <2>1, <2>2, <2>3, SupAllocate
    <2>4. CASE UNCHANGED <<forwards, order, structs, goroutines>>
      BY <2>1, <2>4, SupQuiet, NoneAssumption DEF structs, goroutines, IInv, ControlOK
    <2>5. QED
      BY <1>1, <2>3, <2>4 DEF ResolveFails
  <1>2. ASSUME NEW ports \in Expansion[s.name], ResolveSucceeds(s, ports)
        PROVE  SupInv'
    <2>1. /\ UNCHANGED <<directory, structs, goroutines, loopVars, stopVars>>
          /\ registering' = None \/ registering'.base = nPf
      BY <1>2 DEF ResolveSucceeds
    <2>2. FreshOK' /\ VictimOK' /\ GaveUp' /\ StatusTruthful'
      BY <2>1 DEF SupInv, FreshOK, VictimOK, GaveUp, StatusTruthful, Registered, directory,
                  structs, goroutines, loopVars, stopVars
    <2>3. nPf \in Nat /\ (loop = "cancel" => victim <= nPf)
      BY DEF IInv, TypeOK, SupInv, VictimOK
    <2>4. RegisteringOK'
      BY <2>1, <2>3, ConstantsAssumption DEF RegisteringOK, structs, loopVars, Pf
    <2>5. QED
      BY <2>2, <2>4 DEF SupInv
  <1>3. QED
    BY <1>1, <1>2 DEF Resolve

(* The child of one iteration: a valid entry, registered under a name that *)
(* is free, its supervisor not spawned yet.                                *)
LEMMA ChildEntry ==
    ASSUME IInv, RegisterChild
    PROVE  LET child == registering.ports[registering.next]
               e == [name |-> child.name, port |-> child.port,
                     parent |-> registering.svc.name, source |-> registering.svc.source]
           IN  /\ registering.svc \in Service /\ registering.svc.name \in Name
               /\ registering.ports \in Seq(ResolvedPort)
               /\ registering.next \in 1..Len(registering.ports)
               /\ child \in ResolvedPort /\ e \in Entry /\ child.name \in Name
               /\ registering' # None /\ registering'.base = registering.base
               /\ registering'.svc = registering.svc /\ registering'.ports = registering.ports
               /\ registering'.next = registering.next + 1
  <1> DEFINE child == registering.ports[registering.next]
             e == [name |-> child.name, port |-> child.port,
                   parent |-> registering.svc.name, source |-> registering.svc.source]
  <1>1. registering \in Registration
    BY DEF RegisterChild, IInv, TypeOK
  <1>2. registering.svc \in Service /\ registering.ports \in Seq(ResolvedPort)
        /\ registering.next \in Nat \ {0} /\ registering.svc.name \in Name
        /\ registering.svc.source \in Source
    BY <1>1, ServiceFields DEF Registration
  <1>3. registering.next \in 1..Len(registering.ports)
    BY <1>2 DEF RegisterChild
  <1>4. child \in ResolvedPort
    BY <1>2, <1>3
  <1>5. child.name \in Name /\ child.port \in Port \cup {0}
    BY <1>4 DEF ResolvedPort
  <1>6. e \in Entry
    BY <1>2, <1>5 DEF Entry
  <1>7. registering' = [registering EXCEPT !.next = @ + 1]
    BY DEF RegisterChild
  <1>8. registering' \in Registration /\ registering'.base = registering.base
        /\ registering'.svc = registering.svc /\ registering'.ports = registering.ports
        /\ registering'.next = registering.next + 1
    BY <1>1, <1>7 DEF Registration
  <1>9. registering' # None
    BY <1>8, NoneAssumption
  <1>10. QED
    BY <1>2, <1>3, <1>4, <1>5, <1>6, <1>8, <1>9

LEMMA RegisterTruthful ==
    ASSUME IInv, SupInv, Register
    PROVE  SupInv'
  <1>1. CASE RegisterChild
    <2> DEFINE child == registering.ports[registering.next]
               e == [name |-> child.name, port |-> child.port,
                     parent |-> registering.svc.name, source |-> registering.svc.source]
    <2>1. /\ e \in Entry /\ registering # None /\ registering' # None
          /\ registering'.base = registering.base
      BY <1>1, ChildEntry DEF RegisterChild
    <2>2. /\ NewForward(e, "starting", "unspawned", ~Registered(child.name))
          /\ UNCHANGED <<loop, victim, ctxDone>>
      BY <1>1 DEF RegisterChild, loopVars, stopVars
    <2> HIDE DEF e
    <2>3. QED
      BY <2>1, <2>2, SupAllocate
  <1>2. CASE RegisterDone
    <2>1. /\ UNCHANGED <<forwards, structs, loopVars, stopVars>> /\ registering' = None
          /\ registering # None
          /\ sup' = [p \in Pf |-> IF p > registering.base /\ p <= nPf THEN "head" ELSE sup[p]]
      BY <1>2 DEF RegisterDone
    <2>2. registering.base \in Nat /\ nPf \in Nat
      BY <2>1 DEF IInv, TypeOK, Registration
    <2>3. FreshOK'
      BY <2>1, <2>2 DEF SupInv, FreshOK, structs, Pf
    <2>4. RegisteringOK' /\ VictimOK'
      BY <2>1 DEF SupInv, RegisteringOK, VictimOK, loopVars, structs
    <2>5. GaveUp'
      BY <2>1 DEF SupInv, GaveUp, structs, stopVars
    <2>6. StatusTruthful'
      <3> SUFFICES ASSUME ~ctxDone, NEW n \in Name, Registered(n)'
                   PROVE  (Truthful(forwards[n]))'
        BY <2>1, TruthfulStatus DEF stopVars
      <3>1. Registered(n) /\ forwards'[n] = forwards[n] /\ forwards[n] \in Pf
        BY <2>1 DEF Registered, IInv, TypeOK
      <3>2. Truthful(forwards[n])
        BY <3>1, TruthfulStatus DEF SupInv
      <3>3. QED
        BY <2>1, <3>1, <3>2 DEF Truthful, structs
    <2>7. QED
      BY <2>3, <2>4, <2>5, <2>6 DEF SupInv
  <1>3. QED
    BY <1>1, <1>2 DEF Register

LEMMA StopTruthful ==
    ASSUME IInv, SupInv,
           \/ \E p \in Pf : TunnelDies(p)
           \/ \E q \in Port : CloseListener(q)
           \/ CancelContext
           \/ StopMark
    PROVE  SupInv'
  <1>1. CASE (\E p \in Pf : TunnelDies(p)) \/ (\E q \in Port : CloseListener(q))
    <2>1. UNCHANGED <<directory, structs, sup, registering, loop, victim, ctxDone>>
      BY <1>1 DEF TunnelDies, CloseListener, multiVars, loopVars, stopVars
    <2>2. QED
      BY <2>1, SupQuiet, NoneAssumption DEF directory, structs, IInv, ControlOK
  <1>2. CASE CancelContext
    BY <1>2 DEF CancelContext, SupInv, FreshOK, RegisteringOK, VictimOK, GaveUp, StatusTruthful,
                directory, structs, goroutines, multiVars, loopVars
  <1>3. CASE StopMark
    <2> DEFINE live == {p \in Pf : \E n \in Name : forwards[n] = p}
    <2>1. /\ ctxDone /\ ctxDone' = ctxDone /\ registering = None /\ registering' = None
          /\ UNCHANGED <<forwards, nPf, restarts, sup, loop, victim>>
          /\ state' = [p \in Pf |-> IF p \in live THEN "stopped" ELSE state[p]]
      BY <1>3 DEF StopMark, MuFree, directory, multiVars, loopVars
    <2>2. \A p \in live : p <= nPf
      BY NoneAssumption DEF IInv, DirInv, EntriesNamed, Registered
    <2>3. nPf \in Nat
      BY DEF IInv, TypeOK
    <2>4. FreshOK'
      BY <2>1, <2>2, <2>3 DEF SupInv, FreshOK, Pf
    <2>5. RegisteringOK' /\ VictimOK' /\ GaveUp' /\ StatusTruthful'
      BY <2>1 DEF SupInv, RegisteringOK, VictimOK, GaveUp, StatusTruthful
    <2>6. QED
      BY <2>4, <2>5 DEF SupInv
  <1>4. QED
    BY <1>1, <1>2, <1>3

LEMMA InitTruthful == Init => SupInv
  BY NoneAssumption, ConstantsAssumption
     DEF Init, SupInv, FreshOK, RegisteringOK, VictimOK, GaveUp, StatusTruthful, Registered, Pf

LEMMA NextTruthful == IInv /\ SupInv /\ [Next]_vars => SupInv'
  <1> SUFFICES ASSUME IInv, SupInv, [Next]_vars PROVE SupInv'
    OBVIOUS
  <1>1. CASE UNCHANGED vars
    BY <1>1, SupQuiet, NoneAssumption DEF vars, directory, structs, goroutines, multiVars,
       loopVars, stopVars, IInv, ControlOK
  <1>2. CASE Next
    BY <1>2, StartTruthful, CallerTruthful, LoopTruthful, ResolveTruthful, RegisterTruthful,
       SupervisorTruthful, StopTruthful
       DEF Next
  <1>3. QED
    BY <1>1, <1>2

LEMMA Truthfulness == Spec => []SupInv
  <1>1. Init => IInv /\ SupInv
    BY InitInv, InitTruthful
  <1>2. IInv /\ SupInv /\ [Next]_vars => (IInv /\ SupInv)'
    BY NextInv, NextTruthful
  <1>3. QED
    BY <1>1, <1>2, PTL DEF Spec

(* However removals, Stop and the registration of children interleave with *)
(* the supervisors, Status of a live manager reports of a registered       *)
(* forward what its supervisor is doing: the marks of removeSingle and     *)
(* Stop never reach one that still counts.                                 *)
THEOREM StatusIsTruthful == Spec => []StatusTruthful
  <1>1. SupInv => StatusTruthful
    BY DEF SupInv
  <1>2. QED
    BY <1>1, Truthfulness, PTL

(* superviseSingle returns only when the manager stops or when maxRestarts *)
(* broken attempts have been counted, for any number of preemptions.       *)
THEOREM GivesUpCorrectly == Spec => []GivesUpOnlyWhenExhausted
  <1>1. IInv /\ SupInv => GivesUpOnlyWhenExhausted
    BY DEF IInv, TypeOK, SupInv, GaveUp, GivesUpOnlyWhenExhausted, Registered
  <1>2. QED
    BY <1>1, Invariance, Truthfulness, PTL

-----------------------------------------------------------------------------
(* The life of every struct is one that Supervision allows.                *)

LEMMA Phases ==
    ASSUME NEW p
    PROVE  /\ sup[p] = "unspawned" => PhaseOf(p) = "idle"
           /\ sup[p] \in {"head", "begin", "launch", "dial"} => PhaseOf(p) = "trying"
           /\ sup[p] \in {"errored", "fail"} => PhaseOf(p) = "broken"
           /\ sup[p] = "backoff" => PhaseOf(p) = "waiting"
           /\ sup[p] \in {"up", "preempted", "done"} => PhaseOf(p) = sup[p]
           /\ sup'[p] = "unspawned" => PhaseOf(p)' = "idle"
           /\ sup'[p] \in {"head", "begin", "launch", "dial"} => PhaseOf(p)' = "trying"
           /\ sup'[p] \in {"errored", "fail"} => PhaseOf(p)' = "broken"
           /\ sup'[p] = "backoff" => PhaseOf(p)' = "waiting"
           /\ sup'[p] \in {"up", "preempted", "done"} => PhaseOf(p)' = sup'[p]
           /\ sup'[p] = sup[p] => PhaseOf(p)' = PhaseOf(p)
  BY Zenon DEF PhaseOf

LEMMA Unsupervised ==
    ASSUME NEW p, UNCHANGED <<sup[p], state[p], restarts[p], ctxDone>>
    PROVE  [Supervisor(p)!Next]_(Supervisor(p)!vars)
  <1>1. PhaseOf(p)' = PhaseOf(p)
    BY Phases
  <1> HIDE DEF PhaseOf
  <1>2. QED
    BY <1>1 DEF Supervisor!vars

LEMMA Marked ==
    ASSUME NEW p, UNCHANGED <<sup[p], restarts[p], ctxDone>>, state'[p] = "stopped"
    PROVE  Supervisor(p)!Next
  <1>1. PhaseOf(p)' = PhaseOf(p)
    BY Phases
  <1> HIDE DEF PhaseOf
  <1>2. QED
    BY <1>1 DEF Supervisor!Next, Supervisor!Mark

LEMMA Reserved ==
    ASSUME NEW p, sup[p] = "unspawned", sup'[p] \in {"unspawned", "head"},
           state'[p] \in {"starting", "failed"}, UNCHANGED <<restarts[p], ctxDone>>
    PROVE  Supervisor(p)!Next
  <1>1. PhaseOf(p) = "idle" /\ PhaseOf(p)' \in {"idle", "trying"}
    BY Phases
  <1> HIDE DEF PhaseOf
  <1>2. QED
    BY <1>1 DEF Supervisor!Next, Supervisor!Reserve

(* A supervisor moves on as Supervision says. *)
LEMMA SupervisorRefines ==
    ASSUME TypeOK, NEW p \in Pf, SupProgress(p) \/ SupDrops(p) \/ SupPreempted(p)
    PROVE  \A r \in Pf : [Supervisor(r)!Next]_(Supervisor(r)!vars)
  <1>0. ctxDone' = ctxDone
    BY SupEffect
  <1>1. ASSUME NEW r \in Pf \ {p} PROVE [Supervisor(r)!Next]_(Supervisor(r)!vars)
    BY <1>0, SupEffect, Unsupervised
  <1>2. [Supervisor(p)!Next]_(Supervisor(p)!vars)
    <2> USE <1>0
    <2>1. CASE /\ restarts'[p] = restarts[p] /\ state'[p] = state[p]
               /\ \/ sup[p] = "head" /\ sup'[p] = "begin"
                  \/ sup[p] = "launch" /\ sup'[p] = "dial"
                  \/ sup[p] = "errored" /\ sup'[p] = "fail"
      <3>1. PhaseOf(p)' = PhaseOf(p)
        BY <2>1, Phases
      <3> HIDE DEF PhaseOf
      <3>2. QED
        BY <2>1, <3>1 DEF Supervisor!vars
    <2>2. CASE /\ restarts'[p] = restarts[p] /\ state'[p] = state[p]
               /\ \/ sup[p] \in {"dial", "up"} /\ sup'[p] = "errored"
                  \/ sup[p] = "up" /\ sup'[p] = "preempted"
      <3>1. \/ PhaseOf(p) \in {"trying", "up"} /\ PhaseOf(p)' = "broken"
            \/ PhaseOf(p) = "up" /\ PhaseOf(p)' = "preempted"
        BY <2>2, Phases
      <3> HIDE DEF PhaseOf
      <3>2. QED
        BY <2>2, <3>1 DEF Supervisor!Next, Supervisor!Break, Supervisor!Move
    <2>3. CASE /\ restarts'[p] = restarts[p] /\ state'[p] = state[p]
               /\ \/ sup[p] = "preempted" /\ sup'[p] = "head" /\ ~ctxDone
                  \/ sup[p] = "backoff" /\ sup'[p] = "head"
                  \/ sup[p] = "backoff" /\ sup'[p] = "done" /\ ctxDone
      <3>1. \/ PhaseOf(p) = "preempted" /\ PhaseOf(p)' = "trying" /\ ~ctxDone
            \/ PhaseOf(p) = "waiting" /\ PhaseOf(p)' = "trying"
            \/ PhaseOf(p) = "waiting" /\ PhaseOf(p)' = "done" /\ ctxDone
        BY <2>3, Phases
      <3> HIDE DEF PhaseOf
      <3>2. QED
        BY <2>3, <3>1 DEF Supervisor!Next, Supervisor!RetryNow, Supervisor!Wake,
                          Supervisor!GiveUp, Supervisor!Move
    <2>4. CASE /\ restarts'[p] = restarts[p]
               /\ \/ sup[p] = "begin" /\ sup'[p] = "launch" /\ state'[p] = "starting"
                  \/ sup[p] = "dial" /\ sup'[p] = "up" /\ state'[p] = "running"
      <3>1. /\ PhaseOf(p) = "trying"
            /\ \/ PhaseOf(p)' = "trying" /\ state'[p] = "starting"
               \/ PhaseOf(p)' = "up" /\ state'[p] = "running"
        BY <2>4, Phases
      <3> HIDE DEF PhaseOf
      <3>2. QED
        BY <2>4, <3>1 DEF Supervisor!Next, Supervisor!Begin, Supervisor!Ready, Supervisor!Move
    <2>5. CASE /\ restarts'[p] = restarts[p]
               /\ sup[p] \in {"head", "errored", "preempted"} /\ sup'[p] = "done"
               /\ state'[p] = "stopped" /\ ctxDone
      <3>1. PhaseOf(p) \in {"trying", "broken", "preempted"} /\ PhaseOf(p)' = "done"
        BY <2>5, Phases
      <3> HIDE DEF PhaseOf
      <3>2. QED
        BY <2>5, <3>1 DEF Supervisor!Next, Supervisor!GiveUp, Supervisor!Move
    <2>6. CASE /\ sup[p] = "fail" /\ state'[p] = "failed"
               /\ restarts'[p] = Bump(restarts[p])
               /\ sup'[p] = IF Exhausted(Bump(restarts[p])) THEN "done" ELSE "backoff"
      <3>1. /\ PhaseOf(p) = "broken"
            /\ PhaseOf(p)' = IF Exhausted(restarts'[p]) THEN "done" ELSE "waiting"
        BY <2>6, Phases
      <3> HIDE DEF PhaseOf
      <3>2. QED
        BY <2>6, <3>1 DEF Supervisor!Next, Supervisor!Fail, Supervisor!Move, Bump, Exhausted
    <2>7. QED
      BY <2>1, <2>2, <2>3, <2>4, <2>5, <2>6, SupEffect
  <1>3. QED
    BY <1>1, <1>2

(* A struct is allocated, with its supervisor or to wait for it. *)
LEMMA AllocateRefines ==
    ASSUME IInv, SupInv, NEW e, NEW st \in {"starting", "failed"},
           NEW ph \in {"unspawned", "head"}, NEW reg, NewForward(e, st, ph, reg),
           ctxDone' = ctxDone
    PROVE  \A r \in Pf : [Supervisor(r)!Next]_(Supervisor(r)!vars)
  <1>1. PICK p \in Pf :
           /\ p = nPf + 1 /\ nPf \in Nat /\ restarts' = restarts
           /\ sup'[p] = ph /\ state'[p] = st
           /\ \A r \in Pf \ {p} : sup'[r] = sup[r] /\ state'[r] = state[r]
    BY DEF IInv, TypeOK, NewForward
  <1>2. sup[p] = "unspawned"
    BY <1>1 DEF SupInv, FreshOK
  <1>3. Supervisor(p)!Next
    BY <1>1, <1>2, Reserved
  <1>4. \A r \in Pf \ {p} : [Supervisor(r)!Next]_(Supervisor(r)!vars)
    BY <1>1, Unsupervised
  <1>5. QED
    BY <1>3, <1>4

(* No struct changes. *)
StructsRest == UNCHANGED <<sup, state, restarts, ctxDone>>

LEMMA RestRefines ==
    ASSUME StructsRest
    PROVE  \A r \in Pf : [Supervisor(r)!Next]_(Supervisor(r)!vars)
  BY Unsupervised DEF StructsRest

LEMMA LoopRefines ==
    ASSUME IInv, SupInv, StartWork \/ LoopWork
    PROVE  \A r \in Pf : [Supervisor(r)!Next]_(Supervisor(r)!vars)
  <1>1. ctxDone' = ctxDone
    BY DEF StartWork, StartBegin, StartReserve, StartLoop, LoopWork, LoopAdd, LoopRemove,
           LoopUnlink, LoopCancel, stopVars
  <1>2. CASE StartBegin \/ StartLoop \/ LoopRemove \/ LoopUnlink
    BY <1>2, RestRefines DEF StartBegin, StartLoop, LoopRemove, LoopUnlink, structs,
                             goroutines, stopVars, StructsRest
  <1>3. CASE StartReserve \/ LoopAdd
    <2>1. (\E s : ReserveAndSpawn(s)) \/ UNCHANGED <<structs, goroutines>>
      BY <1>3 DEF StartReserve, LoopAdd
    <2>2. CASE UNCHANGED <<structs, goroutines>>
      BY <1>1, <2>2, RestRefines DEF structs, goroutines, StructsRest
    <2>3. CASE \E s : ReserveAndSpawn(s)
      <3>1. PICK s : ReserveAndSpawn(s)
        BY <2>3
      <3> DEFINE e == [name |-> s.name, port |-> s.port, parent |-> None,
                       source |-> s.source]
      <3>2. NewForward(e, "starting", "head", TRUE) \/ UNCHANGED <<structs, goroutines>>
        BY <3>1 DEF ReserveAndSpawn
      <3> HIDE DEF e
      <3>3. QED
        BY <1>1, <2>2, <3>2, AllocateRefines
    <2>4. QED
      BY <2>1, <2>2, <2>3
  <1>4. CASE LoopCancel
    <2>1. PICK p \in Pf :
             /\ state' = [state EXCEPT ![p] = "stopped"]
             /\ UNCHANGED <<sup, restarts>>
      BY <1>4 DEF LoopCancel, IInv, ControlOK
    <2>2. state'[p] = "stopped" /\ \A r \in Pf \ {p} : state'[r] = state[r]
      BY <2>1 DEF IInv, TypeOK
    <2>3. Supervisor(p)!Next
      BY <1>1, <2>1, <2>2, Marked
    <2>4. \A r \in Pf \ {p} : [Supervisor(r)!Next]_(Supervisor(r)!vars)
      BY <1>1, <2>1, <2>2, Unsupervised
    <2>5. QED
      BY <2>3, <2>4
  <1>5. QED
    BY <1>2, <1>3, <1>4 DEF StartWork, LoopWork

LEMMA ResolversRefine ==
    ASSUME IInv, SupInv, Register \/ \E s \in Service : Resolve(s)
    PROVE  \A r \in Pf : [Supervisor(r)!Next]_(Supervisor(r)!vars)
  <1>1. ctxDone' = ctxDone
    BY DEF Register, RegisterChild, RegisterDone, Resolve, ResolveFails, ResolveSucceeds,
           stopVars
  <1>2. ASSUME NEW s \in Service, ResolveFails(s)
        PROVE  \A r \in Pf : [Supervisor(r)!Next]_(Supervisor(r)!vars)
    <2> DEFINE e == [name |-> s.name, port |-> 0, parent |-> None, source |-> Native]
    <2>1. NewForward(e, "failed", "unspawned", TRUE) \/ UNCHANGED <<structs, goroutines>>
      BY <1>2 DEF ResolveFails
    <2> HIDE DEF e
    <2>2. CASE UNCHANGED <<structs, goroutines>>
      BY <1>1, <2>2, RestRefines DEF structs, goroutines, StructsRest
    <2>3. CASE NewForward(e, "failed", "unspawned", TRUE)
      BY <1>1, <2>3, AllocateRefines
    <2>4. QED
      BY <2>1, <2>2, <2>3
  <1>3. ASSUME NEW s \in Service, NEW ports, ResolveSucceeds(s, ports)
        PROVE  \A r \in Pf : [Supervisor(r)!Next]_(Supervisor(r)!vars)
    BY <1>1, <1>3, RestRefines DEF ResolveSucceeds, structs, goroutines, StructsRest
  <1>4. CASE RegisterChild
    <2> DEFINE child == registering.ports[registering.next]
               e == [name |-> child.name, port |-> child.port,
                     parent |-> registering.svc.name, source |-> registering.svc.source]
    <2>1. NewForward(e, "starting", "unspawned", ~Registered(child.name))
      BY <1>4 DEF RegisterChild
    <2> HIDE DEF e
    <2>2. QED
      BY <1>1, <2>1, AllocateRefines
  <1>5. CASE RegisterDone
    <2>1. /\ UNCHANGED <<state, restarts>> /\ registering # None
          /\ sup' = [p \in Pf |-> IF p > registering.base /\ p <= nPf THEN "head" ELSE sup[p]]
      BY <1>5 DEF RegisterDone, structs
    <2> SUFFICES ASSUME NEW p \in Pf PROVE [Supervisor(p)!Next]_(Supervisor(p)!vars)
      OBVIOUS
    <2>2. CASE p > registering.base /\ p <= nPf
      <3>1. sup[p] = "unspawned" /\ state[p] = "starting" /\ sup'[p] = "head"
        BY <2>1, <2>2, ConstantsAssumption DEF SupInv, RegisteringOK, IInv, TypeOK,
                                               Registration, Pf
      <3>2. QED
        BY <1>1, <2>1, <3>1, Reserved
    <2>3. CASE ~(p > registering.base /\ p <= nPf)
      BY <1>1, <2>1, <2>3, Unsupervised
    <2>4. QED
      BY <2>2, <2>3
  <1>6. QED
    BY <1>2, <1>3, <1>4, <1>5 DEF Register, Resolve

LEMMA StopRefines ==
    ASSUME IInv,
           \/ \E p \in Pf : TunnelDies(p)
           \/ \E q \in Port : CloseListener(q)
           \/ CancelContext
           \/ StopMark
    PROVE  \A r \in Pf : [Supervisor(r)!Next]_(Supervisor(r)!vars)
  <1>1. CASE (\E p \in Pf : TunnelDies(p)) \/ (\E q \in Port : CloseListener(q))
    BY <1>1, RestRefines DEF TunnelDies, CloseListener, structs, stopVars, StructsRest
  <1> SUFFICES ASSUME NEW r \in Pf, CancelContext \/ StopMark
               PROVE  [Supervisor(r)!Next]_(Supervisor(r)!vars)
    BY <1>1
  <1>2. CASE CancelContext
    <2>1. ctxDone' = TRUE /\ UNCHANGED <<sup[r], state[r], restarts[r]>>
      BY <1>2 DEF CancelContext, structs, goroutines
    <2>2. PhaseOf(r)' = PhaseOf(r)
      BY <2>1, Phases
    <2> HIDE DEF PhaseOf
    <2>3. QED
      BY <2>1, <2>2 DEF Supervisor!Next, Supervisor!Shutdown
  <1>3. CASE StopMark
    <2>1. /\ UNCHANGED <<sup[r], restarts[r], ctxDone>>
          /\ state'[r] = "stopped" \/ state'[r] = state[r]
      BY <1>3 DEF StopMark
    <2>2. QED
      BY <2>1, Marked, Unsupervised
  <1>4. QED
    BY <1>2, <1>3

LEMMA NextRefines ==
    ASSUME IInv, SupInv, [Next]_vars
    PROVE  \A r \in Pf : [Supervisor(r)!Next]_(Supervisor(r)!vars)
  <1>1. CASE \/ UNCHANGED vars
             \/ \E c \in Caller, s \in Service : CallAdd(c, s)
             \/ \E c \in Caller, n \in Name : CallRemove(c, n)
             \/ \E c \in Caller : LoopReceive(c)
             \/ \E c \in Caller : CallerSeesDone(c)
             \/ LoopExit
    BY <1>1, RestRefines DEF vars, CallAdd, CallRemove, Call, LoopReceive, CallerSeesDone,
       LoopExit, structs, goroutines, stopVars, StructsRest
  <1>2. CASE StartWork \/ LoopWork
    BY <1>2, LoopRefines
  <1>3. CASE Register \/ \E s \in Service : Resolve(s)
    BY <1>3, ResolversRefine
  <1>4. CASE \E p \in Pf : SupProgress(p) \/ SupDrops(p) \/ SupPreempted(p)
    BY <1>4, SupervisorRefines DEF IInv
  <1>5. CASE \/ \E p \in Pf : TunnelDies(p)
             \/ \E q \in Port : CloseListener(q)
             \/ CancelContext
             \/ StopMark
    BY <1>5, StopRefines
  <1>6. QED
    BY <1>1, <1>2, <1>3, <1>4, <1>5 DEF Next

(* Every struct of the manager, registered or not, lives as Supervision    *)
(* says, for any number of forwards, restarts, calls and resolutions: the  *)
(* life that Forward, the detailed model of one attempt, is proved to      *)
(* implement as well.                                                      *)
THEOREM SupervisionImplemented == Spec => ImplementsSupervision
  <1>1. Init => \A p \in Pf : Supervisor(p)!Init
    <2> SUFFICES ASSUME Init, NEW p \in Pf PROVE Supervisor(p)!Init
      OBVIOUS
    <2>1. sup[p] = "unspawned" /\ state[p] = "starting" /\ restarts[p] = 0 /\ ctxDone = FALSE
      BY DEF Init
    <2>2. PhaseOf(p) = "idle"
      BY <2>1, Phases
    <2> HIDE DEF PhaseOf
    <2>3. QED
      BY <2>1, <2>2 DEF Supervisor!Init
  <1>2. IInv /\ SupInv /\ [Next]_vars
           => [\A p \in Pf : [Supervisor(p)!Next]_(Supervisor(p)!vars)]_vars
    BY NextRefines
  <1>3. QED
    BY <1>1, <1>2, Invariance, Truthfulness, PTL DEF Spec, ImplementsSupervision

-----------------------------------------------------------------------------
(* The callers and the tree of parents and children.                       *)

(* A caller that is not waiting has no request pending.                    *)
IdleOK == \A c \in Caller : at[c] = "idle" => req[c] = None

(* The children on record are names that the parent's expansion produces.  *)
ChildrenOK ==
    \A n \in Name : children[n] # None =>
        \A i \in 1..Len(children[n]) : children[n][i] \in ChildNames(n)

(* doRemove works through the name it was given or, once that parent is    *)
(* out, through its children; nobody puts the name back meanwhile, and all *)
(* that can go wrong is that a name is not found.                          *)
RemovalOK ==
    /\ removeErr \in {"none", "notfound"}
    /\ IF loop \in {"unlink", "cancel"}
          THEN LET n == req[serving].arg IN
               /\ children[n] = None
               /\ pending = <<n>> \/ \A i \in 1..Len(pending) : pending[i] \in ChildNames(n)
          ELSE pending = <<>> /\ removeErr = "none"

(* Registration has a parent that is still reserved.                       *)
ReservedOK ==
    registering # None =>
        /\ children[registering.svc.name] # None
        /\ registering.ports \in Expansion[registering.svc.name]

TreeInv == IdleOK /\ ChildrenOK /\ RemovalOK /\ ReservedOK

LEMMA ReplyTree ==
    ASSUME IInv, IdleOK, serving \in Caller, NEW r, Reply(r)
    PROVE  IdleOK' /\ RemovalOK'
  <1>1. IdleOK'
    BY DEF Reply, IdleOK, IInv, TypeOK
  <1>2. RemovalOK'
    BY DEF Reply, RemovalOK
  <1>3. QED
    BY <1>1, <1>2

(* The tail of a list is made of elements of the list. *)
LEMMA TailElements ==
    ASSUME NEW S, NEW s \in Seq(S), Len(s) > 1
    PROVE  /\ Tail(s) \in Seq(S) /\ Len(Tail(s)) = Len(s) - 1 /\ Len(s) \in Nat
           /\ \A i \in 1..Len(Tail(s)) : i + 1 \in 1..Len(s) /\ Tail(s)[i] = s[i + 1]
  <1>1. Len(s) \in Nat /\ s # <<>>
    OBVIOUS
  <1>2. Tail(s) \in Seq(S) /\ Len(Tail(s)) = Len(s) - 1
    BY <1>1
  <1>3. \A i \in 1..(Len(s) - 1) : Tail(s)[i] = s[i + 1]
    BY <1>1
  <1>4. QED
    BY <1>1, <1>2, <1>3

LEMMA NextChildTree ==
    ASSUME IInv, IdleOK, RemovalOK, loop \in {"unlink", "cancel"},
           NEW err \in {"none", "notfound"}, NextChild(err), children' = children
    PROVE  IdleOK' /\ RemovalOK'
  <1>1. serving \in Caller /\ pending \in Seq(Name)
    BY DEF IInv, ControlOK, TypeOK
  <1>2. CASE Len(pending) > 1
    <2>1. /\ loop' = "unlink" /\ pending' = Tail(pending) /\ removeErr' = err
          /\ UNCHANGED <<serving, at, req>>
      BY <1>2 DEF NextChild
    <2> DEFINE n == req[serving].arg
    <2>2. pending # <<n>>
      <3>1. Len(<<n>>) = 1
        OBVIOUS
      <3>2. pending = <<n>> => Len(pending) = 1
        BY <3>1, Zenon
      <3>3. QED
        BY <1>2, <3>2
    <2>3. \A i \in 1..Len(Tail(pending)) : Tail(pending)[i] \in ChildNames(n)
      BY <1>1, <1>2, <2>2, TailElements DEF RemovalOK
    <2>4. IdleOK'
      BY <2>1 DEF IdleOK
    <2>5. ChildNames(n)' = ChildNames(n)
      BY <2>1 DEF ChildNames
    <2>6. QED
      BY <2>1, <2>3, <2>4, <2>5 DEF RemovalOK
  <1>3. CASE ~(Len(pending) > 1)
    BY <1>1, <1>3, ReplyTree DEF NextChild
  <1>4. QED
    BY <1>2, <1>3

(* Nothing of this changes, or only what m.children has of a free name.    *)
LEMMA TreeQuiet ==
    ASSUME TreeInv, UNCHANGED <<children, registering, pending, removeErr, loop, serving, at, req>>
    PROVE  TreeInv'
  BY DEF TreeInv, IdleOK, ChildrenOK, RemovalOK, ReservedOK

LEMMA ReserveTree ==
    ASSUME IInv, ChildrenOK, NEW s \in Service,
           ReserveAndSpawn(s) \/ children' = children
    PROVE  ChildrenOK'
  <1>1. CASE children' = children
    BY <1>1 DEF ChildrenOK
  <1>2. CASE children' = [children EXCEPT ![s.name] = <<>>]
    BY <1>2, ServiceFields DEF ChildrenOK, IInv, TypeOK
  <1>3. QED
    BY <1>1, <1>2 DEF ReserveAndSpawn

LEMMA StartTree ==
    ASSUME IInv, TreeInv, StartWork
    PROVE  TreeInv'
  <1>1. /\ UNCHANGED <<pending, removeErr, serving, at, req, registering>>
        /\ loop \in {"off", "boot"} /\ loop' \in {"boot", "idle"}
    BY DEF StartWork, StartBegin, StartReserve, StartLoop, multiVars, callerVars
  <1>2. IdleOK' /\ RemovalOK'
    BY <1>1 DEF TreeInv, IdleOK, RemovalOK
  <1>3. CASE StartBegin \/ StartLoop
    BY <1>1, <1>2, <1>3 DEF StartBegin, StartLoop, directory, TreeInv, ChildrenOK, ReservedOK
  <1>4. CASE StartReserve
    <2> DEFINE s == Configured[booted + 1]
    <2>1. /\ booted < Len(Configured) /\ registering = None
          /\ ReserveAndSpawn(s) \/ children' = children
      BY <1>4 DEF StartReserve, MuFree, directory
    <2>2. s \in Service
      BY <2>1, ConstantsAssumption DEF IInv, TypeOK
    <2> HIDE DEF s
    <2>3. ChildrenOK'
      BY <2>1, <2>2, ReserveTree DEF TreeInv
    <2>4. ReservedOK'
      BY <1>1, <2>1 DEF ReservedOK
    <2>5. QED
      BY <1>2, <2>3, <2>4 DEF TreeInv
  <1>5. QED
    BY <1>3, <1>4 DEF StartWork

LEMMA CallerTree ==
    ASSUME IInv, TreeInv,
           \/ \E c \in Caller, s \in Service : CallAdd(c, s)
           \/ \E c \in Caller, n \in Name : CallRemove(c, n)
           \/ \E c \in Caller : LoopReceive(c)
           \/ \E c \in Caller : CallerSeesDone(c)
           \/ LoopExit
    PROVE  TreeInv'
  <1>1. UNCHANGED <<children, registering, pending, removeErr>>
    BY DEF CallAdd, CallRemove, Call, LoopReceive, CallerSeesDone, LoopExit, directory,
           multiVars, loopVars
  <1>2. ChildrenOK' /\ ReservedOK'
    BY <1>1 DEF TreeInv, ChildrenOK, ReservedOK
  <1>3. ASSUME NEW c \in Caller, NEW r, NEW v, Call(c, r, v) PROVE IdleOK' /\ RemovalOK'
    <2>1. IdleOK'
      BY <1>3 DEF Call, TreeInv, IdleOK, IInv, TypeOK
    <2>2. loop \in {"unlink", "cancel"} => req'[serving] = req[serving]
      BY <1>3 DEF Call, IInv, TypeOK, ControlOK
    <2>3. RemovalOK'
      BY <1>1, <1>3, <2>2 DEF Call, loopVars, TreeInv, RemovalOK, ChildNames
    <2>4. QED
      BY <2>1, <2>3
  <1>4. ASSUME NEW c \in Caller, CallerSeesDone(c) PROVE IdleOK' /\ RemovalOK'
    BY <1>1, <1>4 DEF CallerSeesDone, loopVars, TreeInv, IdleOK, RemovalOK, IInv, TypeOK
  <1>5. ASSUME NEW c \in Caller, LoopReceive(c) PROVE IdleOK' /\ RemovalOK'
    <2>1. loop' \in {"add", "remove"}
      BY <1>5 DEF LoopReceive, IInv, ControlOK, Request
    <2>2. QED
      BY <1>1, <1>5, <2>1 DEF LoopReceive, TreeInv, IdleOK, RemovalOK, IInv, TypeOK
  <1>6. ASSUME LoopExit PROVE IdleOK' /\ RemovalOK'
    <2>1. IdleOK'
      BY <1>6 DEF LoopExit, callerVars, TreeInv, IdleOK
    <2>2. RemovalOK'
      BY <1>1, <1>6 DEF LoopExit, TreeInv, RemovalOK
    <2>3. QED
      BY <2>1, <2>2
  <1>7. IdleOK' /\ RemovalOK'
    <2>1. CASE \E c \in Caller : \E r, v : Call(c, r, v)
      BY <1>3, <2>1
    <2>2. CASE \/ \E c \in Caller, s \in Service : CallAdd(c, s)
               \/ \E c \in Caller, n \in Name : CallRemove(c, n)
      <3>1. \E c \in Caller : \E r, v : Call(c, r, v)
        BY <2>2, Zenon DEF CallAdd, CallRemove
      <3>2. QED
        BY <2>1, <3>1
    <2>3. QED
      BY <1>4, <1>5, <1>6, <2>2
  <1>8. QED
    BY <1>2, <1>7 DEF TreeInv

LEMMA LoopTree ==
    ASSUME IInv, TreeInv, LoopWork
    PROVE  TreeInv'
  <1>1. /\ loop \in {"add", "remove", "unlink", "cancel"} /\ serving \in Caller
        /\ pending \in Seq(Name) /\ registering' = registering
    BY DEF LoopWork, LoopAdd, LoopRemove, LoopUnlink, LoopCancel, multiVars,
           IInv, ControlOK, TypeOK
  <1>2. ReservedOK' \/ registering # None
    BY <1>1 DEF ReservedOK
  <1>3. CASE LoopAdd
    <2> DEFINE s == req[serving].arg
    <2>1. Reply(Verdict(s)) /\ MuFree /\ (ReserveAndSpawn(s) \/ children' = children)
      BY <1>3 DEF LoopAdd, directory
    <2>2. s \in Service
      BY <1>3 DEF LoopAdd, IInv, ControlOK
    <2> HIDE DEF s
    <2>3. IdleOK' /\ RemovalOK'
      BY <1>1, <2>1, ReplyTree DEF TreeInv
    <2>4. ChildrenOK'
      BY <2>1, <2>2, ReserveTree DEF TreeInv
    <2>5. QED
      BY <1>2, <2>1, <2>3, <2>4 DEF MuFree, TreeInv
  <1>4. CASE LoopRemove
    <2> DEFINE n == req[serving].arg
    <2>1. n \in Name /\ MuFree
      BY <1>4 DEF LoopRemove, IInv, ControlOK
    <2>2. \/ children[n] # None /\ children' = [children EXCEPT ![n] = None]
          \/ children[n] = None /\ children' = children
      BY <1>4 DEF LoopRemove, directory
    <2>3. children' \in [Name -> Seq(Name) \cup {None}] /\ children'[n] = None
      BY <2>1, <2>2 DEF IInv, TypeOK
    <2>4. ChildrenOK'
      BY <2>1, <2>2 DEF TreeInv, ChildrenOK, IInv, TypeOK, ChildNames
    <2>5. CASE Reply("ok")
      <3>1. IdleOK' /\ RemovalOK'
        BY <1>1, <2>5, ReplyTree DEF TreeInv
      <3>2. QED
        BY <1>2, <2>1, <2>4, <3>1 DEF MuFree, TreeInv
    <2>6. CASE /\ loop' = "unlink" /\ UNCHANGED <<serving, removeErr, at, req>>
               /\ pending' = <<n>> \/ (children[n] # None /\ pending' = children[n])
      <3>1. IdleOK'
        BY <2>6 DEF TreeInv, IdleOK
      <3>2. removeErr = "none"
        BY <1>4 DEF LoopRemove, TreeInv, RemovalOK
      <3>3. pending' = <<n>> \/ \A i \in 1..Len(pending') : pending'[i] \in ChildNames(n)
        BY <2>1, <2>6 DEF TreeInv, ChildrenOK
      <3>4. RemovalOK'
        BY <2>3, <2>6, <3>2, <3>3 DEF RemovalOK, ChildNames
      <3>5. QED
        BY <1>2, <2>1, <2>4, <3>1, <3>4 DEF MuFree, TreeInv
    <2>7. QED
      BY <1>4, <2>5, <2>6 DEF LoopRemove
  <1>5. CASE LoopUnlink
    <2>1. UNCHANGED children /\ MuFree
      BY <1>5 DEF LoopUnlink
    <2>2. ChildrenOK'
      BY <2>1 DEF TreeInv, ChildrenOK
    <2>3. CASE UNCHANGED <<serving, pending, removeErr, at, req>> /\ loop' = "cancel"
      <3>1. IdleOK'
        BY <2>3 DEF TreeInv, IdleOK
      <3>2. RemovalOK'
        BY <1>5, <2>1, <2>3 DEF LoopUnlink, TreeInv, RemovalOK, ChildNames
      <3>3. QED
        BY <1>2, <2>1, <2>2, <3>1, <3>2 DEF MuFree, TreeInv
    <2>4. CASE NextChild(FirstErr("notfound"))
      <3>1. FirstErr("notfound") \in {"none", "notfound"}
        BY DEF FirstErr, TreeInv, RemovalOK
      <3>2. IdleOK' /\ RemovalOK'
        BY <1>5, <2>1, <2>4, <3>1, NextChildTree DEF LoopUnlink, TreeInv
      <3>3. QED
        BY <1>2, <2>1, <2>2, <3>2 DEF MuFree, TreeInv
    <2>5. QED
      BY <1>5, <2>3, <2>4 DEF LoopUnlink
  <1>6. CASE LoopCancel
    <2>1. UNCHANGED children /\ NextChild(removeErr)
      BY <1>6 DEF LoopCancel, directory
    <2>2. ChildrenOK' /\ ReservedOK'
      BY <1>1, <2>1 DEF TreeInv, ChildrenOK, ReservedOK
    <2>3. IdleOK' /\ RemovalOK'
      BY <1>6, <2>1, NextChildTree DEF LoopCancel, TreeInv, RemovalOK
    <2>4. QED
      BY <2>2, <2>3 DEF TreeInv
  <1>7. QED
    BY <1>3, <1>4, <1>5, <1>6 DEF LoopWork

LEMMA ResolveTree ==
    ASSUME IInv, TreeInv, NEW s \in Service, Resolve(s)
    PROVE  TreeInv'
  <1>1. UNCHANGED <<children, pending, removeErr, loop, serving, at, req>>
    BY DEF Resolve, ResolveFails, ResolveSucceeds, directory, loopVars, callerVars
  <1>2. \/ registering' = None \/ UNCHANGED registering
        \/ /\ children[s.name] # None
           /\ \E ports \in Expansion[s.name] :
                 registering' = [svc |-> s, ports |-> ports, next |-> 1, base |-> nPf]
    BY DEF Resolve, ResolveFails, ResolveSucceeds
  <1>3. ReservedOK'
    BY <1>1, <1>2 DEF ReservedOK, TreeInv
  <1>4. QED
    BY <1>1, <1>3 DEF TreeInv, IdleOK, ChildrenOK, RemovalOK, ChildNames

LEMMA RegisterTree ==
    ASSUME IInv, TreeInv, Register
    PROVE  TreeInv'
  <1>1. /\ UNCHANGED <<pending, removeErr, loop, serving, at, req>>
        /\ registering # None /\ registering \in Registration
    BY DEF Register, RegisterChild, RegisterDone, loopVars, callerVars, IInv, TypeOK
  <1> DEFINE P == registering.svc.name
             ports == registering.ports
  <1>2. /\ P \in Name /\ ports \in Expansion[P] /\ ports \in Seq(ResolvedPort)
        /\ children[P] # None
    BY <1>1, ConstantsAssumption DEF Registration, TreeInv, ReservedOK
  <1>3. IdleOK'
    BY <1>1 DEF TreeInv, IdleOK
  <1>4. CASE RegisterChild
    <2>1. UNCHANGED children /\ registering' = [registering EXCEPT !.next = @ + 1]
      BY <1>4 DEF RegisterChild
    <2>2. registering'.svc = registering.svc /\ registering'.ports = registering.ports
      BY <1>1, <2>1 DEF Registration
    <2>3. ReservedOK'
      BY <1>2, <2>1, <2>2 DEF ReservedOK
    <2>4. QED
      BY <1>1, <1>3, <2>1, <2>3 DEF TreeInv, ChildrenOK, RemovalOK, ChildNames
  <1>5. CASE RegisterDone
    <2> DEFINE kids == [i \in 1..Len(ports) |-> ports[i].name]
    <2>1. children' = [children EXCEPT ![P] = kids] /\ registering' = None
      BY <1>5 DEF RegisterDone
    <2>2. Len(kids) = Len(ports)
      <3>1. Len(ports) \in Nat
        BY <1>2
      <3>2. QED
        BY <3>1
    <2>3. \A i \in 1..Len(kids) : kids[i] \in ChildNames(P)
      BY <1>2, <2>2 DEF ChildNames
    <2> HIDE DEF kids
    <2>4. children'[P] = kids /\ \A k \in Name : k # P => children'[k] = children[k]
      BY <1>2, <2>1 DEF IInv, TypeOK
    <2>5. ChildrenOK'
      BY <2>3, <2>4 DEF TreeInv, ChildrenOK, ChildNames
    <2>6. ReservedOK'
      BY <2>1 DEF ReservedOK
    <2>7. RemovalOK'
      <3>1. CASE loop \in {"unlink", "cancel"}
        <4>1. req[serving].arg \in Name /\ req[serving].arg # P
          BY <1>2, <3>1 DEF IInv, ControlOK, TreeInv, RemovalOK
        <4>2. QED
          BY <1>1, <2>4, <3>1, <4>1 DEF TreeInv, RemovalOK, ChildNames
      <3>2. CASE ~(loop \in {"unlink", "cancel"})
        BY <1>1, <3>2 DEF TreeInv, RemovalOK
      <3>3. QED
        BY <3>1, <3>2
    <2>8. QED
      BY <1>3, <2>5, <2>6, <2>7 DEF TreeInv
  <1>6. QED
    BY <1>4, <1>5 DEF Register

LEMMA InitTree == Init => TreeInv
  BY DEF Init, TreeInv, IdleOK, ChildrenOK, RemovalOK, ReservedOK

LEMMA NextTree == IInv /\ TreeInv /\ [Next]_vars => TreeInv'
  <1> SUFFICES ASSUME IInv, TreeInv, [Next]_vars PROVE TreeInv'
    OBVIOUS
  <1>1. CASE UNCHANGED vars
    BY <1>1, TreeQuiet DEF vars, directory, multiVars, loopVars, callerVars
  <1>2. CASE \E p \in Pf : SupProgress(p) \/ SupDrops(p) \/ SupPreempted(p)
    BY <1>2, TreeQuiet DEF SupProgress, SupHead, SupBegin, SupLaunch, SupReady, SupDialFails,
       SupLost, SupCancelled, SupReturned, SupFail, SupBackoff, SupDrops, SupPreempted,
       Goto, GotoIn, SupStep, directory, multiVars, loopVars, callerVars
  <1>3. CASE (\E p \in Pf : TunnelDies(p)) \/ (\E q \in Port : CloseListener(q))
             \/ CancelContext \/ StopMark
    BY <1>3, TreeQuiet DEF TunnelDies, CloseListener, CancelContext, StopMark,
       directory, multiVars, loopVars, callerVars
  <1>4. QED
    BY <1>1, <1>2, <1>3, StartTree, CallerTree, LoopTree, ResolveTree, RegisterTree DEF Next

LEMMA TreeInvariance == Spec => [](IInv /\ TreeInv)
  <1>1. Init => IInv /\ TreeInv
    BY InitInv, InitTree
  <1>2. IInv /\ TreeInv /\ [Next]_vars => (IInv /\ TreeInv)'
    BY NextInv, NextTree
  <1>3. QED
    BY <1>1, <1>2, PTL DEF Spec

-----------------------------------------------------------------------------
(* The manager implements the abstract directory: its variables as the     *)
(* refinement mapping reads them off the manager's state.                  *)

Opened == loop \notin {"off", "boot"}
Names  == {n \in Name : Exists(n)}
Asked  == [c \in Caller |-> IF req[c] = None THEN None ELSE AbstractRequest(req[c])]
Gone   == {c \in Caller : HasDropped(c)}

LEMMA DirectoryStutters ==
    ASSUME UNCHANGED <<Opened, Names, Asked, ret, Gone>>
    PROVE  UNCHANGED Directory!vars
  BY DEF Directory!vars, Opened, Names, Asked, Gone

LEMMA Answered ==
    ASSUME NEW c \in Caller, NEW v, Opened, Opened',
           Asked' = [Asked EXCEPT ![c] = None], ret' = [ret EXCEPT ![c] = v],
           Gone' = Gone \ {c}
    PROVE  Directory!Answer(c, v)
  BY DEF Directory!Answer, Opened, Asked, Gone

LEMMA GoneIs ==
    IInv => /\ loop \notin {"unlink", "cancel"} => Gone = {}
            /\ loop = "cancel" => Gone = {serving}
            /\ loop = "unlink" /\ pending = <<req[serving].arg>> => Gone = {}
            /\ loop = "unlink" /\ pending # <<req[serving].arg>> => Gone = {serving}
  BY DEF IInv, ControlOK, Gone, HasDropped

LEMMA AskedIs ==
    ASSUME IInv, NEW c \in Caller
    PROVE  /\ req[c] = None => Asked[c] = None
           /\ req[c] # None => /\ Asked[c] # None
                               /\ Asked[c].op = req[c].op
           /\ req[c] \in [op : {"add"}, arg : Service] => Asked[c].name = req[c].arg.name
           /\ req[c] \in [op : {"remove"}, arg : Name] => Asked[c].name = req[c].arg
  <1>1. Asked[c] = IF req[c] = None THEN None ELSE AbstractRequest(req[c])
    BY DEF Asked
  <1>2. req[c] # None => req[c] \in Request
    BY DEF IInv, TypeOK
  <1>3. ASSUME NEW r \in Request
        PROVE  /\ AbstractRequest(r) \in [op : {"add", "remove"}, name : Name]
               /\ AbstractRequest(r).op = r.op
    BY <1>3, ServiceFields DEF Request, AbstractRequest
  <1>4. req[c] # None => Asked[c] # None /\ Asked[c].op = req[c].op
    BY <1>1, <1>2, <1>3, NoneAssumption
  <1>5. ASSUME req[c] \in [op : {"add"}, arg : Service] PROVE Asked[c].name = req[c].arg.name
    <2>1. req[c] # None
      BY <1>5, NoneAssumption DEF Request
    <2>2. QED
      BY <1>1, <1>5, <2>1 DEF AbstractRequest
  <1>6. ASSUME req[c] \in [op : {"remove"}, arg : Name] PROVE Asked[c].name = req[c].arg
    <2>1. req[c] # None
      BY <1>6, NoneAssumption DEF Request
    <2>2. QED
      BY <1>1, <1>6, <2>1 DEF AbstractRequest
  <1>7. QED
    BY <1>1, <1>4, <1>5, <1>6

LEMMA AskedSet ==
    ASSUME IInv, NEW c \in Caller, NEW r, req' = [req EXCEPT ![c] = r]
    PROVE  Asked' = [Asked EXCEPT ![c] = IF r = None THEN None ELSE AbstractRequest(r)]
  <1>1. req'[c] = r /\ \A k \in Caller : k # c => req'[k] = req[k]
    BY DEF IInv, TypeOK
  <1> DEFINE rs == [Asked EXCEPT ![c] = IF r = None THEN None ELSE AbstractRequest(r)]
  <1>2. \A k \in Caller : Asked'[k] = IF req'[k] = None THEN None ELSE AbstractRequest(req'[k])
    BY DEF Asked, AbstractRequest
  <1>3. \A k \in Caller : k # c => rs[k] = IF req[k] = None THEN None ELSE AbstractRequest(req[k])
    BY DEF Asked
  <1>4. rs[c] = IF r = None THEN None ELSE AbstractRequest(r)
    BY DEF Asked
  <1>5. \A k \in Caller : Asked'[k] = rs[k]
    <2> SUFFICES ASSUME NEW k \in Caller PROVE Asked'[k] = rs[k]
      OBVIOUS
    <2>1. CASE k = c
      BY <1>1, <1>2, <1>4, <2>1
    <2>2. CASE k # c
      BY <1>1, <1>2, <1>3, <2>2
    <2>3. QED
      BY <2>1, <2>2
  <1>6. DOMAIN rs = Caller /\ rs = [k \in Caller |-> rs[k]]
    BY DEF Asked
  <1>7. Asked' = [k \in Caller |-> Asked'[k]]
    BY DEF Asked
  <1>8. QED
    BY <1>5, <1>6, <1>7

LEMMA ReplyAnswers ==
    ASSUME IInv, IInv', loop \in {"add", "remove", "unlink", "cancel"}, NEW v, Reply(v),
           NEW c \in Caller, serving = c
    PROVE  Directory!Answer(c, v)
  <1>1. loop' = "idle"
    BY DEF Reply
  <1>2. Asked' = [Asked EXCEPT ![c] = None]
    BY <1>1, AskedSet DEF Reply
  <1>3. Gone = {} \/ Gone = {c}
    BY GoneIs
  <1>4. Gone' = {}
    BY <1>1 DEF Gone, HasDropped
  <1>5. Opened /\ Opened'
    BY <1>1 DEF Opened
  <1>6. QED
    BY <1>1, <1>2, <1>3, <1>4, <1>5, Answered DEF Reply

LEMMA SameNames ==
    ASSUME UNCHANGED <<forwards, children>>
    PROVE  Names' = Names
  BY DEF Names, Exists, Registered

LEMMA ReserveNames ==
    ASSUME IInv, NEW s \in Service, ReserveAndSpawn(s)
    PROVE  Names' = Names \cup {s.name}
  <1>1. s.name \in Name
    BY ServiceFields
  <1>2. CASE s.multi
    <2>1. children' = [children EXCEPT ![s.name] = <<>>] /\ forwards' = forwards
      BY <1>2 DEF ReserveAndSpawn
    <2>2. <<>> # None
      <3>1. <<>> \in Seq(Name)
        OBVIOUS
      <3>2. QED
        BY <3>1, NoneAssumption
    <2>3. children'[s.name] # None /\ \A k \in Name : k # s.name => children'[k] = children[k]
      BY <1>1, <2>1, <2>2 DEF IInv, TypeOK
    <2>4. QED
      BY <1>1, <2>1, <2>3 DEF Names, Exists, Registered
  <1>3. CASE ~s.multi
    <2>1. /\ nPf + 1 \in Pf /\ forwards' = [forwards EXCEPT ![s.name] = nPf + 1]
          /\ children' = children
      BY <1>3 DEF ReserveAndSpawn, NewForward
    <2>2. forwards'[s.name] # None /\ \A k \in Name : k # s.name => forwards'[k] = forwards[k]
      BY <1>1, <2>1, NoneAssumption DEF IInv, TypeOK
    <2>3. QED
      BY <1>1, <2>1, <2>2 DEF Names, Exists, Registered
  <1>4. QED
    BY <1>2, <1>3

(* A step that leaves the sets of names and requests as they are. *)
LEMMA DirectoryRests ==
    ASSUME IInv, IInv', UNCHANGED <<forwards, children, loop, serving, pending, req, ret>>
    PROVE  UNCHANGED Directory!vars
  <1>1. Names' = Names
    BY SameNames
  <1>2. Opened' = Opened /\ Asked' = Asked /\ Gone' = Gone
    BY DEF Opened, Asked, AbstractRequest, Gone, HasDropped
  <1>3. QED
    BY <1>1, <1>2, DirectoryStutters

LEMMA VerdictIs ==
    ASSUME IInv, NEW s \in Service
    PROVE  /\ Verdict(s) = "exists" <=> s.name \in Names
           /\ Verdict(s) \in {"ok", "exists", "port"}
  BY ServiceFields DEF Verdict, Names

LEMMA StartDirectory ==
    ASSUME IInv, IInv', TreeInv, StartWork
    PROVE  Directory!Next \/ UNCHANGED Directory!vars
  <1>1. /\ loop \in {"off", "boot"} /\ loop' \in {"boot", "idle"}
        /\ UNCHANGED <<pending, serving, req, ret>>
    BY DEF StartWork, StartBegin, StartReserve, StartLoop, callerVars
  <1>2. Gone = {} /\ Gone' = {} /\ Asked' = Asked /\ ~Opened
    BY <1>1 DEF Gone, HasDropped, Asked, AbstractRequest, Opened
  <1>3. CASE StartBegin
    <2>1. Opened' = Opened /\ Names' = Names
      BY <1>2, <1>3, SameNames DEF StartBegin, directory, Opened
    <2>2. QED
      BY <1>1, <1>2, <2>1, DirectoryStutters
  <1>4. CASE StartLoop
    <2>1. Opened' = TRUE /\ Names' = Names
      BY <1>4, SameNames DEF StartLoop, directory, Opened
    <2>2. Directory!Open
      BY <1>1, <1>2, <2>1 DEF Directory!Open, Opened, Names, Asked, Gone
    <2>3. QED
      BY <2>2 DEF Directory!Next
  <1>5. CASE StartReserve
    <2> DEFINE s == Configured[booted + 1]
    <2>1. /\ booted < Len(Configured)
          /\ \/ Verdict(s) = "ok" /\ ReserveAndSpawn(s)
             \/ UNCHANGED <<forwards, children>>
      BY <1>5 DEF StartReserve, directory
    <2>2. s \in Service
      BY <2>1, ConstantsAssumption DEF IInv, TypeOK
    <2>3. Opened' = Opened
      BY <1>5 DEF StartReserve, Opened
    <2> HIDE DEF s
    <2>4. CASE UNCHANGED <<forwards, children>>
      BY <1>1, <1>2, <2>3, <2>4, SameNames, DirectoryStutters
    <2>5. CASE Verdict(s) = "ok" /\ ReserveAndSpawn(s)
      <3>1. s.name \in Name /\ s.name \notin Names /\ Names' = Names \cup {s.name}
        BY <2>2, <2>5, VerdictIs, ReserveNames, ServiceFields
      <3>2. Directory!Boot(s.name)
        BY <1>1, <1>2, <2>3, <3>1 DEF Directory!Boot, Opened, Names, Asked, Gone
      <3>3. QED
        BY <3>1, <3>2 DEF Directory!Next
    <2>6. QED
      BY <2>1, <2>4, <2>5
  <1>6. QED
    BY <1>3, <1>4, <1>5 DEF StartWork

LEMMA CallDirectory ==
    ASSUME IInv, IInv', TreeInv, NEW c \in Caller, NEW r \in Request,
           NEW v \in {"none", "invalid", "notstarted"}, Call(c, r, v)
    PROVE  Directory!Next \/ UNCHANGED Directory!vars
  <1>1. /\ at[c] = "idle" /\ req[c] = None
        /\ UNCHANGED <<forwards, children, loop, serving, pending>>
    BY DEF Call, directory, loopVars, TreeInv, IdleOK
  <1>2. Opened' = Opened /\ Names' = Names /\ Asked[c] = None
    BY <1>1, SameNames, AskedIs DEF Opened
  <1>3. req' = [req EXCEPT ![c] = IF v = "none" THEN r ELSE None] /\ ret' = [ret EXCEPT ![c] = v]
    BY DEF Call
  <1>4. Gone' = Gone
    <2>1. CASE loop \in {"unlink", "cancel"}
      <3>1. serving \in Caller /\ serving # c
        BY <1>1, <2>1 DEF IInv, ControlOK
      <3>2. req'[serving] = req[serving]
        BY <1>3, <3>1 DEF IInv, TypeOK
      <3>3. QED
        BY <1>1, <3>2 DEF Gone, HasDropped
    <2>2. CASE ~(loop \in {"unlink", "cancel"})
      BY <1>1, <2>2 DEF Gone, HasDropped
    <2>3. QED
      BY <2>1, <2>2
  <1>5. CASE v = "none"
    <2>1. r # None
      BY NoneAssumption
    <2> DEFINE ask == AbstractRequest(r)
    <2>2. ask \in [op : {"add", "remove"}, name : Name]
      BY ServiceFields DEF Request, AbstractRequest
    <2> HIDE DEF ask
    <2>3. Asked' = [Asked EXCEPT ![c] = ask]
      BY <1>3, <1>5, <2>1, AskedSet DEF ask
    <2>4. Directory!Issue(c, ask)
      BY <1>2, <1>3, <1>4, <1>5, <2>3 DEF Directory!Issue, Opened, Names, Asked, Gone
    <2>5. ask \in Directory!Request
      BY <2>2 DEF Directory!Request
    <2>6. QED
      BY <2>4, <2>5 DEF Directory!Next
  <1>6. CASE v \in {"invalid", "notstarted"}
    <2>1. req' = req
      BY <1>1, <1>3, <1>6 DEF IInv, TypeOK
    <2>2. Asked' = Asked
      BY <2>1 DEF Asked, AbstractRequest
    <2>3. Directory!Refuse(c, v)
      BY <1>2, <1>3, <1>4, <2>2 DEF Directory!Refuse, Opened, Names, Asked, Gone
    <2>4. QED
      BY <1>6, <2>3 DEF Directory!Next
  <1>7. QED
    BY <1>5, <1>6

LEMMA CallerDirectory ==
    ASSUME IInv, IInv', TreeInv, NEW c \in Caller,
           \/ \E s \in Service : CallAdd(c, s)
           \/ \E n \in Name : CallRemove(c, n)
           \/ LoopReceive(c) \/ CallerSeesDone(c) \/ LoopExit
    PROVE  Directory!Next \/ UNCHANGED Directory!vars
  <1>1. ASSUME NEW s \in Service, CallAdd(c, s)
        PROVE  Directory!Next \/ UNCHANGED Directory!vars
    <2>1. [op |-> "add", arg |-> s] \in Request
      BY DEF Request
    <2>2. \E v \in {"none", "invalid", "notstarted"} : Call(c, [op |-> "add", arg |-> s], v)
      BY <1>1 DEF CallAdd
    <2>3. QED
      BY <2>1, <2>2, CallDirectory
  <1>2. ASSUME NEW n \in Name, CallRemove(c, n)
        PROVE  Directory!Next \/ UNCHANGED Directory!vars
    <2>1. [op |-> "remove", arg |-> n] \in Request
      BY DEF Request
    <2>2. \E v \in {"none", "invalid", "notstarted"} : Call(c, [op |-> "remove", arg |-> n], v)
      BY <1>2 DEF CallRemove
    <2>3. QED
      BY <2>1, <2>2, CallDirectory
  <1>3. CASE LoopReceive(c) \/ LoopExit
    <2>1. /\ loop = "idle" /\ UNCHANGED <<forwards, children, req, ret>>
          /\ loop' \in {"add", "remove", "exit"}
      BY <1>3 DEF LoopReceive, LoopExit, directory, callerVars, IInv, ControlOK, Request
    <2>2. Names' = Names /\ Gone = {} /\ Gone' = {} /\ Asked' = Asked /\ Opened' = Opened
      BY <2>1, SameNames DEF Gone, HasDropped, Asked, AbstractRequest, Opened
    <2>3. QED
      BY <2>1, <2>2, DirectoryStutters
  <1>4. CASE CallerSeesDone(c)
    <2>1. /\ loop = "exit" /\ loop' = loop /\ UNCHANGED <<forwards, children>>
          /\ req' = [req EXCEPT ![c] = None] /\ ret' = [ret EXCEPT ![c] = "stopped"]
          /\ at[c] = "sending"
      BY <1>4 DEF CallerSeesDone, directory, loopVars
    <2>2. Names' = Names /\ Gone = {} /\ Gone' = {} /\ Opened /\ Opened'
      BY <2>1, SameNames DEF Gone, HasDropped, Opened
    <2>3. Asked' = [Asked EXCEPT ![c] = None]
      BY <2>1, AskedSet
    <2>4. req[c] # None
      BY <2>1, NoneAssumption DEF IInv, ControlOK
    <2>5. Directory!Answer(c, "stopped")
      BY <2>1, <2>2, <2>3, Answered
    <2>6. Asked[c] # None /\ c \notin Gone
      BY <2>2, <2>4, AskedIs
    <2>7. Directory!Abandon(c)
      BY <2>2, <2>5, <2>6 DEF Directory!Abandon, Names, Asked, Gone
    <2>8. QED
      BY <2>7 DEF Directory!Next
  <1>5. QED
    BY <1>1, <1>2, <1>3, <1>4

(* A name leaves the set when it is unlinked, unless it is also a parent.  *)
LEMMA UnlinkNames ==
    ASSUME IInv, NEW n \in Name, Unlink(n), UNCHANGED children
    PROVE  /\ children[n] = None => Names' = Names \ {n}
           /\ children[n] # None => Names' = Names
  <1>1. forwards'[n] = None /\ \A k \in Name : k # n => forwards'[k] = forwards[k]
    BY DEF Unlink, IInv, TypeOK
  <1>2. QED
    BY <1>1 DEF Names, Exists, Registered

(* The name a removal was called with is not the name of a child of it.    *)
LEMMA ChildIsOther ==
    ASSUME NEW n \in Name
    PROVE  n \notin ChildNames(n)
  BY ChildAssumption DEF ChildNames

LEMMA LongerThanOne ==
    ASSUME NEW S, NEW s \in Seq(S), Len(s) > 1, NEW x
    PROVE  s # <<x>>
  <1> PICK k \in Nat : k = Len(s)
    OBVIOUS
  <1>1. k # 1
    OBVIOUS
  <1>2. Len(<<x>>) = 1
    OBVIOUS
  <1>3. QED
    BY <1>1, <1>2, Zenon

LEMMA AddDirectory ==
    ASSUME NEW c \in Caller, serving = c, IInv, IInv', LoopAdd
    PROVE  Directory!Next \/ UNCHANGED Directory!vars
  <1> DEFINE s == req[serving].arg
  <1>1. /\ serving \in Caller /\ req[serving] \in [op : {"add"}, arg : Service]
        /\ s \in Service /\ s.name \in Name
    BY ServiceFields DEF LoopAdd, IInv, ControlOK
  <1>2. /\ Reply(Verdict(s)) /\ loop = "add"
        /\ \/ Verdict(s) = "ok" /\ ReserveAndSpawn(s)
           \/ Verdict(s) # "ok" /\ UNCHANGED <<forwards, children>>
    BY DEF LoopAdd, directory
  <1>3. Asked[c] # None /\ Asked[c].op = "add" /\ Asked[c].name = s.name
    <2>1. req[serving] # None
      BY <1>1, NoneAssumption DEF Request
    <2>2. QED
      BY <1>1, <2>1, AskedIs
  <1> HIDE DEF s
  <1> PICK v : v = Verdict(s)
    OBVIOUS
  <1>4. Directory!Answer(c, v)
    BY <1>2, ReplyAnswers
  <1>5. /\ v = "exists" <=> s.name \in Names
        /\ v \in {"ok", "exists", "port"}
    BY <1>1, VerdictIs
  <1>6. IF v = "ok" THEN Names' = Names \cup {s.name} ELSE Names' = Names
    BY <1>1, <1>2, ReserveNames, SameNames
  <1>7. Directory!Add(c)
    <2>1. CASE v = "ok"
      BY <1>3, <1>4, <1>5, <1>6, <2>1 DEF Directory!Add, Names, Asked
    <2>2. CASE v = "exists"
      BY <1>3, <1>4, <1>5, <1>6, <2>2 DEF Directory!Add, Names, Asked
    <2>3. CASE v = "port"
      BY <1>3, <1>4, <1>5, <1>6, <2>3 DEF Directory!Add, Names, Asked
    <2>4. QED
      BY <1>5, <2>1, <2>2, <2>3
  <1>8. QED
    BY <1>1, <1>7 DEF Directory!Next

(* The request a removal works for, and the case that its name has gone.   *)
LEMMA RemovalAsked ==
    ASSUME NEW c \in Caller, serving = c, IInv, loop \in {"remove", "unlink", "cancel"}
    PROVE  /\ req[serving].arg \in Name
           /\ Asked[c] # None /\ Asked[c].op = "remove"
           /\ Asked[c].name = req[serving].arg
  <1>1. serving \in Caller /\ req[serving] \in [op : {"remove"}, arg : Name]
    BY DEF IInv, ControlOK
  <1>2. req[serving] # None
    BY <1>1, NoneAssumption DEF Request
  <1>3. QED
    BY <1>1, <1>2, AskedIs

LEMMA RemoveDirectory ==
    ASSUME NEW c \in Caller, serving = c, IInv, IInv', TreeInv, LoopRemove
    PROVE  Directory!Next \/ UNCHANGED Directory!vars
  <1> DEFINE n == req[serving].arg
  <1>1. /\ n \in Name
        /\ Asked[c] # None /\ Asked[c].op = "remove" /\ Asked[c].name = n
    BY RemovalAsked DEF LoopRemove
  <1>2. loop = "remove" /\ Gone = {} /\ Opened
    BY GoneIs DEF LoopRemove, Opened
  <1>3. CASE children[n] # None
    <2>1. /\ children' = [children EXCEPT ![n] = None]
          /\ IF Registered(n) THEN Unlink(n) ELSE UNCHANGED <<forwards, order>>
      BY <1>3 DEF LoopRemove
    <2>2. Names' = Names \ {n} /\ n \in Names
      <3>1. children'[n] = None /\ \A k \in Name : k # n => children'[k] = children[k]
        BY <1>1, <2>1 DEF IInv, TypeOK
      <3>2. forwards'[n] = None /\ \A k \in Name : k # n => forwards'[k] = forwards[k]
        BY <1>1, <2>1 DEF Unlink, Registered, IInv, TypeOK
      <3>3. QED
        BY <1>1, <1>3, <3>1, <3>2 DEF Names, Exists, Registered
    <2>3. CASE Reply("ok")
      <3>1. Directory!Answer(c, "ok")
        BY <1>2, <2>3, ReplyAnswers
      <3>2. Directory!Drop(c)
        BY <1>1, <1>2, <2>2, <3>1 DEF Directory!Drop, Names, Asked, Gone
      <3>3. QED
        BY <1>1, <3>2 DEF Directory!Next
    <2>4. CASE /\ loop' = "unlink" /\ pending' = children[n]
               /\ UNCHANGED <<serving, req, ret>>
      <3>1. pending' # <<n>>
        <4>1. \A i \in 1..Len(children[n]) : children[n][i] # n
          BY <1>1, <1>3, ChildIsOther DEF TreeInv, ChildrenOK
        <4>2. children[n] = <<n>> => Len(children[n]) = 1 /\ children[n][1] = n
          OBVIOUS
        <4>3. QED
          BY <2>4, <4>1, <4>2
      <3>2. Gone' = {c}
        <4>1. Gone' = {d \in Caller : serving = d}
          BY <2>4, <3>1 DEF Gone, HasDropped
        <4>2. QED
          BY <1>1, <4>1
      <3>3. Opened' = Opened /\ Asked' = Asked
        BY <1>2, <2>4 DEF Opened, Asked, AbstractRequest
      <3>4. Directory!Drop(c)
        BY <1>1, <1>2, <2>2, <2>4, <3>2, <3>3 DEF Directory!Drop, Opened, Names, Asked, Gone
      <3>5. QED
        BY <1>1, <3>4 DEF Directory!Next
    <2>5. QED
      BY <1>3, <2>3, <2>4 DEF LoopRemove
  <1>4. CASE children[n] = None
    <2>1. /\ loop' = "unlink" /\ pending' = <<n>> /\ UNCHANGED <<forwards, children, serving, req, ret>>
      BY <1>4 DEF LoopRemove, directory
    <2>2. Names' = Names /\ Opened' = Opened /\ Asked' = Asked
      BY <1>2, <2>1, SameNames DEF Opened, Asked, AbstractRequest
    <2>3. Gone' = {}
      BY <2>1 DEF Gone, HasDropped
    <2>4. QED
      BY <1>2, <2>1, <2>2, <2>3, DirectoryStutters
  <1>5. QED
    BY <1>3, <1>4

(* After the unlinking of a child, or of one that had gone.                *)
LEMMA NextChildDirectory ==
    ASSUME NEW c \in Caller, serving = c, IInv, IInv', TreeInv, loop \in {"unlink", "cancel"}, Gone = {c},
           NEW err \in {"none", "notfound"}, NextChild(err), UNCHANGED <<forwards, children>>,
           loop = "unlink" => pending # <<req[serving].arg>>
    PROVE  Directory!Next \/ UNCHANGED Directory!vars
  <1> DEFINE n == req[serving].arg
  <1>1. /\ n \in Name
        /\ Asked[c] # None /\ Asked[c].op = "remove" /\ Asked[c].name = n
    BY RemovalAsked
  <1>2. Names' = Names /\ Opened /\ pending \in Seq(Name)
    BY SameNames DEF Opened, IInv, TypeOK
  <1>3. CASE Len(pending) > 1
    <2>1. loop' = "unlink" /\ pending' = Tail(pending) /\ UNCHANGED <<serving, req, ret>>
      BY <1>3 DEF NextChild
    <2>2. pending # <<n>>
      BY <1>2, <1>3, LongerThanOne
    <2>3. \A i \in 1..Len(Tail(pending)) : Tail(pending)[i] # n
      BY <1>1, <1>2, <1>3, <2>2, TailElements, ChildIsOther DEF TreeInv, RemovalOK
    <2>4. pending' # <<n>>
      <3>1. Len(<<n>>) = 1 /\ <<n>>[1] = n /\ 1 \in 1..1
        OBVIOUS
      <3>2. Tail(pending) # <<n>>
        BY <2>3, <3>1, Zenon
      <3>3. QED
        BY <2>1, <3>2
    <2>5. Gone' = {c}
      <3>1. Gone' = {d \in Caller : serving = d}
        BY <2>1, <2>4 DEF Gone, HasDropped
      <3>2. QED
        BY <1>1, <3>1
    <2>6. Opened' = Opened /\ Asked' = Asked
      BY <1>2, <2>1 DEF Opened, Asked, AbstractRequest
    <2>7. QED
      BY <1>2, <2>1, <2>5, <2>6, DirectoryStutters
  <1>4. CASE ~(Len(pending) > 1)
    <2> DEFINE v == IF err = "none" THEN "ok" ELSE err
    <2>1. v \in {"ok", "notfound"} /\ Reply(v)
      BY <1>4 DEF NextChild
    <2> HIDE DEF v
    <2>2. Directory!Answer(c, v)
      BY <2>1, ReplyAnswers
    <2>3. Directory!RemoveAnswer(c)
      BY <1>1, <1>2, <2>1, <2>2 DEF Directory!RemoveAnswer, Names, Asked, Gone
    <2>4. QED
      BY <1>1, <2>3 DEF Directory!Next
  <1>5. QED
    BY <1>3, <1>4

LEMMA UnlinkDirectoryStep ==
    ASSUME NEW c \in Caller, serving = c, IInv, IInv', TreeInv, LoopUnlink
    PROVE  Directory!Next \/ UNCHANGED Directory!vars
  <1> DEFINE n == req[serving].arg
             h == Head(pending)
  <1>1. /\ n \in Name
        /\ Asked[c] # None /\ Asked[c].op = "remove" /\ Asked[c].name = n
    BY RemovalAsked DEF LoopUnlink
  <1>2. /\ loop = "unlink" /\ Opened /\ UNCHANGED children /\ children[n] = None
        /\ pending = <<n>> => Gone = {}
        /\ pending # <<n>> => Gone = {c}
    BY GoneIs DEF LoopUnlink, Opened, TreeInv, RemovalOK
  <1>3. /\ h \in Name /\ Len(pending) \in Nat /\ Len(pending) >= 1
        /\ pending = <<n>> => h = n /\ Len(pending) = 1
        /\ pending # <<n>> => h \in ChildNames(n)
    <2>1. pending \in Seq(Name) /\ pending # <<>>
      BY <1>2 DEF IInv, TypeOK, ControlOK
    <2>2. Len(pending) \in Nat /\ Len(pending) >= 1 /\ h = pending[1] /\ h \in Name
      BY <2>1
    <2>3. Len(<<n>>) = 1 /\ Head(<<n>>) = n
      OBVIOUS
    <2>4. pending = <<n>> => h = n /\ Len(pending) = 1
      BY <2>3, Zenon
    <2>5. pending # <<n>> => h \in ChildNames(n)
      BY <1>2, <2>2 DEF TreeInv, RemovalOK
    <2>6. QED
      BY <2>2, <2>4, <2>5
  <1>4. CASE Registered(h)
    <2>1. /\ Unlink(h) /\ loop' = "cancel" /\ UNCHANGED <<serving, pending, req, ret>>
      BY <1>4 DEF LoopUnlink, NextChild
    <2>2. Gone' = {c}
      <3>1. Gone' = {d \in Caller : serving = d}
        BY <2>1 DEF Gone, HasDropped
      <3>2. QED
        BY <1>1, <3>1
    <2>3. Opened' = Opened /\ Asked' = Asked
      BY <1>2, <2>1 DEF Opened, Asked, AbstractRequest
    <2>4. h \in Names
      BY <1>3, <1>4 DEF Names, Exists
    <2>5. /\ children[h] = None => Names' = Names \ {h}
          /\ children[h] # None => Names' = Names
      BY <1>2, <1>3, <2>1, UnlinkNames
    <2> HIDE DEF h
    <2>6. CASE pending = <<n>>
      <3>1. Names' = Names \ {n} /\ n \in Names
        BY <1>2, <1>3, <2>4, <2>5, <2>6
      <3>2. Directory!Drop(c)
        BY <1>1, <1>2, <2>1, <2>2, <2>3, <2>6, <3>1
           DEF Directory!Drop, Opened, Names, Asked, Gone
      <3>3. QED
        BY <1>1, <3>2 DEF Directory!Next
    <2>7. CASE pending # <<n>> /\ children[h] = None
      <3>1. Directory!DropChild(c, h)
        BY <1>1, <1>2, <1>3, <2>1, <2>2, <2>3, <2>5, <2>7
           DEF Directory!DropChild, Opened, Names, Asked, Gone
      <3>2. QED
        BY <1>1, <1>3, <3>1 DEF Directory!Next
    <2>8. CASE pending # <<n>> /\ children[h] # None
      BY <1>2, <2>1, <2>2, <2>3, <2>5, <2>8, DirectoryStutters
    <2>9. QED
      BY <2>6, <2>7, <2>8
  <1>5. CASE ~Registered(h)
    <2>1. NextChild(FirstErr("notfound")) /\ UNCHANGED forwards
      BY <1>5 DEF LoopUnlink
    <2>2. FirstErr("notfound") = "notfound"
      BY DEF FirstErr, TreeInv, RemovalOK
    <2>3. CASE pending # <<n>>
      BY <1>2, <2>1, <2>2, <2>3, NextChildDirectory
    <2>4. CASE pending = <<n>>
      <3>1. Reply("notfound")
        BY <1>3, <2>1, <2>2, <2>4 DEF NextChild
      <3>2. Directory!Answer(c, "notfound")
        BY <1>2, <3>1, ReplyAnswers
      <3>3. n \notin Names /\ Names' = Names
        BY <1>2, <1>3, <1>5, <2>1, <2>4, SameNames DEF Names, Exists
      <3>4. Directory!RemoveAnswer(c)
        BY <1>1, <1>2, <2>4, <3>2, <3>3 DEF Directory!RemoveAnswer, Names, Asked, Gone
      <3>5. QED
        BY <1>1, <3>4 DEF Directory!Next
    <2>5. QED
      BY <2>3, <2>4
  <1>6. QED
    BY <1>4, <1>5

LEMMA LoopDirectory ==
    ASSUME IInv, IInv', TreeInv, LoopWork
    PROVE  Directory!Next \/ UNCHANGED Directory!vars
  <1> PICK c \in Caller : serving = c
    BY DEF LoopWork, LoopAdd, LoopRemove, LoopUnlink, LoopCancel, IInv, ControlOK
  <1>1. CASE LoopCancel
    <2>1. /\ loop = "cancel" /\ NextChild(removeErr) /\ UNCHANGED <<forwards, children>>
          /\ removeErr \in {"none", "notfound"}
      BY <1>1 DEF LoopCancel, directory, TreeInv, RemovalOK
    <2>2. Gone = {c}
      BY <2>1, GoneIs
    <2>3. QED
      BY <2>1, <2>2, NextChildDirectory
  <1>2. QED
    BY <1>1, AddDirectory, RemoveDirectory, UnlinkDirectoryStep DEF LoopWork

LEMMA ResolveDirectory ==
    ASSUME IInv, IInv', NEW s \in Service, Resolve(s)
    PROVE  UNCHANGED Directory!vars
  <1>1. UNCHANGED <<children, loop, serving, pending, req, ret>>
    BY DEF Resolve, ResolveFails, ResolveSucceeds, directory, loopVars, callerVars
  <1>2. Names' = Names
    <2>1. CASE UNCHANGED forwards
      BY <1>1, <2>1, SameNames
    <2>2. CASE /\ children[s.name] # None
               /\ forwards' = [forwards EXCEPT ![s.name] = nPf + 1]
      <3>1. \A k \in Name : k # s.name => forwards'[k] = forwards[k]
        BY <2>2 DEF IInv, TypeOK
      <3>2. QED
        BY <1>1, <2>2, <3>1 DEF Names, Exists, Registered
    <2>3. QED
      BY <2>1, <2>2 DEF Resolve, ResolveFails, ResolveSucceeds, NewForward, directory
  <1>3. Opened' = Opened /\ Asked' = Asked /\ Gone' = Gone
    BY <1>1 DEF Opened, Asked, AbstractRequest, Gone, HasDropped
  <1>4. QED
    BY <1>1, <1>2, <1>3, DirectoryStutters

LEMMA RegisterDirectory ==
    ASSUME IInv, IInv', TreeInv, Register
    PROVE  Directory!Next \/ UNCHANGED Directory!vars
  <1>1. /\ UNCHANGED <<loop, serving, pending, req, ret>>
        /\ registering # None /\ registering \in Registration
    BY DEF Register, RegisterChild, RegisterDone, loopVars, callerVars, IInv, TypeOK
  <1> DEFINE P == registering.svc.name
             ports == registering.ports
  <1>2. /\ P \in Name /\ ports \in Expansion[P] /\ ports \in Seq(ResolvedPort)
        /\ children[P] # None /\ P \in Names
    BY <1>1, ConstantsAssumption DEF Registration, TreeInv, ReservedOK, Names, Exists
  <1>3. Opened' = Opened /\ Asked' = Asked /\ Gone' = Gone
    BY <1>1 DEF Opened, Asked, AbstractRequest, Gone, HasDropped
  <1>4. CASE RegisterDone
    <2> DEFINE kids == [i \in 1..Len(ports) |-> ports[i].name]
    <2>0. kids \in Seq(Name)
      <3>1. Len(ports) \in Nat /\ \A i \in 1..Len(ports) : ports[i] \in ResolvedPort
        BY <1>2
      <3>2. \A i \in 1..Len(ports) : ports[i].name \in Name
        BY <3>1 DEF ResolvedPort
      <3>3. QED
        BY <3>1, <3>2
    <2>1. forwards' = forwards /\ children'[P] # None
      <3>1. forwards' = forwards /\ children' = [children EXCEPT ![P] = kids]
        BY <1>4 DEF RegisterDone
      <3> HIDE DEF kids
      <3>2. QED
        BY <1>2, <2>0, <3>1, NoneAssumption DEF IInv, TypeOK
    <2>2. \A k \in Name : k # P => children'[k] = children[k]
      BY <1>2, <1>4 DEF RegisterDone, IInv, TypeOK
    <2>3. Names' = Names
      BY <1>2, <2>1, <2>2 DEF Names, Exists, Registered
    <2>4. QED
      BY <1>1, <1>3, <2>3, DirectoryStutters
  <1>5. CASE RegisterChild
    <2> DEFINE i == registering.next
               h == ports[i].name
    <2>1. i \in 1..Len(ports)
      BY <1>1, <1>2, <1>5 DEF RegisterChild, Registration
    <2>2. h \in Name /\ h \in ChildNames(P)
      <3>1. ports[i] \in ResolvedPort
        BY <1>2, <2>1
      <3>2. h \in Name
        BY <3>1 DEF ResolvedPort
      <3>3. h \in {ports[k].name : k \in 1..Len(ports)}
        BY <2>1
      <3> HIDE DEF h
      <3>4. QED
        BY <1>2, <3>2, <3>3 DEF ChildNames
    <2>3. /\ children' = children
          /\ \/ Registered(h) /\ forwards' = forwards
             \/ /\ nPf + 1 \in Pf
                /\ forwards' = [forwards EXCEPT ![h] = nPf + 1]
      BY <1>5 DEF RegisterChild, NewForward
    <2> HIDE DEF h
    <2>4. CASE forwards' = forwards
      BY <1>1, <1>3, <2>3, <2>4, SameNames, DirectoryStutters
    <2>5. CASE nPf + 1 \in Pf /\ forwards' = [forwards EXCEPT ![h] = nPf + 1]
      <3>1. forwards'[h] # None /\ \A k \in Name : k # h => forwards'[k] = forwards[k]
        BY <2>2, <2>5, NoneAssumption DEF IInv, TypeOK
      <3>2. Names' = Names \cup {h}
        BY <2>2, <2>3, <3>1 DEF Names, Exists, Registered
      <3>3. CASE h \in Names
        <4>1. Names' = Names
          BY <3>2, <3>3
        <4>2. QED
          BY <1>1, <1>3, <4>1, DirectoryStutters
      <3>4. CASE h \notin Names
        <4>1. P \in Names /\ h \in [n \in Name |-> ChildNames(n)][P]
          BY <1>2, <2>2
        <4>2. Directory!Expand(h)
          BY <1>1, <1>3, <3>2, <3>4, <4>1 DEF Directory!Expand, Opened, Names, Asked, Gone
        <4>3. QED
          BY <2>2, <4>2 DEF Directory!Next
      <3>5. QED
        BY <3>3, <3>4
    <2>6. QED
      BY <2>3, <2>4, <2>5
  <1>6. QED
    BY <1>4, <1>5 DEF Register

LEMMA InitDirectory == Init => Directory!Init
  <1> SUFFICES ASSUME Init PROVE Directory!Init
    OBVIOUS
  <1>1. Opened = FALSE /\ Names = {} /\ Gone = {}
    BY DEF Init, Opened, Names, Exists, Registered, Gone, HasDropped
  <1>2. Asked = [c \in Caller |-> None]
    BY DEF Init, Asked
  <1>3. QED
    BY <1>1, <1>2 DEF Init, Directory!Init, Opened, Names, Asked, Gone

LEMMA NextDirectory ==
    ASSUME IInv, IInv', TreeInv, [Next]_vars
    PROVE  Directory!Next \/ UNCHANGED Directory!vars
  <1>1. CASE UNCHANGED vars
    BY <1>1, DirectoryRests DEF vars, directory, loopVars, callerVars
  <1>2. CASE \E p \in Pf : SupProgress(p) \/ SupDrops(p) \/ SupPreempted(p)
    BY <1>2, DirectoryRests DEF SupProgress, SupHead, SupBegin, SupLaunch, SupReady,
       SupDialFails, SupLost, SupCancelled, SupReturned, SupFail, SupBackoff, SupDrops,
       SupPreempted, Goto, GotoIn, SupStep, directory, loopVars, callerVars
  <1>3. CASE (\E p \in Pf : TunnelDies(p)) \/ (\E q \in Port : CloseListener(q))
             \/ CancelContext \/ StopMark
    BY <1>3, DirectoryRests DEF TunnelDies, CloseListener, CancelContext, StopMark,
       directory, loopVars, callerVars
  <1>4. CASE \/ \E c \in Caller, s \in Service : CallAdd(c, s)
             \/ \E c \in Caller, n \in Name : CallRemove(c, n)
             \/ \E c \in Caller : LoopReceive(c) \/ CallerSeesDone(c)
    BY <1>4, CallerDirectory
  <1>5. CASE LoopExit
    <2>1. loop = "idle" /\ loop' = "exit" /\ UNCHANGED <<forwards, children, req, ret>>
      BY <1>5 DEF LoopExit, directory, callerVars
    <2>2. Names' = Names /\ Gone' = Gone /\ Asked' = Asked /\ Opened' = Opened
      BY <2>1, SameNames DEF Gone, HasDropped, Asked, AbstractRequest, Opened
    <2>3. QED
      BY <2>1, <2>2, DirectoryStutters
  <1>6. QED
    BY <1>1, <1>2, <1>3, <1>4, <1>5, StartDirectory, LoopDirectory, ResolveDirectory,
       RegisterDirectory DEF Next

(* For the callers, concurrent adds, removes, expansions and the shutdown  *)
(* of the event loop are operations on one atomic set: of two concurrent   *)
(* adds of a name exactly one wins, and no name reappears after its        *)
(* removal unless it is added or its parent expanded.                      *)
THEOREM DirectoryImplemented == Spec => ImplementsDirectory
  <1>1. Init => Directory!Init
    BY InitDirectory
  <1>2. IInv /\ IInv' /\ TreeInv /\ [Next]_vars => [Directory!Next]_(Directory!vars)
    BY NextDirectory
  <1>3. Spec => [](IInv /\ TreeInv)
    BY TreeInvariance
  <1>4. QED
    BY <1>1, <1>2, <1>3, PTL DEF Spec, ImplementsDirectory, Directory!Spec

-----------------------------------------------------------------------------
(* A registered child can be reached through its parent.  This needs the   *)
(* ports of a service not to change while the manager runs: the second of  *)
(* two resolutions of the same parent replaces the list of the first.      *)

StablePorts ==
    \A n \in Name : \A p, q \in Expansion[n] :
        {p[i].name : i \in 1..Len(p)} = {q[i].name : i \in 1..Len(q)}

(* doRemove has the name still to come. *)
Doomed(n) == \E i \in 1..Len(pending) : pending[i] = n /\ (loop = "cancel" => i > 1)

(* The parent lists the name, or is about to: its registration runs.       *)
Listed(n, P) ==
    /\ children[P] # None
    /\ n \in ToSet(children[P]) \/ (registering # None /\ registering.svc.name = P)

Belongs(n, P) == Registered(n) /\ svc[forwards[n]].parent = P

ParentOK ==
    \A n, P \in Name : Belongs(n, P) =>
        n \in ChildNames(P) /\ (Doomed(n) \/ Listed(n, P))

LEMMA StableNames ==
    ASSUME StablePorts, NEW n \in Name, NEW p \in Expansion[n], NEW k \in ChildNames(n)
    PROVE  \E i \in 1..Len(p) : p[i].name = k
  <1>1. PICK q \in Expansion[n] : k \in {q[i].name : i \in 1..Len(q)}
    BY DEF ChildNames
  <1>2. k \in {p[i].name : i \in 1..Len(p)}
    BY <1>1 DEF StablePorts
  <1>3. QED
    BY <1>2

(* No child is registered by a step that leaves the structs alone, or      *)
(* allocates one that has no parent.                                       *)
LEMMA NoNewChild ==
    ASSUME IInv, NEW k \in Name, NEW P \in Name, Belongs(k, P)',
           \/ /\ svc' = svc
              /\ forwards' = forwards \/ \E n \in Name : Unlink(n)
           \/ \E e \in Entry : \E st, ph : e.parent = None /\ NewForward(e, st, ph, TRUE)
    PROVE  Belongs(k, P) /\ forwards'[k] = forwards[k]
  <1>1. CASE svc' = svc /\ forwards' = forwards
    BY <1>1 DEF Belongs, Registered
  <1>2. ASSUME svc' = svc, NEW n \in Name, Unlink(n)
        PROVE  Belongs(k, P) /\ forwards'[k] = forwards[k]
    BY <1>2 DEF Unlink, Belongs, Registered, IInv, TypeOK
  <1>3. ASSUME NEW e \in Entry, NEW st, NEW ph, e.parent = None, NewForward(e, st, ph, TRUE)
        PROVE  Belongs(k, P) /\ forwards'[k] = forwards[k]
    <2> DEFINE p == nPf + 1
    <2>1. /\ p \in Pf /\ svc' = [svc EXCEPT ![p] = e]
          /\ forwards' = [forwards EXCEPT ![e.name] = p] /\ e.name \in Name
      BY <1>3 DEF NewForward, Entry
    <2>2. p # nPf /\ ~(p <= nPf)
      BY ConstantsAssumption DEF IInv, TypeOK
    <2> HIDE DEF p
    <2>3. svc'[p] = e
      BY <2>1 DEF IInv, TypeOK
    <2>4. k # e.name
      <3>1. k = e.name => forwards'[k] = p
        BY <2>1 DEF IInv, TypeOK
      <3>2. QED
        BY <1>3, <2>3, <3>1, NoneAssumption DEF Belongs
    <2>5. forwards'[k] = forwards[k]
      BY <2>1, <2>4 DEF IInv, TypeOK
    <2>6. forwards[k] # p /\ forwards[k] \in Pf
      BY <2>2, <2>5 DEF Belongs, Registered, IInv, DirInv, EntriesNamed, TypeOK
    <2>7. svc'[forwards[k]] = svc[forwards[k]]
      BY <2>1, <2>6 DEF IInv, TypeOK
    <2>8. QED
      BY <2>5, <2>7 DEF Belongs, Registered
  <1>4. QED
    BY <1>1, <1>2, <1>3

(* A step after which every child that is still registered is still listed *)
(* or still doomed.                                                        *)
LEMMA ParentStep ==
    ASSUME IInv, ParentOK,
           \/ /\ svc' = svc
              /\ forwards' = forwards \/ \E n \in Name : Unlink(n)
           \/ \E e \in Entry : \E st, ph : e.parent = None /\ NewForward(e, st, ph, TRUE),
           \A k, P \in Name : Belongs(k, P) /\ Belongs(k, P)' /\ (Doomed(k) \/ Listed(k, P))
                              => (Doomed(k) \/ Listed(k, P))'
    PROVE  ParentOK'
  <1> SUFFICES ASSUME NEW k \in Name, NEW P \in Name, Belongs(k, P)'
               PROVE  k \in ChildNames(P) /\ (Doomed(k) \/ Listed(k, P))'
    BY DEF ParentOK, ChildNames
  <1>1. Belongs(k, P)
    BY NoNewChild
  <1>2. k \in ChildNames(P) /\ (Doomed(k) \/ Listed(k, P))
    BY <1>1 DEF ParentOK
  <1>3. QED
    BY <1>1, <1>2

(* What allocates a struct under a name that nothing has. *)
LEMMA ReserveAllocates ==
    ASSUME IInv, NEW s \in Service, ReserveAndSpawn(s)
    PROVE  \/ svc' = svc /\ forwards' = forwards
           \/ \E e \in Entry : \E st, ph : e.parent = None /\ NewForward(e, st, ph, TRUE)
  <1>1. CASE s.multi
    BY <1>1 DEF ReserveAndSpawn, structs
  <1>2. CASE ~s.multi
    <2> DEFINE e == [name |-> s.name, port |-> s.port, parent |-> None, source |-> s.source]
    <2>1. NewForward(e, "starting", "head", TRUE)
      BY <1>2 DEF ReserveAndSpawn
    <2>2. e \in Entry /\ e.parent = None
      BY ServiceFields DEF Entry
    <2> HIDE DEF e
    <2>3. QED
      BY <2>1, <2>2
  <1>3. QED
    BY <1>1, <1>2

LEMMA ReserveParent ==
    ASSUME IInv, ParentOK, NEW s \in Service,
           Verdict(s) = "ok" /\ ReserveAndSpawn(s), pending = <<>>,
           registering' = registering
    PROVE  ParentOK'
  <1>1. s.name \in Name /\ children[s.name] = None
    BY ServiceFields DEF Verdict, Exists
  <1>2. \/ children' = children
        \/ children' = [children EXCEPT ![s.name] = <<>>]
    BY DEF ReserveAndSpawn
  <1>3. \A P \in Name : children[P] # None => children'[P] = children[P]
    BY <1>1, <1>2 DEF IInv, TypeOK
  <1>4. \A k, P \in Name : Doomed(k) \/ Listed(k, P) => (Doomed(k) \/ Listed(k, P))'
    <2> SUFFICES ASSUME NEW k \in Name, NEW P \in Name, Doomed(k) \/ Listed(k, P)
                 PROVE  (Doomed(k) \/ Listed(k, P))'
      OBVIOUS
    <2>1. Listed(k, P)
      BY DEF Doomed
    <2>2. Listed(k, P)'
      BY <1>3, <2>1 DEF Listed
    <2>3. QED
      BY <2>2
  <1>5. QED
    BY <1>4, ReserveAllocates, ParentStep

(* Nothing the parents and the names have to do with changes.              *)
LEMMA ParentQuiet ==
    ASSUME IInv, ParentOK, UNCHANGED <<forwards, svc, children, pending>>,
           \/ UNCHANGED loop
           \/ loop \notin {"unlink", "cancel"} /\ loop' \notin {"unlink", "cancel"},
           registering = None \/ registering' = registering
    PROVE  ParentOK'
  <1>1. \A k, P \in Name : Doomed(k) \/ Listed(k, P) => (Doomed(k) \/ Listed(k, P))'
    <2> SUFFICES ASSUME NEW k \in Name, NEW P \in Name, Doomed(k) \/ Listed(k, P)
                 PROVE  Doomed(k)' \/ Listed(k, P)'
      OBVIOUS
    <2>1. Listed(k, P) => Listed(k, P)'
      BY DEF Listed
    <2>2. Doomed(k) => Doomed(k)'
      BY DEF Doomed
    <2>3. QED
      BY <2>1, <2>2
  <1>2. QED
    BY <1>1, ParentStep

LEMMA StartParent ==
    ASSUME IInv, TreeInv, ParentOK, StartWork
    PROVE  ParentOK'
  <1>1. CASE StartBegin \/ StartLoop
    BY <1>1, ParentQuiet DEF StartBegin, StartLoop, directory, structs, multiVars
  <1>2. CASE StartReserve
    <2> DEFINE s == Configured[booted + 1]
    <2>1. /\ booted < Len(Configured) /\ registering' = registering /\ loop = "boot"
          /\ pending' = pending /\ loop' = loop
          /\ \/ Verdict(s) = "ok" /\ ReserveAndSpawn(s)
             \/ UNCHANGED <<forwards, svc, children>>
      BY <1>2 DEF StartReserve, directory, structs
    <2>2. s \in Service
      BY <2>1, ConstantsAssumption DEF IInv, TypeOK
    <2>3. pending = <<>>
      BY <2>1 DEF TreeInv, RemovalOK
    <2> HIDE DEF s
    <2>4. QED
      BY <2>1, <2>2, <2>3, ReserveParent, ParentQuiet
  <1>3. QED
    BY <1>1, <1>2 DEF StartWork

(* Going on to the next name, when the one at the head is no child's.      *)
LEMMA NextChildDoomed ==
    ASSUME IInv, NEW err, NextChild(err), NEW k \in Name, Doomed(k),
           loop = "cancel" \/ Head(pending) # k
    PROVE  Doomed(k)'
  <1> PICK i \in 1..Len(pending) : pending[i] = k /\ (loop = "cancel" => i > 1)
    BY DEF Doomed
  <1>1. pending \in Seq(Name)
    BY DEF IInv, TypeOK
  <1>2. i # 1
    BY <1>1
  <1>3. Len(pending) \in Nat /\ Len(pending) > 1
    BY <1>1, <1>2
  <1>4. loop' = "unlink" /\ pending' = Tail(pending)
    BY <1>3 DEF NextChild
  <1>5. i - 1 \in 1..Len(Tail(pending)) /\ Tail(pending)[i - 1] = k
    BY <1>1, <1>2, <1>3
  <1>6. QED
    BY <1>4, <1>5 DEF Doomed

LEMMA LoopParent ==
    ASSUME IInv, TreeInv, ParentOK, LoopWork
    PROVE  ParentOK'
  <1>1. registering' = registering /\ (registering = None \/ loop = "cancel")
    BY DEF LoopWork, LoopAdd, LoopRemove, LoopUnlink, LoopCancel, MuFree, multiVars
  <1>2. CASE LoopAdd
    <2> DEFINE s == req[serving].arg
    <2>1. /\ loop = "add" /\ loop' = "idle" /\ pending' = <<>> /\ s \in Service
          /\ \/ Verdict(s) = "ok" /\ ReserveAndSpawn(s)
             \/ UNCHANGED <<forwards, svc, children>>
      BY <1>2 DEF LoopAdd, Reply, directory, structs, IInv, ControlOK
    <2>2. pending = <<>>
      BY <2>1 DEF TreeInv, RemovalOK
    <2> HIDE DEF s
    <2>3. QED
      BY <1>1, <2>1, <2>2, ReserveParent, ParentQuiet
  <1>3. CASE LoopRemove
    <2> DEFINE n == req[serving].arg
    <2>1. loop = "remove" /\ n \in Name /\ svc' = svc /\ pending = <<>> /\ loop' # "cancel"
      BY <1>3 DEF LoopRemove, Reply, structs, IInv, ControlOK, TreeInv, RemovalOK
    <2>2. CASE children[n] = None
      <3>1. UNCHANGED <<forwards, children>>
        BY <1>3, <2>2 DEF LoopRemove, directory
      <3>2. \A k, P \in Name : Doomed(k) \/ Listed(k, P) => (Doomed(k) \/ Listed(k, P))'
        BY <1>1, <2>1, <3>1 DEF Doomed, Listed
      <3>3. QED
        BY <2>1, <3>1, <3>2, ParentStep
    <2>3. CASE children[n] # None
      <3>1. /\ children' = [children EXCEPT ![n] = None]
            /\ IF Registered(n) THEN Unlink(n) ELSE forwards' = forwards
            /\ \/ children[n] = <<>>
               \/ pending' = children[n]
        BY <1>3, <2>3 DEF LoopRemove
      <3>2. \A P \in Name : P # n => children'[P] = children[P]
        BY <2>1, <3>1 DEF IInv, TypeOK
      <3>3. ASSUME NEW k \in Name, NEW P \in Name, Doomed(k) \/ Listed(k, P)
            PROVE  (Doomed(k) \/ Listed(k, P))'
        <4>1. Listed(k, P)
          BY <2>1, <3>3 DEF Doomed
        <4>2. CASE P # n
          <5>1. Listed(k, P)'
            BY <1>1, <3>2, <4>1, <4>2 DEF Listed
          <5>2. QED
            BY <5>1
        <4>3. CASE P = n
          <5>1. k \in ToSet(children[n]) /\ children[n] \in Seq(Name)
            BY <1>1, <2>1, <2>3, <4>1, <4>3 DEF Listed, IInv, TypeOK
          <5>2. PICK i \in 1..Len(children[n]) : children[n][i] = k
            BY <5>1 DEF ToSet
          <5>3. children[n] # <<>>
            BY <5>2
          <5>4. Doomed(k)'
            BY <2>1, <3>1, <5>2, <5>3 DEF Doomed
          <5>5. QED
            BY <5>4
        <4>4. QED
          BY <4>2, <4>3
      <3>4. QED
        BY <2>1, <3>1, <3>3, ParentStep
    <2>4. QED
      BY <2>2, <2>3
  <1>4. CASE LoopUnlink
    <2>1. loop = "unlink" /\ svc' = svc /\ children' = children
      BY <1>4 DEF LoopUnlink, structs
    <2>2. \A k, P \in Name : Listed(k, P) => Listed(k, P)'
      BY <1>1, <2>1 DEF Listed
    <2>3. /\ Head(pending) \in Name /\ Head(pending) = pending[1]
      <3>1. pending \in Seq(Name) /\ pending # <<>>
        BY <2>1 DEF IInv, TypeOK, ControlOK
      <3>2. QED
        BY <3>1
    <2>4. CASE Unlink(Head(pending)) /\ UNCHANGED pending /\ loop' = "cancel"
      <3>1. forwards'[Head(pending)] = None
        BY <2>3, <2>4 DEF Unlink, IInv, TypeOK
      <3>2. ASSUME NEW k \in Name, NEW P \in Name, Belongs(k, P)', Doomed(k)
            PROVE  Doomed(k)'
        <4>1. k # pending[1]
          BY <2>3, <3>1, <3>2 DEF Belongs, Registered
        <4>2. PICK i \in 1..Len(pending) : pending[i] = k
          BY <3>2 DEF Doomed
        <4>3. i > 1
          BY <4>1, <4>2
        <4>4. QED
          BY <2>4, <4>2, <4>3 DEF Doomed
      <3>3. QED
        BY <2>1, <2>2, <2>3, <2>4, <3>2, ParentStep
    <2>5. CASE ~Registered(Head(pending)) /\ NextChild(FirstErr("notfound"))
      <3>1. forwards' = forwards
        BY <1>4, <2>5 DEF LoopUnlink
      <3> PICK err : err = FirstErr("notfound")
        OBVIOUS
      <3>2. NextChild(err)
        BY <2>5 DEF NextChild
      <3>3. \A k, P \in Name : Belongs(k, P) /\ Doomed(k) => Doomed(k)'
        BY <2>5, <3>2, NextChildDoomed DEF Belongs
      <3>4. QED
        BY <2>1, <2>2, <3>1, <3>3, ParentStep
    <2>6. QED
      BY <1>4, <2>4, <2>5 DEF LoopUnlink
  <1>5. CASE LoopCancel
    <2>1. loop = "cancel" /\ UNCHANGED <<forwards, svc, children>>
      BY <1>5 DEF LoopCancel, directory
    <2>2. \A k, P \in Name : Listed(k, P) => Listed(k, P)'
      BY <1>1, <2>1 DEF Listed
    <2> PICK err : err = removeErr
      OBVIOUS
    <2>3. NextChild(err)
      BY <1>5 DEF LoopCancel, NextChild
    <2>4. \A k \in Name : Doomed(k) => Doomed(k)'
      BY <2>1, <2>3, NextChildDoomed
    <2>5. QED
      BY <2>1, <2>2, <2>4, ParentStep
  <1>6. QED
    BY <1>2, <1>3, <1>4, <1>5 DEF LoopWork

LEMMA ResolveParent ==
    ASSUME IInv, ParentOK, NEW s \in Service, Resolve(s)
    PROVE  ParentOK'
  <1>1. UNCHANGED <<children, pending, loop>> /\ registering = None
    BY DEF Resolve, ResolveFails, ResolveSucceeds, directory, loopVars, MuFree
  <1>2. \A k, P \in Name : Doomed(k) \/ Listed(k, P) => (Doomed(k) \/ Listed(k, P))'
    BY <1>1 DEF Doomed, Listed
  <1>3. \/ UNCHANGED <<forwards, svc>>
        \/ NewForward([name |-> s.name, port |-> 0, parent |-> None, source |-> Native],
                      "failed", "unspawned", TRUE)
    BY DEF Resolve, ResolveFails, ResolveSucceeds, directory, structs
  <1> DEFINE e == [name |-> s.name, port |-> 0, parent |-> None, source |-> Native]
  <1>4. e \in Entry /\ e.parent = None
    BY ServiceFields, ConstantsAssumption DEF Entry
  <1> HIDE DEF e
  <1>5. \/ UNCHANGED <<forwards, svc>>
        \/ \E d \in Entry : \E st, ph : d.parent = None /\ NewForward(d, st, ph, TRUE)
    BY <1>3, <1>4 DEF e
  <1>6. QED
    BY <1>2, <1>5, ParentStep

LEMMA RegisterParent ==
    ASSUME StablePorts, IInv, TreeInv, ParentOK, Register
    PROVE  ParentOK'
  <1>1. /\ UNCHANGED <<pending, loop>>
        /\ registering # None /\ registering \in Registration
    BY DEF Register, RegisterChild, RegisterDone, loopVars, IInv, TypeOK
  <1> DEFINE ports == registering.ports
  <1> PICK Q : Q = registering.svc.name
    OBVIOUS
  <1>2. /\ Q \in Name /\ ports \in Expansion[Q] /\ ports \in Seq(ResolvedPort)
        /\ children[Q] # None
    BY <1>1, ConstantsAssumption DEF Registration, TreeInv, ReservedOK
  <1>3. \A k \in Name : Doomed(k) => Doomed(k)'
    BY <1>1 DEF Doomed
  <1>4. CASE RegisterDone
    <2> DEFINE kids == [i \in 1..Len(ports) |-> ports[i].name]
    <2>1. UNCHANGED <<forwards, svc>> /\ children' = [children EXCEPT ![Q] = kids]
      BY <1>4 DEF RegisterDone, structs
    <2>2. Len(ports) \in Nat /\ kids \in Seq(Name)
      <3>1. Len(ports) \in Nat /\ \A i \in 1..Len(ports) : ports[i] \in ResolvedPort
        BY <1>2
      <3>2. \A i \in 1..Len(ports) : ports[i].name \in Name
        BY <3>1 DEF ResolvedPort
      <3>3. QED
        BY <3>1, <3>2
    <2>3. \A k \in ChildNames(Q) : k \in ToSet(kids)
      <3> SUFFICES ASSUME NEW k \in ChildNames(Q) PROVE k \in ToSet(kids)
        OBVIOUS
      <3>1. PICK i \in 1..Len(ports) : ports[i].name = k
        BY <1>2, StableNames
      <3>2. QED
        BY <2>2, <3>1 DEF ToSet
    <2> HIDE DEF kids
    <2>4. children'[Q] = kids /\ \A P \in Name : P # Q => children'[P] = children[P]
      BY <1>2, <2>1 DEF IInv, TypeOK
    <2>5. ASSUME NEW k \in Name, NEW P \in Name, Belongs(k, P), Listed(k, P)
          PROVE  Listed(k, P)'
      <3>1. CASE P = Q
        <4>1. k \in ToSet(kids)
          BY <2>3, <2>5, <3>1 DEF ParentOK
        <4>2. kids # None
          BY <2>2, NoneAssumption
        <4>3. QED
          BY <2>4, <3>1, <4>1, <4>2 DEF Listed
      <3>2. CASE P # Q
        BY <2>4, <2>5, <3>2 DEF Listed
      <3>3. QED
        BY <3>1, <3>2
    <2>6. QED
      BY <1>3, <2>1, <2>5, ParentStep
  <1>5. CASE RegisterChild
    <2> DEFINE i == registering.next
               e == [name |-> ports[i].name, port |-> ports[i].port,
                     parent |-> Q, source |-> registering.svc.source]
    <2>1. /\ children' = children /\ registering' = [registering EXCEPT !.next = @ + 1]
          /\ NewForward(e, "starting", "unspawned", ~Registered(ports[i].name))
          /\ i \in 1..Len(ports)
      BY <1>1, <1>2, <1>5 DEF RegisterChild, Registration
    <2>2. registering' # None /\ registering'.svc = registering.svc
      <3>1. registering' \in Registration /\ registering'.svc = registering.svc
        BY <1>1, <2>1 DEF Registration
      <3>2. QED
        BY <3>1, NoneAssumption
    <2>3. \A k, P \in Name : Listed(k, P) => Listed(k, P)'
      BY <1>1, <2>1, <2>2 DEF Listed
    <2>4. ports[i] \in ResolvedPort /\ ports[i].name \in ChildNames(Q)
      <3>1. ports[i].name \in {ports[j].name : j \in 1..Len(ports)}
        BY <2>1
      <3>2. QED
        BY <1>2, <2>1, <3>1 DEF ChildNames
    <2>5. PICK h \in Name : h = ports[i].name
      BY <2>4 DEF ResolvedPort
    <2>6. e.name = h /\ e.parent = Q /\ h \in ChildNames(Q)
      BY <2>4, <2>5
    <2>7. PICK p : p = nPf + 1 /\ p \in Pf /\ ~(p <= nPf)
      BY <2>1, ConstantsAssumption DEF NewForward, IInv, TypeOK
    <2>8. /\ svc' = [svc EXCEPT ![p] = e]
          /\ \/ forwards' = forwards
             \/ forwards' = [forwards EXCEPT ![h] = p]
      BY <2>1, <2>5, <2>6, <2>7 DEF NewForward
    <2> HIDE DEF e
    <2>9. svc'[p] = e /\ \A q \in Pf : q # p => svc'[q] = svc[q]
      BY <2>7, <2>8 DEF IInv, TypeOK
    <2>10. ASSUME NEW k \in Name, Registered(k), forwards'[k] = forwards[k]
           PROVE  svc'[forwards'[k]] = svc[forwards[k]]
      <3>1. forwards[k] \in Pf /\ forwards[k] <= nPf
        BY <2>10 DEF Registered, IInv, DirInv, EntriesNamed, TypeOK
      <3>2. forwards[k] # p
        BY <2>7, <3>1
      <3>3. QED
        BY <2>9, <2>10, <3>1, <3>2
    <2>11. ASSUME NEW k \in Name, NEW P \in Name, Belongs(k, P)'
           PROVE  k \in ChildNames(P) /\ (Doomed(k) \/ Listed(k, P))'
      <3>1. CASE forwards'[k] = forwards[k]
        <4>1. Belongs(k, P)
          BY <2>10, <2>11, <3>1 DEF Belongs, Registered
        <4>2. k \in ChildNames(P) /\ (Doomed(k) \/ Listed(k, P))
          BY <4>1 DEF ParentOK
        <4>3. QED
          BY <1>3, <2>3, <4>2
      <3>2. CASE forwards'[k] # forwards[k]
        <4>1. k = h /\ forwards'[k] = p
          BY <2>8, <3>2 DEF IInv, TypeOK
        <4>2. P = Q
          BY <2>6, <2>9, <2>11, <4>1 DEF Belongs
        <4>3. Listed(k, Q)'
          BY <1>2, <2>1, <2>2 DEF Listed
        <4>4. QED
          BY <2>6, <4>1, <4>2, <4>3
      <3>3. QED
        BY <3>1, <3>2
    <2>12. QED
      BY <2>11 DEF ParentOK, ChildNames
  <1>6. QED
    BY <1>4, <1>5 DEF Register

LEMMA InitParent == Init => ParentOK
  BY DEF Init, ParentOK, Belongs, Registered

LEMMA NextParent ==
    ASSUME StablePorts, IInv, TreeInv, ParentOK, [Next]_vars
    PROVE  ParentOK'
  <1>1. CASE UNCHANGED vars
    BY <1>1, ParentQuiet DEF vars, directory, structs, multiVars, loopVars
  <1>2. CASE \E p \in Pf : SupProgress(p) \/ SupDrops(p) \/ SupPreempted(p)
    BY <1>2, ParentQuiet DEF SupProgress, SupHead, SupBegin, SupLaunch, SupReady, SupDialFails,
       SupLost, SupCancelled, SupReturned, SupFail, SupBackoff, SupDrops, SupPreempted,
       Goto, GotoIn, SupStep, directory, multiVars, loopVars
  <1>3. CASE (\E p \in Pf : TunnelDies(p)) \/ (\E q \in Port : CloseListener(q))
             \/ CancelContext \/ StopMark
    BY <1>3, ParentQuiet DEF TunnelDies, CloseListener, CancelContext, StopMark,
       directory, structs, multiVars, loopVars
  <1>4. CASE \/ \E c \in Caller, s \in Service : CallAdd(c, s)
             \/ \E c \in Caller, n \in Name : CallRemove(c, n)
             \/ \E c \in Caller : CallerSeesDone(c)
    BY <1>4, ParentQuiet DEF CallAdd, CallRemove, Call, CallerSeesDone,
       directory, structs, multiVars, loopVars
  <1>5. CASE LoopExit \/ \E c \in Caller : LoopReceive(c)
    <2>1. /\ loop = "idle" /\ loop' \in {"add", "remove", "exit"}
          /\ UNCHANGED <<forwards, svc, children, pending, registering>>
      BY <1>5 DEF LoopExit, LoopReceive, directory, structs, multiVars, IInv, ControlOK, Request
    <2>2. QED
      BY <2>1, ParentQuiet
  <1>6. QED
    BY <1>1, <1>2, <1>3, <1>4, <1>5, StartParent, LoopParent, ResolveParent, RegisterParent
       DEF Next

(* When the ports of every service stay what they are, a registered child  *)
(* is in its parent's list, where the removal of the parent finds it, or   *)
(* that removal is under way and still has it to do.                       *)
THEOREM ChildrenAreReachable ==
    ASSUME StablePorts
    PROVE  Spec => []ChildrenReachable
  <1>1. Init => ParentOK
    BY InitParent
  <1>2. IInv /\ TreeInv /\ ParentOK /\ [Next]_vars => ParentOK'
    BY NextParent
  <1>3. IInv /\ ParentOK => ChildrenReachable
    <2> SUFFICES ASSUME IInv, ParentOK, MuFree, NEW n \in Name, Registered(n),
                        svc[forwards[n]].parent # None
                 PROVE  \/ /\ children[svc[forwards[n]].parent] # None
                           /\ n \in ToSet(children[svc[forwards[n]].parent])
                        \/ n \in ToSet(pending)
      BY DEF ChildrenReachable
    <2>1. svc[forwards[n]] \in Entry
      BY DEF IInv, DirInv, EntriesNamed
    <2>2. PICK P \in Name : svc[forwards[n]].parent = P
      BY <2>1 DEF Entry
    <2>3. Doomed(n) \/ Listed(n, P)
      BY <2>2 DEF ParentOK, Belongs
    <2>4. Doomed(n) => n \in ToSet(pending)
      BY DEF Doomed, ToSet, IInv, TypeOK
    <2>5. Listed(n, P) => children[P] # None /\ n \in ToSet(children[P])
      BY DEF Listed, MuFree
    <2>6. QED
      BY <2>2, <2>3, <2>4, <2>5
  <1>4. QED
    BY <1>1, <1>2, <1>3, TreeInvariance, PTL DEF Spec
=============================================================================
