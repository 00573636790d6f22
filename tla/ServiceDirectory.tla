--------------------------- MODULE ServiceDirectory ---------------------------
(***************************************************************************)
(* What the manager's AddService and RemoveService promise their callers:  *)
(* a set of names on which the calls of all goroutines take effect one at  *)
(* a time.  An add succeeds exactly when it is the call that puts the name *)
(* in; a name leaves only on behalf of a removal in progress; the children *)
(* of a multi-port service are put in while their parent is in.            *)
(***************************************************************************)
CONSTANTS Name, Caller, None,
          ChildOf    \* ChildOf[n]: the names the expansion of n may produce

VARIABLES open,      \* requests are being served
          names,     \* the names in the directory
          req,       \* the request each caller waits on, None if none
          ret,       \* the result of each caller's last request
          dropped    \* callers whose removal has already taken the name out

vars == <<open, names, req, ret, dropped>>

Request == [op : {"add", "remove"}, name : Name]

Init ==
    /\ open = FALSE
    /\ names = {}
    /\ req = [c \in Caller |-> None]
    /\ ret = [c \in Caller |-> "none"]
    /\ dropped = {}

(* A configured service is put in at start, before any request is served. *)
Boot(n) ==
    /\ ~open
    /\ n \notin names
    /\ names' = names \cup {n}
    /\ UNCHANGED <<open, req, ret, dropped>>

Open ==
    /\ open' = TRUE
    /\ UNCHANGED <<names, req, ret, dropped>>

Issue(c, r) ==
    /\ req[c] = None
    /\ req' = [req EXCEPT ![c] = r]
    /\ ret' = [ret EXCEPT ![c] = "none"]
    /\ UNCHANGED <<open, names, dropped>>

(* A request refused without looking at the directory. *)
Refuse(c, v) ==
    /\ req[c] = None
    /\ ret' = [ret EXCEPT ![c] = v]
    /\ UNCHANGED <<open, names, req, dropped>>

Answer(c, v) ==
    /\ open
    /\ UNCHANGED open
    /\ req' = [req EXCEPT ![c] = None]
    /\ ret' = [ret EXCEPT ![c] = v]
    /\ dropped' = dropped \ {c}

(* The directory shut down before the request took effect. *)
Abandon(c) ==
    /\ req[c] # None
    /\ c \notin dropped
    /\ Answer(c, "stopped")
    /\ UNCHANGED names

Add(c) ==
    /\ req[c] # None
    /\ req[c].op = "add"
    /\ \/ /\ req[c].name \notin names
          /\ names' = names \cup {req[c].name}
          /\ Answer(c, "ok")
       \/ /\ req[c].name \in names
          /\ Answer(c, "exists")
          /\ UNCHANGED names
       \/ /\ req[c].name \notin names
          /\ Answer(c, "port")
          /\ UNCHANGED names

(* The removal takes effect; its answer follows. *)
Drop(c) ==
    /\ req[c] # None
    /\ req[c].op = "remove"
    /\ c \notin dropped
    /\ req[c].name \in names
    /\ names' = names \ {req[c].name}
    /\ \/ /\ open
          /\ dropped' = dropped \cup {c}
          /\ UNCHANGED <<open, req, ret>>
       \/ Answer(c, "ok")

(* The removal of a parent takes out a child. *)
DropChild(c, n) ==
    /\ c \in dropped
    /\ n \in ChildOf[req[c].name]
    /\ names' = names \ {n}
    /\ UNCHANGED <<open, req, ret, dropped>>

(* "notfound" after a drop reports a child that had already gone. *)
RemoveAnswer(c) ==
    /\ req[c] # None
    /\ req[c].op = "remove"
    /\ \/ c \in dropped /\ \E v \in {"ok", "notfound"} : Answer(c, v)
       \/ c \notin dropped /\ req[c].name \notin names /\ Answer(c, "notfound")
    /\ UNCHANGED names

(* The expansion of a parent that is in the directory puts in a child. *)
Expand(n) ==
    /\ n \notin names
    /\ \E p \in names : n \in ChildOf[p]
    /\ names' = names \cup {n}
    /\ UNCHANGED <<open, req, ret, dropped>>

Next ==
    \/ Open
    \/ \E n \in Name : Boot(n) \/ Expand(n)
    \/ \E c \in Caller :
         \/ \E r \in Request : Issue(c, r)
         \/ \E v \in {"invalid", "notstarted"} : Refuse(c, v)
         \/ Abandon(c) \/ Add(c) \/ Drop(c) \/ RemoveAnswer(c)
         \/ \E n \in Name : DropChild(c, n)

Spec == Init /\ [][Next]_vars
=============================================================================
