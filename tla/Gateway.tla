------------------------------- MODULE Gateway -------------------------------
(***************************************************************************)
(* The SOCKS5 and HTTP proxies of pkg/proxy (socks.go, httpproxy.go,       *)
(* relay.go), as the daemon embeds them or the socks and http-proxy        *)
(* commands run them: a client of the daemon, a listener, one handler for  *)
(* each connection with its handshake deadline, and the shutdown that      *)
(* waits for the handlers.                                                 *)
(***************************************************************************)
EXTENDS Naturals

CONSTANTS
    Conn,     \* TCP connections of the proxy's clients
    Host,     \* hosts the clients ask for
    NoHost    \* none

ASSUME GatewayAssumption == NoHost \notin Host

VARIABLES
    kind,       \* "socks" or "http"
    auth,       \* requiresAuth()
    embedded,   \* started by the daemon, not by a command
    serve,      \* what the goroutine that owns the server does
    daemon,     \* its client of the daemon, p
    ctxDone,    \* the context is cancelled
    pc,         \* control point of each handler
    deadline,   \* of each connection: "armed", "expired" or "off"
    proved,     \* the client has shown the right credentials
    asked,      \* the host the handler dials, then the one it is connected to
    request,    \* handleHTTP: the request in hand
    open,       \* relay: the directions that still copy
    upstream    \* all that the targets were sent

serverVars == <<kind, auth, embedded>>
connVars   == <<pc, deadline, proved, asked, request, open>>
vars == <<serverVars, serve, daemon, ctxDone, connVars, upstream>>

Request == [host : Host, secret : BOOLEAN]
NoRequest == [host |-> NoHost, secret |-> FALSE]
Both == {"up", "down"}

(* Reading from a client that has not been granted anything yet, and all   *)
(* of what handleConn does before it is connected to the target.           *)
Reading == {"greeting", "userpass", "request"}
Handshake == Reading \cup {"connecting", "dialling"}
(* Connected to a target. *)
Connected == {"relay", "forward", "response", "next"}

TypeOK ==
    /\ kind \in {"socks", "http"}
    /\ {auth, embedded, ctxDone} \subseteq BOOLEAN
    /\ proved \in [Conn -> BOOLEAN]
    /\ serve \in {"connect", "listen", "accept", "drain", "returned", "failed"}
    /\ daemon \in {"none", "open", "closed"}
    /\ pc \in [Conn -> {"none", "closed"} \cup Handshake \cup Connected]
    /\ deadline \in [Conn -> {"armed", "expired", "off"}]
    /\ asked \in [Conn -> Host \cup {NoHost}]
    /\ request \in [Conn -> Request \cup {NoRequest}]
    /\ open \in [Conn -> SUBSET Both]
    /\ upstream \subseteq [conn : Conn, target : Host, host : Host, secret : BOOLEAN]
    /\ \A c \in Conn : pc[c] \in Connected => deadline[c] = "off" /\ asked[c] # NoHost
    /\ serve \in {"connect", "listen", "failed"} => \A c \in Conn : pc[c] = "none"

Init ==
    /\ kind \in {"socks", "http"}
    /\ auth \in BOOLEAN
    /\ embedded \in BOOLEAN
    /\ serve = "connect"
    /\ daemon = "none"
    /\ ctxDone = FALSE
    /\ pc = [c \in Conn |-> "none"]
    /\ deadline = [c \in Conn |-> "off"]
    /\ proved = [c \in Conn |-> FALSE]
    /\ asked = [c \in Conn |-> NoHost]
    /\ request = [c \in Conn |-> NoRequest]
    /\ open = [c \in Conn |-> {}]
    /\ upstream = {}

-----------------------------------------------------------------------------
(* The server.  Of the two failures only the first leaves nothing behind:   *)
(* when the port is taken the client of the daemon stays open.              *)
ConnectDaemon(ok) ==
    /\ serve = "connect"
    /\ serve' = IF ok THEN "listen" ELSE "failed"
    /\ daemon' = IF ok THEN "open" ELSE daemon
    /\ UNCHANGED <<serverVars, ctxDone, connVars, upstream>>

Listen(ok) ==
    /\ serve = "listen"
    /\ serve' = IF ok THEN "accept" ELSE "failed"
    /\ UNCHANGED <<serverVars, daemon, ctxDone, connVars, upstream>>

AcceptNoDeadline(c) ==
    /\ serve = "accept"
    /\ pc[c] = "none"
    /\ pc' = [pc EXCEPT ![c] = IF kind = "socks" THEN "greeting" ELSE "request"]
    /\ UNCHANGED <<serverVars, serve, daemon, ctxDone, deadline, proved, asked, request, open, upstream>>

Accept(c) ==
    /\ serve = "accept"
    /\ pc[c] = "none"
    /\ pc' = [pc EXCEPT ![c] = IF kind = "socks" THEN "greeting" ELSE "request"]
    /\ deadline' = [deadline EXCEPT ![c] = "armed"]
    /\ UNCHANGED <<serverVars, serve, daemon, ctxDone, proved, asked, request, open, upstream>>

(* The daemon stops, or the user interrupts the command. *)
Cancel ==
    /\ ~ctxDone
    /\ ctxDone' = TRUE
    /\ UNCHANGED <<serverVars, serve, daemon, connVars, upstream>>

(* Serve's own goroutine closes the listener, and Accept fails for good. *)
CloseListener ==
    /\ ctxDone
    /\ serve = "accept"
    /\ serve' = "drain"
    /\ UNCHANGED <<serverVars, daemon, ctxDone, connVars, upstream>>

(* wg.Wait *)
ServeReturns ==
    /\ serve = "drain"
    /\ \A c \in Conn : pc[c] \in {"none", "closed"}
    /\ serve' = "returned"
    /\ UNCHANGED <<serverVars, daemon, ctxDone, connVars, upstream>>

(* The daemon closes the client when the context ends, while handlers may  *)
(* still use it; a command when Serve has returned.                        *)
CloseClientEmbedded ==
    /\ daemon = "open"
    /\ embedded /\ ctxDone /\ serve \in {"accept", "drain", "returned"}
    /\ daemon' = "closed"
    /\ UNCHANGED <<serverVars, serve, ctxDone, connVars, upstream>>

CloseClient ==
    /\ daemon = "open"
    /\ IF embedded THEN ctxDone /\ serve \in {"accept", "drain", "returned"} ELSE serve = "returned"
    /\ daemon' = "closed"
    /\ UNCHANGED <<serverVars, serve, ctxDone, connVars, upstream>>

-----------------------------------------------------------------------------
(* The deferred Closes of a handler that returns. *)
Closed(c) ==
    /\ pc' = [pc EXCEPT ![c] = "closed"]
    /\ deadline' = [deadline EXCEPT ![c] = "off"]
    /\ asked' = [asked EXCEPT ![c] = NoHost]
    /\ request' = [request EXCEPT ![c] = NoRequest]
    /\ open' = [open EXCEPT ![c] = {}]
    /\ UNCHANGED <<serverVars, serve, daemon, ctxDone, proved, upstream>>

Goes(c, to) ==
    /\ pc' = [pc EXCEPT ![c] = to]
    /\ UNCHANGED <<serverVars, serve, daemon, ctxDone, deadline, asked, request, open, upstream>>

(* Thirty seconds have passed since the connection was accepted. *)
Expire(c) ==
    /\ deadline[c] = "armed"
    /\ deadline' = [deadline EXCEPT ![c] = "expired"]
    /\ UNCHANGED <<serverVars, serve, daemon, ctxDone, pc, proved, asked, request, open, upstream>>

(* A read fails after the deadline, or when the client has gone or sent    *)
(* what cannot be parsed.                                                  *)
ReadFails(c) == pc[c] \in Reading \cup {"next"} /\ Closed(c)

(* negotiate: the methods the client offers against the one that is needed. *)
Negotiate(c, methods) ==
    /\ pc[c] = "greeting"
    /\ deadline[c] # "expired"
    /\ CASE auth /\ "userpass" \in methods -> Goes(c, "userpass") /\ UNCHANGED proved
         [] ~auth /\ "none" \in methods -> Goes(c, "request") /\ UNCHANGED proved
         [] OTHER -> Closed(c)

NegotiateUserPass(c, good) ==
    /\ pc[c] = "userpass"
    /\ deadline[c] # "expired"
    /\ IF good THEN Goes(c, "request") /\ proved' = [proved EXCEPT ![c] = TRUE] ELSE Closed(c)

(* The dial that follows is for a relay or for plain HTTP requests. *)
Asks(c, r, how) ==
    /\ pc' = [pc EXCEPT ![c] = how]
    /\ asked' = [asked EXCEPT ![c] = r.host]
    /\ request' = [request EXCEPT ![c] = IF how = "dialling" THEN r ELSE NoRequest]
    /\ UNCHANGED <<serverVars, serve, daemon, ctxDone, deadline, open, upstream>>

(* readRequest of socks.go: only CONNECT, and only the known address types. *)
ReadSocks(c, h, supported) ==
    /\ kind = "socks"
    /\ pc[c] = "request"
    /\ deadline[c] # "expired"
    /\ IF supported
          THEN Asks(c, [host |-> h, secret |-> FALSE], "connecting") /\ UNCHANGED proved
          ELSE Closed(c)

(* handleConn of httpproxy.go: the credentials come with the first request *)
(* and are checked then.                                                   *)
ReadHttp(c, h, credentials, connect) ==
    LET r == [host |-> h, secret |-> credentials # "none"]
    IN /\ kind = "http"
       /\ pc[c] = "request"
       /\ deadline[c] # "expired"
       /\ IF auth /\ credentials # "good"
             THEN Closed(c)
             ELSE /\ Asks(c, r, IF connect THEN "connecting" ELSE "dialling")
                  /\ proved' = [proved EXCEPT ![c] = credentials = "good"]

(* DialContext through the client of the daemon: it gives up after five    *)
(* seconds and when the context ends.                                      *)
DialFails(c) == pc[c] \in {"connecting", "dialling"} /\ Closed(c)

(* A relay begins after the reply, whose failure to be written after the   *)
(* deadline nobody notices, and with the deadline cleared.                 *)
DialKeepsDeadline(c) ==
    /\ pc[c] \in {"connecting", "dialling"}
    /\ ~ctxDone
    /\ pc' = [pc EXCEPT ![c] = IF @ = "connecting" THEN "relay" ELSE "forward"]
    /\ open' = [open EXCEPT ![c] = IF pc[c] = "connecting" THEN Both ELSE {}]
    /\ UNCHANGED <<serverVars, serve, daemon, ctxDone, deadline, proved, asked, request, upstream>>

Dial(c) ==
    /\ pc[c] \in {"connecting", "dialling"}
    /\ ~ctxDone
    /\ pc' = [pc EXCEPT ![c] = IF @ = "connecting" THEN "relay" ELSE "forward"]
    /\ open' = [open EXCEPT ![c] = IF pc[c] = "connecting" THEN Both ELSE {}]
    /\ deadline' = [deadline EXCEPT ![c] = "off"]
    /\ UNCHANGED <<serverVars, serve, daemon, ctxDone, proved, asked, request, upstream>>

(* relay: either side ends, which half-closes the other one; the handler   *)
(* returns when both directions have ended, and the context does not end   *)
(* them.  What passes counts as sent by the client.                        *)
RelayUp(c) ==
    /\ pc[c] = "relay"
    /\ "up" \in open[c]
    /\ upstream' = upstream \cup {[conn |-> c, target |-> asked[c], host |-> asked[c], secret |-> FALSE]}
    /\ UNCHANGED <<serverVars, serve, daemon, ctxDone, connVars>>

RelayEnds(c, side) ==
    /\ pc[c] = "relay"
    /\ side \in open[c]
    /\ IF open[c] = {side}
          THEN Closed(c)
          ELSE /\ open' = [open EXCEPT ![c] = @ \ {side}]
               /\ UNCHANGED <<serverVars, serve, daemon, ctxDone, pc, deadline, proved, asked, request, upstream>>

-----------------------------------------------------------------------------
(* handleHTTP: the proxy headers come off every request of the stream. *)
Stripped(r) == [r EXCEPT !.secret = FALSE]

WriteRequest(c) ==
    /\ pc[c] = "forward"
    /\ LET r == Stripped(request[c])
       IN upstream' = upstream \cup {[conn |-> c, target |-> asked[c], host |-> r.host, secret |-> r.secret]}
    /\ pc' = [pc EXCEPT ![c] = "response"]
    /\ request' = [request EXCEPT ![c] = NoRequest]
    /\ UNCHANGED <<serverVars, serve, daemon, ctxDone, deadline, proved, asked, open>>

(* The target answers and both sides keep the connection, or it does not. *)
ReadResponse(c, keepAlive) ==
    /\ pc[c] = "response"
    /\ IF keepAlive THEN Goes(c, "next") /\ UNCHANGED proved ELSE Closed(c)

TargetFails(c) == pc[c] \in {"forward", "response"} /\ Closed(c)

(* The next request: for another host it is refused, its credentials are   *)
(* not looked at.                                                          *)
NextRequestAnyHost(c, r) ==
    /\ pc[c] = "next"
    /\ pc' = [pc EXCEPT ![c] = "forward"]
    /\ request' = [request EXCEPT ![c] = r]
    /\ UNCHANGED <<serverVars, serve, daemon, ctxDone, deadline, proved, asked, open, upstream>>

NextRequest(c, r) ==
    /\ pc[c] = "next"
    /\ IF r.host # asked[c]
          THEN Closed(c)
          ELSE /\ pc' = [pc EXCEPT ![c] = "forward"]
               /\ request' = [request EXCEPT ![c] = r]
               /\ UNCHANGED <<serverVars, serve, daemon, ctxDone, deadline, proved, asked, open, upstream>>

Handler(c) ==
    \/ \E methods \in SUBSET {"none", "userpass"} : Negotiate(c, methods)
    \/ \E good \in BOOLEAN : NegotiateUserPass(c, good)
    \/ \E h \in Host, supported \in BOOLEAN : ReadSocks(c, h, supported)
    \/ \E h \in Host, credentials \in {"none", "bad", "good"}, connect \in BOOLEAN :
          ReadHttp(c, h, credentials, connect)
    \/ ReadFails(c)
    \/ Dial(c)
    \/ DialFails(c)
    \/ RelayUp(c)
    \/ \E side \in Both : RelayEnds(c, side)
    \/ WriteRequest(c)
    \/ \E keepAlive \in BOOLEAN : ReadResponse(c, keepAlive)
    \/ TargetFails(c)
    \/ \E r \in Request : NextRequest(c, r)

Next ==
    \/ \E ok \in BOOLEAN : ConnectDaemon(ok) \/ Listen(ok)
    \/ Cancel
    \/ CloseListener
    \/ ServeReturns
    \/ CloseClient
    \/ \E c \in Conn : Accept(c) \/ Expire(c) \/ Handler(c)

Spec == Init /\ [][Next]_vars

(* The server's own steps are taken, deadlines and dial timeouts pass, and *)
(* a read after the deadline fails.  No client or target has to send       *)
(* anything, or to end.                                                    *)
Fairness ==
    /\ WF_vars(CloseListener)
    /\ WF_vars(ServeReturns)
    /\ WF_vars(CloseClient)
    /\ \A c \in Conn :
          /\ WF_vars(Expire(c))
          /\ WF_vars(deadline[c] = "expired" /\ ReadFails(c))
          /\ WF_vars(Dial(c) \/ DialFails(c))

FairSpec == Spec /\ Fairness

-----------------------------------------------------------------------------
(* Whatever a target is sent comes from a client that has shown the        *)
(* credentials when they are required, was meant for that very target, and *)
(* carries no proxy credentials, on the first request of a connection and  *)
(* on every later one (httpproxy.go:185: "so credentials are never leaked  *)
(* upstream", :253 "would silently misdeliver the request").               *)
UpstreamTrusted ==
    \A u \in upstream :
        /\ u.host = u.target
        /\ ~u.secret
        /\ auth => proved[u.conn]

(* No client can hold a handler by saying nothing, or by stopping half way *)
(* through the handshake, until its first request has been taken up        *)
(* (socks.go:137, httpproxy.go:110).  An HTTP client that is quiet between *)
(* two requests of a kept-alive connection keeps its handler.              *)
HandshakeEnds ==
    \A c \in Conn : pc[c] \in Handshake ~> pc[c] \in Connected \cup {"closed"}

(* Once the context is cancelled only established connections can keep     *)
(* Serve from returning: when these end, it does, and the client of the    *)
(* daemon is closed.  They have to end by themselves, since relay          *)
(* (relay.go:10) does not look at the context.                             *)
ShutdownEnds ==
    <>[](/\ ctxDone
         /\ serve \in {"accept", "drain", "returned"}
         /\ \A c \in Conn : pc[c] \notin Connected)
        => <>(serve = "returned" /\ daemon = "closed")
=============================================================================
