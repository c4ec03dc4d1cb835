-------------------------------- MODULE Netconn --------------------------------
(***************************************************************************)
(* The connections of pkg/netconn: a BaseClient that connects to a         *)
(* BaseServer of the same package again and again, the goroutines the two  *)
(* start, and the ConnectionManager each of them registers its ends with.  *)
(*                                                                         *)
(* A connection is known by the number of the Connect that made it, which  *)
(* stands for the fd at either end; a start of the server, its stopChan,   *)
(* its listener and its accept loop, by the number of the start.           *)
(* The loops read c.fd, c.stopChan, s.stopChan and s.listener whenever     *)
(* they need them and without a lock.                                      *)
(*                                                                         *)
(* A UDP server has no listener: each fillp connection binds the port      *)
(* itself, and keeps it until it is closed.  Close does nothing to one     *)
(* that is still listening, so when Listen gives up after 30 seconds the   *)
(* port stays bound, by a connection that answers clients and that nobody  *)
(* reads from.  fillp sends its FIN once: if the network loses it, the     *)
(* other end hears of the close only by what it sends itself, which is     *)
(* retransmitted until fillp gives the connection up.                      *)
(***************************************************************************)
EXTENDS Integers, FiniteSets

CONSTANTS
    MaxConnects,    \* a bound on the calls of Connect
    MaxStarts,      \* a bound on the calls of StartBaseListener
    Budgets,        \* the bounds a behaviour may have: [connects, starts, calls]
    Protocols       \* those the application uses

ASSUME NetconnAssumption ==
    /\ {MaxConnects, MaxStarts} \subseteq Nat
    /\ Budgets \subseteq [connects : 0..MaxConnects, starts : 0..MaxStarts, calls : Nat]
    /\ Protocols \subseteq {"tcp", "udp"}

VARIABLES
    budget,     \* the bounds of this behaviour
    client,     \* the fields of the client, and whether Connect holds c.mu
    connects,   \* how many Connects were begun
    receive,    \* the receiveLoop that each Connect started
    server,     \* the fields of the server
    starts,     \* how many starts were begun
    accept,     \* the accept loop of each start
    handler,    \* connection -> what handles it at the server
    stopped,    \* the stop channels that are closed, by whom they stop
    listening,  \* the starts whose TCP listener is open
    abandoned,  \* a fillp connection that nobody listens on has the port
    handlers,   \* s.connHandlers
    registered, \* [Sides -> what its ConnectionManager has]
    open,       \* [Sides -> the connections whose end there is open]
    unheard,    \* the connections of which one end was closed and the FIN lost
    unread,     \* [Sides -> the connections with bytes to be read there]
    calls,      \* how many calls of SendBytes, CloseConn and CloseAll there were
    ended,      \* history: how often OnDisconnected told of a connection
    overlapped  \* history: a Connect came before an old receiveLoop had gone

clientVars == <<client, connects, receive, overlapped>>
serverVars == <<server, starts, accept, handlers, listening, abandoned>>
netVars == <<registered, open, unread, calls>>
vars == <<budget, unheard, clientVars, serverVars, handler, stopped, netVars, ended>>

Sides == {"client", "server"}
Conns == 1..MaxConnects
Starts == 1..MaxStarts
NoLoop == [at |-> "none", on |-> 0]

TypeOK ==
    /\ client.fd \in Conns \cup {0} /\ client.stop \in 0..connects
    /\ {client.running, client.locked, server.running, abandoned, overlapped} \subseteq BOOLEAN
    /\ server.protocol \in {"tcp", "udp"} /\ server.stop \in 0..starts
    /\ \A k \in Conns : receive[k].at \in {"none", "starts", "checks", "reads", "ends", "tells", "gone"}
    /\ \A g \in Starts : accept[g].at \in {"none", "checks", "accepts", "gone"}
    /\ \A k \in Conns : handler[k].at \in
          {"none", "waits", "refused", "nobody", "adds", "checks", "reads", "ends", "leaves", "gone"}
    /\ \A side \in Sides : registered[side] \subseteq open[side] /\ open[side] \subseteq 1..connects
    /\ handlers \subseteq registered["server"] \cup {k \in Conns : handler[k].at \in {"checks", "reads", "ends"}}

Init ==
    /\ budget \in Budgets
    /\ client = [fd |-> 0, stop |-> 0, running |-> FALSE, locked |-> FALSE]
    /\ connects = 0 /\ receive = [k \in Conns |-> NoLoop] /\ overlapped = FALSE
    /\ server = [running |-> FALSE, protocol |-> "tcp", stop |-> 0, listener |-> 0]
    /\ starts = 0 /\ accept = [g \in Starts |-> NoLoop]
    /\ handler = [k \in Conns |-> [at |-> "none", of |-> 0, protocol |-> "tcp"]]
    /\ stopped = [client |-> {}, server |-> {}, handler |-> {}]
    /\ listening = {} /\ abandoned = FALSE /\ handlers = {}
    /\ registered = [s \in Sides |-> {}] /\ open = registered /\ unread = registered /\ calls = 0
    /\ unheard = {}
    /\ ended = [s \in Sides |-> [k \in Conns |-> 0]]

Peer(side) == IF side = "client" THEN "server" ELSE "client"
Receive(k, where) == receive' = [receive EXCEPT ![k].at = where]
Handler(k, where) == handler' = [handler EXCEPT ![k].at = where]
Tell(side, k) == ended' = [ended EXCEPT ![side][k] = @ + 1]

------------------------------------------------------------------------------

(* ConnectionManager.  Whoever unregisters a connection closes its end.    *)
Unregistered(side, ks) ==
    /\ open' = [open EXCEPT ![side] = @ \ (ks \cap registered[side])]
    /\ registered' = [registered EXCEPT ![side] = @ \ ks]
    /\ UNCHANGED unread

Called == calls < budget.calls /\ calls' = calls + 1

CloseConn(side, k) ==
    /\ k \in registered[side] /\ Called
    /\ Unregistered(side, {k})
    /\ UNCHANGED <<clientVars, serverVars, handler, stopped, ended>>

CloseAll(side) ==
    /\ Called
    /\ Unregistered(side, registered[side])
    /\ UNCHANGED <<clientVars, serverVars, handler, stopped, ended>>

SendBytes(side, k) ==
    /\ side = "client" => client.running /\ ~client.locked /\ k = client.fd
    /\ k \in registered[side]
    /\ k \in open[Peer(side)]
    /\ Called
    /\ unread' = [unread EXCEPT ![Peer(side)] = @ \cup {k}]
    /\ UNCHANGED <<clientVars, serverVars, handler, stopped, registered, open, ended>>

(* The end of a fillp connection was closed, the other one's was not, and  *)
(* the network loses the FIN.                                              *)
FinLost(k) ==
    /\ handler[k].protocol = "udp"
    /\ k \notin unheard /\ \E side \in Sides : k \in open[side] /\ k \notin open[Peer(side)]
    /\ unheard' = unheard \cup {k}
    /\ UNCHANGED <<budget, clientVars, serverVars, handler, stopped, netVars, ended>>

(* SendBytes on such a connection: nobody acknowledges the bytes, and the  *)
(* last retransmission closes it, unless the peer's window was full.       *)
SendsInVain(side, k) ==
    /\ side = "client" => client.running /\ ~client.locked /\ k = client.fd
    /\ k \in registered[side] /\ k \in unheard /\ k \notin open[Peer(side)]
    /\ Called
    /\ unheard' \in {unheard, unheard \ {k}}
    /\ UNCHANGED <<budget, clientVars, serverVars, handler, stopped, registered, open, unread, ended>>

(* What conn.Read returns.  The close of its peer ends a TCP connection    *)
(* after the bytes that were sent, a fillp connection when the FIN comes.  *)
ReadFails(side, k) ==
    \/ k \notin open[side]
    \/ /\ k \notin open[Peer(side)]
       /\ IF handler[k].protocol = "udp" THEN k \notin unheard ELSE k \notin unread[side]
ReadReturns(side, k) ==
    /\ k \in open[side] /\ k \in unread[side]
    /\ unread' = [unread EXCEPT ![side] = @ \ {k}]

------------------------------------------------------------------------------
(* BaseClient.  Connect replaces stopChan before it dials.                 *)
ConnectBegins ==
    /\ ~client.locked /\ ~client.running
    /\ connects < budget.connects
    /\ connects' = connects + 1
    /\ client' = [client EXCEPT !.locked = TRUE, !.stop = connects + 1]
    /\ UNCHANGED <<receive, overlapped, serverVars, handler, stopped, netVars, ended>>

ConnectFails ==
    /\ client.locked
    /\ client' = [client EXCEPT !.locked = FALSE]
    /\ UNCHANGED <<connects, receive, overlapped, serverVars, handler, stopped, netVars, ended>>

(* A TCP listener has a backlog; a UDP client needs a fillp connection     *)
(* that listens, and that no other client is connected to.                 *)
Reached(k, h) ==
    \/ /\ h.protocol = "tcp" /\ h.at = "waits"
       /\ h.of \in listening
    \/ /\ h.protocol = "udp" /\ h.at = "waits"
       /\ accept[h.of].at = "accepts" /\ accept[h.of].on = 0
       /\ \A j \in Conns : ~(handler[j].at = "waits" /\ handler[j].of = h.of)
    \/ /\ h.protocol = "udp" /\ h.at = "nobody" /\ h.of = 0
       /\ abandoned /\ \A j \in Conns : handler[j].at # "nobody"

ConnectReturns ==
    LET k == connects IN
    /\ client.locked
    /\ \E h \in [at : {"waits", "nobody"}, of : Starts \cup {0}, protocol : Protocols] :
          (h.at = "waits" <=> h.of # 0) /\ Reached(k, h) /\ handler' = [handler EXCEPT ![k] = h]
    /\ open' = [s \in Sides |-> open[s] \cup {k}]
    /\ registered' = [registered EXCEPT !["client"] = @ \cup {k}]
    /\ client' = [client EXCEPT !.locked = FALSE, !.fd = k, !.running = TRUE]
    /\ Receive(k, "starts")
    /\ overlapped' = (overlapped \/ \E j \in Conns : receive[j].at \notin {"none", "gone"})
    /\ UNCHANGED <<connects, serverVars, stopped, unread, calls, ended>>

Close ==
    /\ ~client.locked /\ client.running
    /\ stopped' = [stopped EXCEPT !["client"] = @ \cup {client.stop}]
    /\ Unregistered("client", {client.fd})
    /\ client' = [client EXCEPT !.running = FALSE]
    /\ UNCHANGED <<connects, receive, overlapped, serverVars, handler, calls, ended>>

(* receiveLoop takes the connection for its own that c.fd is by then.      *)
ReceiveStarts(k) ==
    /\ receive[k].at = "starts"
    /\ receive' = [receive EXCEPT
          ![k] = [at |-> IF client.fd \in registered["client"] THEN "checks" ELSE "ends", on |-> client.fd]]
    /\ UNCHANGED <<client, connects, overlapped, serverVars, handler, stopped, netVars, ended>>

ReceiveChecks(k) ==
    /\ receive[k].at = "checks"
    /\ Receive(k, IF client.stop \in stopped["client"] THEN "ends" ELSE "reads")
    /\ UNCHANGED <<client, connects, overlapped, serverVars, handler, stopped, netVars, ended>>

(* The callback may ask for the end.                                       *)
ReceiveReads(k) ==
    /\ receive[k].at = "reads"
    /\ \/ ReadFails("client", receive[k].on) /\ Receive(k, "ends") /\ UNCHANGED netVars
       \/ /\ ReadReturns("client", receive[k].on)
          /\ \E where \in {"checks", "ends"} : Receive(k, where)
          /\ UNCHANGED <<registered, open, calls>>
    /\ UNCHANGED <<client, connects, overlapped, serverVars, handler, stopped, ended>>

(* Mutant: the loop ends without a word when Close was called.             *)
ReceiveEndsSilently(k) ==
    /\ receive[k].at = "ends" /\ ~client.locked
    /\ client' = [client EXCEPT !.running = FALSE]
    /\ Receive(k, IF client.stop \in stopped["client"] THEN "gone" ELSE "tells")
    /\ UNCHANGED <<connects, overlapped, serverVars, handler, stopped, netVars, ended>>

ReceiveEnds(k) ==
    /\ receive[k].at = "ends" /\ ~client.locked
    /\ client' = [client EXCEPT !.running = FALSE]
    /\ Receive(k, "tells")
    /\ UNCHANGED <<connects, overlapped, serverVars, handler, stopped, netVars, ended>>

ReceiveTells(k) ==
    /\ receive[k].at = "tells"
    /\ Tell("client", client.fd)
    /\ Receive(k, "gone")
    /\ UNCHANGED <<client, connects, overlapped, serverVars, handler, stopped, netVars>>

------------------------------------------------------------------------------
(* BaseServer.  A start replaces stopChan even if it fails; a UDP start    *)
(* does not fail.                                                          *)
StartBaseListener(protocol) ==
    LET g == starts + 1 IN
    /\ ~server.running /\ starts < budget.starts
    /\ starts' = g
    /\ \/ /\ server' = [running |-> TRUE, protocol |-> protocol, stop |-> g,
                        listener |-> IF protocol = "tcp" THEN g ELSE server.listener]
          /\ listening' = listening \cup (IF protocol = "tcp" THEN {g} ELSE {})
          /\ accept' = [accept EXCEPT ![g] = [at |-> "checks", on |-> IF protocol = "tcp" THEN g ELSE 0]]
       \/ /\ protocol = "tcp"
          /\ server' = [server EXCEPT !.protocol = protocol, !.stop = g]
          /\ UNCHANGED <<listening, accept>>
    /\ UNCHANGED <<clientVars, handler, stopped, abandoned, handlers, netVars, ended>>

(* Mutant: the listener stays open.                                        *)
StopBaseListenerOnly ==
    /\ server.running
    /\ stopped' = [stopped EXCEPT !["server"] = @ \cup {server.stop}, !["handler"] = @ \cup handlers]
    /\ handlers' = {}
    /\ server' = [server EXCEPT !.running = FALSE]
    /\ UNCHANGED <<clientVars, starts, accept, handler, listening, abandoned, netVars, ended>>

(* The connections stay open, and a handler that waits for bytes goes on   *)
(* waiting.  Clients nobody has accepted yet are turned away.              *)
StopBaseListener ==
    LET closes == IF server.protocol = "tcp" THEN {server.listener} ELSE {}
        backlog == {k \in Conns : handler[k].at = "waits" /\ handler[k].protocol = "tcp" /\ handler[k].of \in closes}
    IN
    /\ server.running
    /\ stopped' = [stopped EXCEPT !["server"] = @ \cup {server.stop}, !["handler"] = @ \cup handlers]
    /\ handlers' = {}
    /\ listening' = listening \ closes
    /\ handler' = [k \in Conns |-> IF k \in backlog THEN [handler[k] EXCEPT !.at = "refused"] ELSE handler[k]]
    /\ open' = [open EXCEPT !["server"] = @ \ backlog]
    /\ server' = [server EXCEPT !.running = FALSE]
    /\ UNCHANGED <<clientVars, starts, accept, abandoned, registered, unread, calls, ended>>

IsTcp(g) == accept[g].on # 0
PortFree ==
    /\ ~abandoned
    /\ \A g \in Starts : ~(accept[g].at = "accepts" /\ ~IsTcp(g))
    /\ \A k \in open["server"] : handler[k].protocol # "udp"

(* A UDP loop that finds the port taken comes round again at once.         *)
AcceptChecks(g) ==
    /\ accept[g].at = "checks"
    /\ IF server.stop \in stopped["server"] THEN accept' = [accept EXCEPT ![g].at = "gone"]
       ELSE IF IsTcp(g) THEN accept' = [accept EXCEPT ![g] = [at |-> "accepts", on |-> server.listener]]
       ELSE PortFree /\ accept' = [accept EXCEPT ![g].at = "accepts"]
    /\ UNCHANGED <<clientVars, server, starts, handler, stopped, listening, abandoned, handlers, netVars, ended>>

(* The handler first registers the connection, which makes no difference   *)
(* to anybody until then.                                                  *)
AcceptTakes(g, k) ==
    /\ accept[g].at = "accepts" /\ handler[k].at = "waits"
    /\ handler[k].of = IF IsTcp(g) THEN accept[g].on ELSE g
    /\ handler[k].protocol = IF IsTcp(g) THEN "tcp" ELSE "udp"
    /\ registered' = [registered EXCEPT !["server"] = @ \cup {k}]
    /\ Handler(k, "adds")
    /\ accept' = [accept EXCEPT ![g].at = "checks"]
    /\ UNCHANGED <<clientVars, server, starts, stopped, listening, abandoned, handlers, open, unread, calls, ended>>

AcceptFails(g) ==
    /\ accept[g].at = "accepts"
    /\ IF IsTcp(g) THEN accept[g].on \notin listening /\ UNCHANGED abandoned
       ELSE /\ \A k \in Conns : ~(handler[k].at = "waits" /\ handler[k].protocol = "udp" /\ handler[k].of = g)
            /\ abandoned' = TRUE
    /\ accept' = [accept EXCEPT ![g].at = "checks"]
    /\ UNCHANGED <<clientVars, server, starts, handler, stopped, listening, handlers, netVars, ended>>

(* handleTCPConnection and handleUDPConnection.                            *)
HandlerAdds(k) ==
    /\ handler[k].at = "adds"
    /\ handlers' = handlers \cup {k}
    /\ Handler(k, "checks")
    /\ UNCHANGED <<clientVars, server, starts, accept, listening, abandoned, stopped, netVars, ended>>

HandlerChecks(k) ==
    /\ handler[k].at = "checks"
    /\ Handler(k, IF k \in stopped["handler"] THEN "ends" ELSE "reads")
    /\ UNCHANGED <<clientVars, serverVars, stopped, netVars, ended>>

HandlerReads(k) ==
    /\ handler[k].at = "reads"
    /\ \/ ReadFails("server", k) /\ Handler(k, "ends") /\ UNCHANGED netVars
       \/ /\ ReadReturns("server", k)
          /\ \E where \in {"checks", "ends"} : Handler(k, where)
          /\ UNCHANGED <<registered, open, calls>>
    /\ UNCHANGED <<clientVars, serverVars, stopped, ended>>

HandlerEnds(k) ==
    /\ handler[k].at = "ends"
    /\ handlers' = handlers \ {k}
    /\ Tell("server", k)
    /\ Handler(k, "leaves")
    /\ UNCHANGED <<clientVars, server, starts, accept, listening, abandoned, stopped, netVars>>

(* Mutant: the connection stays registered.                                *)
HandlerLeavesIt(k) ==
    /\ handler[k].at = "leaves"
    /\ Handler(k, "gone")
    /\ UNCHANGED <<clientVars, serverVars, stopped, netVars, ended>>

HandlerLeaves(k) ==
    /\ handler[k].at = "leaves"
    /\ Unregistered("server", {k})
    /\ Handler(k, "gone")
    /\ UNCHANGED <<clientVars, serverVars, stopped, calls, ended>>

------------------------------------------------------------------------------
(* Who steps.  The budget never changes.                                   *)
ReceiveLoop(k) ==
    /\ ReceiveStarts(k) \/ ReceiveChecks(k) \/ ReceiveReads(k) \/ ReceiveEnds(k) \/ ReceiveTells(k)
    /\ UNCHANGED <<budget, unheard>>
AcceptLoop(g) ==
    /\ AcceptChecks(g) \/ AcceptFails(g) \/ \E k \in Conns : AcceptTakes(g, k)
    /\ UNCHANGED <<budget, unheard>>
Handle(k) ==
    /\ HandlerAdds(k) \/ HandlerChecks(k) \/ HandlerReads(k) \/ HandlerEnds(k) \/ HandlerLeaves(k)
    /\ UNCHANGED <<budget, unheard>>
Dialling ==
    /\ ConnectFails \/ ConnectReturns
    /\ UNCHANGED <<budget, unheard>>
Application ==
    /\ \/ ConnectBegins \/ Close \/ StopBaseListener
       \/ \E protocol \in Protocols : StartBaseListener(protocol)
       \/ \E side \in Sides :
            \/ CloseAll(side)
            \/ \E k \in Conns : CloseConn(side, k) \/ SendBytes(side, k)
    /\ UNCHANGED <<budget, unheard>>

Next ==
    \/ Application \/ Dialling
    \/ \E k \in Conns :
          \/ ReceiveLoop(k) \/ Handle(k)
          \/ FinLost(k) \/ \E side \in Sides : SendsInVain(side, k)
    \/ \E g \in Starts : AcceptLoop(g)

Spec == Init /\ [][Next]_vars

(* Goroutines go on, and a Connect that was begun returns: both dials have *)
(* a timeout, and so has fillp's Listen.                                   *)
Fairness ==
    /\ WF_vars(Dialling)
    /\ \A k \in Conns : WF_vars(ReceiveLoop(k)) /\ WF_vars(Handle(k))
    /\ \A g \in Starts : WF_vars(AcceptLoop(g))

FairSpec == Spec /\ Fairness

------------------------------------------------------------------------------
(* At the server nothing outlives its handler: a connection that is open,  *)
(* registered or in connHandlers waits to be accepted or has a handler at  *)
(* work, and OnDisconnected tells of it once, when its handler has ended   *)
(* (server.go:160-274).  The fillp connection that Listen abandoned is the *)
(* exception.                                                              *)
NothingOutlivesHandler ==
    /\ TypeOK
    /\ \A k \in Conns :
          /\ k \in open["server"] \cup registered["server"] \cup handlers =>
                handler[k].at \notin {"none", "refused", "gone"}
          /\ ended["server"][k] = IF handler[k].at \in {"leaves", "gone"} THEN 1 ELSE 0

(* The client tells once of every connection that its receiveLoop has left *)
(* and runs as long as there is one at work: unless a Connect came before  *)
(* the loop of the connection before it had gone, which then ends the new  *)
(* connection and tells of that one twice (client.go:131-140).             *)
ClientTellsOnce ==
    ~overlapped =>
        /\ \A k \in Conns : ended["client"][k] = IF receive[k].at = "gone" THEN 1 ELSE 0
        /\ client.running => receive[client.fd].at \in {"starts", "checks", "reads", "ends"}

HasHandler(k) == handler[k].at \notin {"none", "nobody"}

(* Whichever side closes a connection, and however, both learn of it: the  *)
(* server's handler leaves and the client's application is told; but not   *)
(* while the FIN of a fillp connection is lost and nothing was sent since. *)
CloseIsNoticed ==
    \A k \in Conns :
        HasHandler(k) /\ (k \notin open["client"] \/ k \notin open["server"]) ~>
            \/ k \in unheard
            \/ /\ k \notin open["server"] /\ handler[k].at \in {"refused", "gone"}
               /\ ended["client"][k] > 0 \/ overlapped

(* A server that was stopped ends its accept loop, unless it was started   *)
(* again first: the loop then looks at the new stopChan.                   *)
StopEndsAccepting ==
    \A g \in Starts :
        g \in stopped["server"] ~> accept[g].at \in {"none", "gone"} \/ server.stop # g

(* Who ends something ends it for all (client.go:117-203, server.go:114-301). *)
EndsAreNoticed == CloseIsNoticed /\ StopEndsAccepting

(* "OnDisconnected: the client has closed, or broken off" (README.md:243): *)
(* the server's application is told of it.                                 *)
DisconnectIsTold ==
    \A k \in Conns :
        handler[k].at = "reads" /\ k \notin open["client"] ~> ended["server"][k] > 0

(* "OnConnected: a client connects" (README.md:241): as long as a server   *)
(* runs, a client that could connect gets a handler.                       *)
ConnectedIsHandled ==
    \A k \in Conns :
        k \in open["client"] /\ server.running ~>
            handler[k].at \notin {"none", "waits", "nobody"} \/ k \notin open["client"] \/ ~server.running
==============================================================================
