----------------------------- MODULE NetconnProofs -----------------------------
(* What Netconn promises of the connections at the server, and of those at *)
(* the client, for every number of connections and starts, with the proofs.*)
EXTENDS Netconn, TLAPS

(* What the fields hold: the numbers, the client with its receiveLoops,    *)
(* the server with its accept loops, what handles the connections, and the *)
(* sets of connections.                                                    *)
Numbers ==
    /\ budget \in Budgets
    /\ connects \in 0..budget.connects /\ starts \in 0..budget.starts
    /\ connects \in 0..MaxConnects /\ starts \in 0..MaxStarts
ClientShape ==
    /\ client \in [fd : Conns \cup {0}, stop : 0..connects, running : BOOLEAN, locked : BOOLEAN]
    /\ overlapped \in BOOLEAN
    /\ receive \in [Conns ->
          [at : {"none", "starts", "checks", "reads", "ends", "tells", "gone"}, on : Conns \cup {0}]]
ServerShape ==
    /\ server \in [running : BOOLEAN, protocol : {"tcp", "udp"}, stop : 0..starts, listener : Nat]
    /\ abandoned \in BOOLEAN
    /\ accept \in [Starts -> [at : {"none", "checks", "accepts", "gone"}, on : Nat]]
HandlerShape ==
    /\ handler \in [Conns ->
          [at : {"none", "waits", "refused", "nobody", "adds", "checks", "reads", "ends", "leaves", "gone"},
           of : Starts \cup {0}, protocol : {"tcp", "udp"}]]
    /\ ended \in [Sides -> [Conns -> Nat]]
SetsShape ==
    /\ registered \in [Sides -> SUBSET Conns] /\ open \in [Sides -> SUBSET Conns]
    /\ handlers \subseteq Conns
Shape == Numbers /\ ClientShape /\ ServerShape /\ HandlerShape /\ SetsShape

(* A connection exists from the Connect that makes it; what a manager has  *)
(* registered is open.                                                     *)
Known ==
    /\ \A side \in Sides : registered[side] \subseteq open[side] /\ open[side] \subseteq 1..connects
    /\ \A k \in Conns : handler[k].at # "none" => k <= connects
    /\ client.locked => connects \in Conns /\ handler[connects].at = "none"

(* The handler goes with the connection: it is open while it waits to be   *)
(* accepted, registered only from then until the handler leaves, and in    *)
(* connHandlers only while the handler is in its loop.                     *)
Served ==
    \A k \in Conns :
       LET at == handler[k].at IN
       /\ at = "waits" => k \in open["server"]
       /\ k \in open["server"] => at \in {"waits", "nobody"} \/ k \in registered["server"]
       /\ k \in registered["server"] => at \in {"adds", "checks", "reads", "ends", "leaves"}
       /\ k \in handlers => at \in {"checks", "reads", "ends"}
       /\ ended["server"][k] = IF at \in {"leaves", "gone"} THEN 1 ELSE 0

IInv == Shape /\ Known /\ Served

------------------------------------------------------------------------------
(* The invariant holds at the start, where the budget has been chosen. *)
LEMMA InitIInv == Init => IInv
  <1>. SUFFICES ASSUME Init PROVE IInv
    OBVIOUS
  <1>1. Numbers
    BY NetconnAssumption DEF Init, Numbers
  <1>2. ClientShape /\ ServerShape
    <2>1. 0 \in 0..connects /\ 0 \in 0..starts
      BY DEF Init
    <2>2. client \in [fd : Conns \cup {0}, stop : 0..connects, running : BOOLEAN, locked : BOOLEAN]
      BY DEF Init
    <2>3. receive \in [Conns ->
            [at : {"none", "starts", "checks", "reads", "ends", "tells", "gone"}, on : Conns \cup {0}]]
      BY DEF Init, NoLoop
    <2>4. server \in [running : BOOLEAN, protocol : {"tcp", "udp"}, stop : 0..starts, listener : Nat]
      BY DEF Init
    <2>5. accept \in [Starts -> [at : {"none", "checks", "accepts", "gone"}, on : Nat]]
      BY DEF Init, NoLoop
    <2>6. overlapped = FALSE /\ abandoned = FALSE
      BY DEF Init
    <2>. QED
      BY <2>2, <2>3, <2>4, <2>5, <2>6 DEF ClientShape, ServerShape
  <1>3. HandlerShape /\ SetsShape
    BY DEF Init, HandlerShape, SetsShape
  <1>4. Known /\ Served
    BY DEF Init, Known, Served, Sides
  <1>. QED
    BY <1>1, <1>2, <1>3, <1>4 DEF IInv, Shape

(* The parts say of each connection what the property says of all: what a  *)
(* handler may still be doing, for a connection that is open or registered.*)
LEMMA IInvImplies == IInv => NothingOutlivesHandler
  BY DEF IInv, Shape, ClientShape, ServerShape, HandlerShape, SetsShape, Known, Served,
     NothingOutlivesHandler, TypeOK

------------------------------------------------------------------------------
(* Each action keeps the invariant: first what the application calls, then *)
(* the client's loops, then the server's loops and handlers. A step that   *)
(* leaves a connection open leaves its handler to it.                      *)

(* CloseConn takes one connection out of open and registered together. *)
LEMMA CloseConnKeeps ==
  ASSUME IInv, NEW side \in Sides, NEW k \in Conns, CloseConn(side, k), UNCHANGED budget
  PROVE  IInv'
  <1>. USE DEF IInv, Shape
  <1>1. Numbers' /\ ClientShape' /\ ServerShape' /\ HandlerShape'
    BY DEF CloseConn, clientVars, serverVars, Numbers, ClientShape, ServerShape,
       HandlerShape
  <1>2. SetsShape'
    BY DEF CloseConn, Unregistered, serverVars, SetsShape
  <1>3. Known'
    BY DEF CloseConn, Unregistered, clientVars, SetsShape, Known
  <1>4. Served'
    BY DEF CloseConn, Unregistered, serverVars, SetsShape, Served
  <1>. QED
    BY <1>1, <1>2, <1>3, <1>4

LEMMA CloseAllKeeps ==
  ASSUME IInv, NEW side \in Sides, CloseAll(side), UNCHANGED budget
  PROVE  IInv'
  <1>. USE DEF IInv, Shape
  <1>1. Numbers' /\ ClientShape' /\ ServerShape' /\ HandlerShape'
    BY DEF CloseAll, clientVars, serverVars, Numbers, ClientShape, ServerShape,
       HandlerShape
  <1>2. SetsShape'
    BY DEF CloseAll, Unregistered, serverVars, SetsShape
  <1>3. Known'
    BY DEF CloseAll, Unregistered, clientVars, SetsShape, Known
  <1>4. Served'
    BY DEF CloseAll, Unregistered, serverVars, SetsShape, Served
  <1>. QED
    BY <1>1, <1>2, <1>3, <1>4

LEMMA SendBytesKeeps ==
  ASSUME IInv, NEW side \in Sides, NEW k \in Conns, SendBytes(side, k), UNCHANGED budget
  PROVE  IInv'
  <1>. USE DEF IInv, Shape
  <1>1. Numbers' /\ ClientShape' /\ ServerShape' /\ HandlerShape' /\ SetsShape'
    BY DEF SendBytes, clientVars, serverVars, Numbers, ClientShape, ServerShape,
       HandlerShape, SetsShape
  <1>2. Known'
    BY DEF SendBytes, clientVars, Known
  <1>3. Served'
    BY DEF SendBytes, serverVars, Served
  <1>. QED
    BY <1>1, <1>2, <1>3

(* What the network loses, and what is sent in vain, ends nothing. *)
LEMMA LossKeeps ==
  ASSUME IInv, NEW k \in Conns, FinLost(k) \/ \E side \in Sides : SendsInVain(side, k)
  PROVE  IInv' /\ UNCHANGED <<clientVars, ended>>
  <1>1. UNCHANGED <<budget, clientVars, serverVars, handler, registered, open, ended>>
    BY DEF FinLost, SendsInVain, netVars
  <1>. QED
    BY <1>1 DEF IInv, Shape, Numbers, ClientShape, ServerShape, HandlerShape, SetsShape,
       Known, Served, clientVars, serverVars

(* The next connection is the one that has no handler yet. *)
LEMMA ConnectBeginsKeeps ==
  ASSUME IInv, ConnectBegins, UNCHANGED budget
  PROVE  IInv'
  <1>. USE DEF IInv, Shape
  <1>1. ServerShape' /\ HandlerShape' /\ SetsShape'
    BY DEF ConnectBegins, serverVars, netVars, ServerShape, HandlerShape, SetsShape
  <1>2. Numbers'
    BY NetconnAssumption DEF ConnectBegins, serverVars, Numbers
  <1>3. ClientShape'
    <2>1. connects + 1 \in 0..connects' /\ connects \in Nat
      BY DEF ConnectBegins, Numbers
    <2>2. client' \in [fd : Conns \cup {0}, stop : 0..connects', running : BOOLEAN, locked : BOOLEAN]
      BY <2>1 DEF ConnectBegins, ClientShape
    <2>. QED
      BY <2>2 DEF ConnectBegins, ClientShape
  <1>4. Known'
    BY NetconnAssumption DEF ConnectBegins, clientVars, serverVars, netVars, Numbers,
       ClientShape, SetsShape, Known, Conns
  <1>5. Served'
    BY DEF ConnectBegins, serverVars, netVars, Served
  <1>. QED
    BY <1>1, <1>2, <1>3, <1>4, <1>5

LEMMA ConnectFailsKeeps ==
  ASSUME IInv, ConnectFails, UNCHANGED budget
  PROVE  IInv'
  <1>. USE DEF IInv, Shape
  <1>1. Numbers' /\ ServerShape' /\ HandlerShape' /\ SetsShape'
    BY DEF ConnectFails, serverVars, netVars, Numbers, ServerShape, HandlerShape,
       SetsShape
  <1>2. ClientShape'
    BY DEF ConnectFails, ClientShape
  <1>3. Known'
    BY DEF ConnectFails, netVars, Known
  <1>4. Served'
    BY DEF ConnectFails, serverVars, netVars, Served
  <1>. QED
    BY <1>1, <1>2, <1>3, <1>4

(* The connection is open at both ends and its handler waits, or nobody    *)
(* will come for it.                                                       *)
LEMMA ConnectReturnsKeeps ==
  ASSUME IInv, ConnectReturns, UNCHANGED budget
  PROVE  IInv'
  <1>. USE DEF IInv, Shape
  <1>1. Numbers' /\ ServerShape'
    BY DEF ConnectReturns, serverVars, Numbers, ServerShape
  <1>2. ClientShape'
    <2>1. connects \in Conns /\ connects' = connects
      BY DEF ConnectReturns, Known
    <2>2. client' \in [fd : Conns \cup {0}, stop : 0..connects', running : BOOLEAN, locked : BOOLEAN]
      BY <2>1 DEF ConnectReturns, ClientShape
    <2>3. receive' \in [Conns ->
            [at : {"none", "starts", "checks", "reads", "ends", "tells", "gone"}, on : Conns \cup {0}]]
      BY <2>1 DEF ConnectReturns, Receive, ClientShape
    <2>4. overlapped' \in BOOLEAN
      BY Zenon DEF ConnectReturns
    <2>. QED
      BY <2>2, <2>3, <2>4 DEF ClientShape
  <1>3. HandlerShape'
    <2>1. connects \in Conns /\ ended' = ended
      BY DEF ConnectReturns, Known
    <2>2. PICK h \in [at : {"waits", "nobody"}, of : Starts \cup {0}, protocol : Protocols] :
            handler' = [handler EXCEPT ![connects] = h]
      BY Zenon DEF ConnectReturns
    <2>. QED
      BY <2>1, <2>2, NetconnAssumption DEF HandlerShape
  <1>4. SetsShape'
    <2>1. connects \in Conns
      BY DEF ConnectReturns, Known
    <2>2. open' \in [Sides -> SUBSET Conns]
      BY <2>1 DEF ConnectReturns, SetsShape
    <2>3. registered' \in [Sides -> SUBSET Conns]
      BY <2>1 DEF ConnectReturns, SetsShape
    <2>. QED
      BY <2>3 DEF ConnectReturns, SetsShape, serverVars
  <1>5. Known'
    BY DEF ConnectReturns, Reached, Receive, serverVars, Numbers, Known, Conns
  <1>6. Served'
    BY DEF ConnectReturns, Reached, Receive, serverVars, Numbers, ClientShape, HandlerShape,
       SetsShape, Known, Served, Sides
  <1>. QED
    BY <1>1, <1>2, <1>3, <1>4, <1>5, <1>6

LEMMA CloseKeeps ==
  ASSUME IInv, Close, UNCHANGED budget
  PROVE  IInv'
  <1>. USE DEF IInv, Shape
  <1>1. Numbers' /\ ServerShape' /\ HandlerShape'
    BY DEF Close, serverVars, Numbers, ServerShape, HandlerShape
  <1>2. ClientShape'
    BY DEF Close, ClientShape
  <1>3. SetsShape'
    BY DEF Close, Unregistered, serverVars, SetsShape
  <1>4. Known'
    BY DEF Close, Unregistered, SetsShape, Known
  <1>5. Served'
    BY DEF Close, Unregistered, serverVars, Served
  <1>. QED
    BY <1>1, <1>2, <1>3, <1>4, <1>5

LEMMA ReceiveStartsKeeps ==
  ASSUME IInv, NEW k \in Conns, ReceiveStarts(k), UNCHANGED budget
  PROVE  IInv'
  <1>. USE DEF IInv, Shape
  <1>1. Numbers' /\ ServerShape' /\ HandlerShape' /\ SetsShape'
    BY DEF ReceiveStarts, serverVars, netVars, Numbers, ServerShape, HandlerShape,
       SetsShape
  <1>2. ClientShape'
    BY DEF ReceiveStarts, ClientShape
  <1>3. Known'
    BY DEF ReceiveStarts, netVars, Known
  <1>4. Served'
    BY DEF ReceiveStarts, serverVars, netVars, Served
  <1>. QED
    BY <1>1, <1>2, <1>3, <1>4

LEMMA ReceiveChecksKeeps ==
  ASSUME IInv, NEW k \in Conns, ReceiveChecks(k), UNCHANGED budget
  PROVE  IInv'
  <1>. USE DEF IInv, Shape
  <1>1. Numbers' /\ ServerShape' /\ HandlerShape' /\ SetsShape'
    BY DEF ReceiveChecks, serverVars, netVars, Numbers, ServerShape, HandlerShape,
       SetsShape
  <1>2. ClientShape'
    BY DEF ReceiveChecks, Receive, serverVars, netVars, Numbers, ClientShape, SetsShape
  <1>3. Known'
    BY DEF ReceiveChecks, netVars, Known
  <1>4. Served'
    BY DEF ReceiveChecks, serverVars, netVars, Served
  <1>. QED
    BY <1>1, <1>2, <1>3, <1>4

LEMMA ReceiveReadsKeeps ==
  ASSUME IInv, NEW k \in Conns, ReceiveReads(k), UNCHANGED budget
  PROVE  IInv'
  <1>. USE DEF IInv, Shape
  <1>1. Numbers' /\ ServerShape' /\ HandlerShape' /\ SetsShape'
    BY DEF ReceiveReads, serverVars, netVars, Numbers, ServerShape, HandlerShape,
       SetsShape
  <1>2. ClientShape'
    BY DEF ReceiveReads, Receive, ClientShape
  <1>3. Known'
    BY DEF ReceiveReads, netVars, Known
  <1>4. Served'
    BY DEF ReceiveReads, serverVars, netVars, Served
  <1>. QED
    BY <1>1, <1>2, <1>3, <1>4

LEMMA ReceiveEndsKeeps ==
  ASSUME IInv, NEW k \in Conns, ReceiveEnds(k), UNCHANGED budget
  PROVE  IInv'
  <1>. USE DEF IInv, Shape
  <1>1. Numbers' /\ ServerShape' /\ HandlerShape' /\ SetsShape'
    BY DEF ReceiveEnds, serverVars, netVars, Numbers, ServerShape, HandlerShape, SetsShape
  <1>2. ClientShape'
    BY NetconnAssumption DEF ReceiveEnds, Receive, clientVars, serverVars, netVars,
       Numbers, ClientShape, SetsShape, Conns
  <1>3. Known'
    BY DEF ReceiveEnds, netVars, Known
  <1>4. Served'
    BY DEF ReceiveEnds, serverVars, netVars, Served
  <1>. QED
    BY <1>1, <1>2, <1>3, <1>4

LEMMA ReceiveTellsKeeps ==
  ASSUME IInv, NEW k \in Conns, ReceiveTells(k), UNCHANGED budget
  PROVE  IInv'
  <1>. USE DEF IInv, Shape
  <1>1. Numbers' /\ ServerShape' /\ SetsShape'
    BY DEF ReceiveTells, serverVars, netVars, Numbers, ServerShape, SetsShape
  <1>2. ClientShape'
    BY DEF ReceiveTells, Receive, Tell, serverVars, netVars, Numbers, ClientShape
  <1>3. HandlerShape'
    <2>1. client.fd \in Conns \cup {0} /\ 0 \notin Conns
      BY DEF ClientShape, Conns
    <2>2. CASE client.fd \in Conns
      BY <2>2 DEF ReceiveTells, Tell, HandlerShape, Sides
    <2>3. CASE client.fd \notin Conns
      <3>1. ended'["client"] = ended["client"] /\ ended'["server"] = ended["server"]
        BY <2>3 DEF ReceiveTells, Tell, HandlerShape
      <3>2. ended' \in [Sides -> [Conns -> Nat]]
        BY <3>1 DEF ReceiveTells, Tell, HandlerShape
      <3>. QED
        BY <3>2 DEF ReceiveTells, HandlerShape
    <2>. QED
      BY <2>2, <2>3
  <1>4. Known'
    BY DEF ReceiveTells, netVars, Known
  <1>5. Served'
    BY DEF ReceiveTells, Tell, serverVars, netVars, Served
  <1>. QED
    BY <1>1, <1>2, <1>3, <1>4, <1>5

LEMMA StartBaseListenerKeeps ==
  ASSUME IInv, NEW protocol \in Protocols, StartBaseListener(protocol), UNCHANGED budget
  PROVE  IInv'
  <1>. USE DEF IInv, Shape
  <1>1. ClientShape' /\ HandlerShape' /\ SetsShape'
    BY DEF StartBaseListener, clientVars, netVars, ClientShape, HandlerShape, SetsShape
  <1>2. Numbers'
    BY NetconnAssumption DEF StartBaseListener, clientVars, Numbers
  <1>3. ServerShape'
    <2>1. starts + 1 \in 0..starts' /\ starts + 1 \in Nat /\ starts \in Nat /\ starts' \in Nat
      BY DEF StartBaseListener, Numbers
    <2>2. protocol \in {"tcp", "udp"}
      BY NetconnAssumption
    <2>3. server' \in [running : BOOLEAN, protocol : {"tcp", "udp"}, stop : 0..starts', listener : Nat]
      <3>1. CASE server' = [server EXCEPT !.protocol = protocol, !.stop = starts + 1]
        BY <3>1, <2>1, <2>2 DEF ServerShape
      <3>2. CASE server' = [running |-> TRUE, protocol |-> protocol, stop |-> starts + 1,
                            listener |-> IF protocol = "tcp" THEN starts + 1 ELSE server.listener]
        <4>1. server.listener \in Nat
          BY DEF ServerShape
        <4>. QED
          BY <3>2, <4>1, <2>1, <2>2
      <3>. QED
        BY <3>1, <3>2, Zenon DEF StartBaseListener
    <2>4. accept' \in [Starts -> [at : {"none", "checks", "accepts", "gone"}, on : Nat]]
      BY <2>1 DEF StartBaseListener, ServerShape
    <2>. QED
      BY <2>3 DEF StartBaseListener, ServerShape
  <1>4. Known'
    BY DEF StartBaseListener, clientVars, netVars, Known
  <1>5. Served'
    BY DEF StartBaseListener, netVars, Served
  <1>. QED
    BY <1>1, <1>2, <1>3, <1>4, <1>5

LEMMA StopBaseListenerKeeps ==
  ASSUME IInv, StopBaseListener, UNCHANGED budget
  PROVE  IInv'
  <1>. USE DEF IInv, Shape
  <1>1. Numbers' /\ ClientShape'
    BY DEF StopBaseListener, clientVars, Numbers, ClientShape
  <1>2. ServerShape'
    BY DEF StopBaseListener, ServerShape
  <1>3. HandlerShape'
    BY Zenon DEF StopBaseListener, HandlerShape
  <1>4. SetsShape'
    BY DEF StopBaseListener, SetsShape
  <1>5. Known'
    BY DEF StopBaseListener, clientVars, SetsShape, Known, Served
  <1>6. Served'
    BY DEF StopBaseListener, clientVars, SetsShape, Served, Sides
  <1>. QED
    BY <1>1, <1>2, <1>3, <1>4, <1>5, <1>6

LEMMA AcceptChecksKeeps ==
  ASSUME IInv, NEW g \in Starts, AcceptChecks(g), UNCHANGED budget
  PROVE  IInv'
  <1>. USE DEF IInv, Shape
  <1>1. Numbers' /\ ClientShape' /\ HandlerShape' /\ SetsShape'
    BY DEF AcceptChecks, clientVars, netVars, Numbers, ClientShape, HandlerShape,
       SetsShape
  <1>2. ServerShape'
    <2>1. accept' \in [Starts -> [at : {"none", "checks", "accepts", "gone"}, on : Nat]]
      <3>1. CASE server.stop \in stopped["server"]
        BY DEF AcceptChecks, ServerShape
      <3>2. CASE server.stop \notin stopped["server"] /\ IsTcp(g)
        BY DEF AcceptChecks, ServerShape
      <3>3. CASE server.stop \notin stopped["server"] /\ ~IsTcp(g)
        BY DEF AcceptChecks, ServerShape
      <3>. QED
        BY <3>1, <3>2, <3>3
    <2>. QED
      BY DEF AcceptChecks, ServerShape
  <1>3. Known'
    BY DEF AcceptChecks, clientVars, netVars, Known
  <1>4. Served'
    BY DEF AcceptChecks, netVars, Served
  <1>. QED
    BY <1>1, <1>2, <1>3, <1>4

(* What waits is open: accept registers an open connection, and hands it   *)
(* to a handler.                                                           *)
LEMMA AcceptTakesKeeps ==
  ASSUME IInv, NEW g \in Starts, NEW k \in Conns, AcceptTakes(g, k), UNCHANGED budget
  PROVE  IInv'
  <1>. USE DEF IInv, Shape
  <1>1. Numbers' /\ ClientShape'
    BY DEF AcceptTakes, clientVars, Numbers, ClientShape
  <1>2. ServerShape'
    BY DEF AcceptTakes, ServerShape
  <1>3. HandlerShape'
    BY DEF AcceptTakes, Handler, HandlerShape, ClientShape, Sides
  <1>4. SetsShape'
    BY DEF AcceptTakes, SetsShape
  <1>5. Known'
    BY DEF AcceptTakes, Handler, clientVars, Known, Served
  <1>6. Served'
    BY DEF AcceptTakes, Handler, clientVars, HandlerShape, SetsShape, Served, Sides
  <1>. QED
    BY <1>1, <1>2, <1>3, <1>4, <1>5, <1>6

LEMMA AcceptFailsKeeps ==
  ASSUME IInv, NEW g \in Starts, AcceptFails(g), UNCHANGED budget
  PROVE  IInv'
  <1>. USE DEF IInv, Shape
  <1>1. Numbers' /\ ClientShape' /\ HandlerShape' /\ SetsShape'
    BY DEF AcceptFails, clientVars, netVars, Numbers, ClientShape, HandlerShape, SetsShape
  <1>2. ServerShape'
    BY DEF AcceptFails, ServerShape
  <1>3. Known'
    BY DEF AcceptFails, clientVars, netVars, Known
  <1>4. Served'
    BY DEF AcceptFails, netVars, Served
  <1>. QED
    BY <1>1, <1>2, <1>3, <1>4

(* The connection enters connHandlers as the loop of its handler begins. *)
LEMMA HandlerAddsKeeps ==
  ASSUME IInv, NEW k \in Conns, HandlerAdds(k), UNCHANGED budget
  PROVE  IInv'
  <1>. USE DEF IInv, Shape
  <1>1. Numbers' /\ ClientShape' /\ ServerShape'
    BY DEF HandlerAdds, clientVars, Numbers, ClientShape, ServerShape
  <1>2. HandlerShape'
    BY DEF HandlerAdds, Handler, clientVars, netVars, HandlerShape, ClientShape, Sides, Conns,
       Starts
  <1>3. SetsShape'
    BY DEF HandlerAdds, netVars, SetsShape
  <1>4. Known'
    BY DEF HandlerAdds, Handler, clientVars, netVars, Known
  <1>5. Served'
    BY DEF HandlerAdds, Handler, clientVars, netVars, HandlerShape, Served
  <1>. QED
    BY <1>1, <1>2, <1>3, <1>4, <1>5

LEMMA HandlerChecksKeeps ==
  ASSUME IInv, NEW k \in Conns, HandlerChecks(k), UNCHANGED budget
  PROVE  IInv'
  <1>. USE DEF IInv, Shape
  <1>1. Numbers' /\ ClientShape' /\ ServerShape' /\ SetsShape'
    BY DEF HandlerChecks, clientVars, serverVars, netVars, Numbers, ClientShape,
       ServerShape, SetsShape
  <1>2. HandlerShape'
    <2>1. PICK where \in {"reads", "ends"} : Handler(k, where) /\ ended' = ended
      BY Zenon DEF HandlerChecks
    <2>. QED
      BY <2>1 DEF Handler, HandlerShape
  <1>3. Known'
    BY DEF HandlerChecks, Handler, clientVars, serverVars, netVars, Known
  <1>4. Served'
    BY DEF HandlerChecks, Handler, clientVars, serverVars, netVars, Served
  <1>. QED
    BY <1>1, <1>2, <1>3, <1>4

LEMMA HandlerReadsKeeps ==
  ASSUME IInv, NEW k \in Conns, HandlerReads(k), UNCHANGED budget
  PROVE  IInv'
  <1>. USE DEF IInv, Shape
  <1>1. Numbers' /\ ClientShape' /\ ServerShape' /\ SetsShape'
    BY DEF HandlerReads, clientVars, serverVars, netVars, Numbers, ClientShape,
       ServerShape, SetsShape
  <1>2. HandlerShape'
    <2>1. PICK where \in {"checks", "ends"} : Handler(k, where) /\ ended' = ended
      BY Zenon DEF HandlerReads
    <2>. QED
      BY <2>1 DEF Handler, HandlerShape
  <1>3. Known'
    <2>1. PICK where \in {"checks", "ends"} : Handler(k, where)
      BY Zenon DEF HandlerReads
    <2>2. registered' = registered /\ open' = open /\ connects' = connects /\ client' = client
      BY Zenon DEF HandlerReads, netVars, clientVars
    <2>. QED
      BY <2>1, <2>2 DEF HandlerReads, Handler, Known
  <1>4. Served'
    <2>1. PICK where \in {"checks", "ends"} : Handler(k, where)
      BY Zenon DEF HandlerReads
    <2>2. registered' = registered /\ open' = open /\ handlers' = handlers /\ ended' = ended
      BY Zenon DEF HandlerReads, netVars, serverVars
    <2>. QED
      BY <2>1, <2>2 DEF HandlerReads, Handler, Served
  <1>. QED
    BY <1>1, <1>2, <1>3, <1>4

LEMMA HandlerEndsKeeps ==
  ASSUME IInv, NEW k \in Conns, HandlerEnds(k), UNCHANGED budget
  PROVE  IInv'
  <1>. USE DEF IInv, Shape
  <1>1. Numbers' /\ ClientShape' /\ ServerShape'
    BY DEF HandlerEnds, clientVars, Numbers, ClientShape, ServerShape
  <1>2. HandlerShape'
    <2>1. handler' \in [Conns ->
             [at : {"none", "waits", "refused", "nobody", "adds", "checks", "reads", "ends", "leaves", "gone"},
              of : Starts \cup {0}, protocol : {"tcp", "udp"}]]
      BY DEF HandlerEnds, Handler, HandlerShape
    <2>2. ended' \in [Sides -> [Conns -> Nat]]
      BY DEF HandlerEnds, Tell, HandlerShape, Sides
    <2>. QED
      BY <2>1, <2>2 DEF HandlerShape
  <1>3. SetsShape'
    BY DEF HandlerEnds, netVars, SetsShape
  <1>4. Known'
    BY DEF HandlerEnds, Handler, Tell, clientVars, netVars, Known
  <1>5. Served'
    <2>1. /\ open' = open /\ registered' = registered /\ handlers' = handlers \ {k}
          /\ ended'["server"] = [ended["server"] EXCEPT ![k] = @ + 1]
      BY DEF HandlerEnds, Tell, HandlerShape, Sides, netVars
    <2>2. ended["server"][k] = 0 /\ ended["server"] \in [Conns -> Nat]
      BY DEF HandlerEnds, Served, HandlerShape, Sides
    <2>. QED
      BY <2>1, <2>2 DEF HandlerEnds, Handler, HandlerShape, Served
  <1>. QED
    BY <1>1, <1>2, <1>3, <1>4, <1>5

(* What is open was registered, so that the connection is closed when its *)
(* handler leaves: the step that needs Served.                             *)
LEMMA HandlerLeavesKeeps ==
  ASSUME IInv, NEW k \in Conns, HandlerLeaves(k), UNCHANGED budget
  PROVE  IInv'
  <1>. USE DEF IInv, Shape
  <1>1. Numbers' /\ ClientShape' /\ ServerShape'
    BY DEF HandlerLeaves, clientVars, serverVars, Numbers, ClientShape, ServerShape
  <1>2. HandlerShape'
    BY NetconnAssumption DEF HandlerLeaves, Handler, Unregistered, clientVars, serverVars,
       netVars, HandlerShape, ClientShape, Conns, Starts
  <1>3. SetsShape'
    BY DEF HandlerLeaves, Unregistered, serverVars, SetsShape
  <1>4. Known'
    BY DEF HandlerLeaves, Handler, Unregistered, clientVars, serverVars, SetsShape, Known
  <1>5. Served'
    <2>1. /\ open'["server"] = open["server"] \ ({k} \cap registered["server"])
          /\ registered'["server"] = registered["server"] \ {k}
          /\ handlers' = handlers /\ ended' = ended
      BY DEF HandlerLeaves, Unregistered, SetsShape, Sides, serverVars
    <2>2. k \in open["server"] => k \in registered["server"]
      BY DEF HandlerLeaves, Served
    <2>. QED
      BY <2>1 DEF HandlerLeaves, Handler, Served
  <1>. QED
    BY <1>1, <1>2, <1>3, <1>4, <1>5

------------------------------------------------------------------------------
(* A step of Next is one of the actions above. *)
LEMMA NextKeeps == IInv /\ [Next]_vars => IInv'
  <1>. SUFFICES ASSUME IInv, [Next]_vars PROVE IInv'
    OBVIOUS
  <1>1. CASE UNCHANGED vars
    BY <1>1 DEF vars, clientVars, serverVars, netVars, IInv, Shape, Numbers, ClientShape,
       ServerShape, HandlerShape, SetsShape, Known, Served
  <1>2. CASE Application
    BY <1>2, Zenon, ConnectBeginsKeeps, CloseKeeps, StopBaseListenerKeeps,
       StartBaseListenerKeeps, CloseAllKeeps, CloseConnKeeps, SendBytesKeeps DEF Application
  <1>3. CASE Dialling
    BY <1>3, Zenon, ConnectFailsKeeps, ConnectReturnsKeeps DEF Dialling
  <1>4. ASSUME NEW k \in Conns, ReceiveLoop(k) PROVE IInv'
    BY <1>4, Zenon, ReceiveStartsKeeps, ReceiveChecksKeeps, ReceiveReadsKeeps,
       ReceiveEndsKeeps, ReceiveTellsKeeps DEF ReceiveLoop
  <1>5. ASSUME NEW k \in Conns, Handle(k) PROVE IInv'
    BY <1>5, Zenon, HandlerAddsKeeps, HandlerChecksKeeps, HandlerReadsKeeps, HandlerEndsKeeps,
       HandlerLeavesKeeps DEF Handle
  <1>6. ASSUME NEW g \in Starts, AcceptLoop(g) PROVE IInv'
    BY <1>6, Zenon, AcceptChecksKeeps, AcceptFailsKeeps, AcceptTakesKeeps DEF AcceptLoop
  <1>. QED
    BY <1>1, <1>2, <1>3, <1>4, <1>5, <1>6, LossKeeps, Zenon DEF Next

(* At the server nothing outlives its handler, for every number of         *)
(* connections and starts and whichever protocols are used: what is open,  *)
(* registered or in connHandlers has a handler that has not ended, and     *)
(* OnDisconnected tells of it once (server.go:160-274).                    *)
THEOREM NetconnHandled == Spec => []NothingOutlivesHandler
  <1>. USE InitIInv, NextKeeps, IInvImplies
  <1>. QED
    BY PTL DEF Spec
------------------------------------------------------------------------------
(* At the client a connection has a receiveLoop of its own from the        *)
(* Connect that made it, and while no Connect comes before the last loop   *)
(* has gone, the loop at work is that of c.fd: so what it reads, ends and  *)
(* tells of is its own. The fields are in Shape.                           *)
Dialled ==
    /\ \A k \in Conns : receive[k].at # "none" => k <= connects
    /\ client.locked => receive[connects].at = "none"
Alone ==
    /\ \A k \in Conns : receive[k].at \notin {"none", "gone"} => k = client.fd
    /\ \A k \in Conns : ended["client"][k] = IF receive[k].at = "gone" THEN 1 ELSE 0
    /\ client.running => /\ client.fd \in Conns
                         /\ receive[client.fd].at \in {"starts", "checks", "reads", "ends"}
CInv == IInv /\ Dialled /\ (~overlapped => Alone)

LEMMA InitCInv == Init => CInv
  <1>. SUFFICES ASSUME Init PROVE CInv
    OBVIOUS
  <1>1. Dialled /\ Alone
    BY DEF Init, NoLoop, Sides, Dialled, Alone
  <1>. QED
    BY <1>1, InitIInv DEF CInv

(* What the server and the ConnectionManagers do leaves all this alone. *)
LEMMA ClientUntouched ==
  ASSUME CInv, IInv', UNCHANGED clientVars, ended'["client"] = ended["client"]
  PROVE  CInv'
  BY DEF CInv, Dialled, Alone, clientVars

(* A loop takes a step and goes on. *)
LEMMA LoopGoesOn ==
  ASSUME CInv, IInv', NEW k \in Conns, receive[k].at \notin {"none", "gone", "tells"},
         UNCHANGED <<client, connects, overlapped, ended>>,
         receive'[k].at \in {"starts", "checks", "reads", "ends"},
         \A j \in Conns : j # k => receive'[j] = receive[j]
  PROVE  CInv'
  <1>. USE DEF CInv, IInv, Shape, Numbers, ClientShape
  <1>1. Dialled'
    BY DEF Dialled, Known
  <1>2. ~overlapped => Alone'
    BY DEF Alone
  <1>. QED
    BY <1>1, <1>2

(* Connect begins when the client is not running, with a number of its own. *)
LEMMA ConnectBeginsTells ==
  ASSUME CInv, IInv', ConnectBegins
  PROVE  CInv'
  <1>. USE DEF CInv, IInv, Shape, Numbers, ClientShape
  <1>1. Dialled'
    <2>1. connects' = connects + 1 /\ receive' = receive /\ client'.locked
      BY DEF ConnectBegins
    <2>2. connects' \in Conns
      BY <2>1 DEF Known
    <2>. QED
      BY <2>1, <2>2 DEF Dialled
  <1>2. ~overlapped => Alone'
    BY DEF ConnectBegins, Alone
  <1>. QED
    BY <1>1, <1>2 DEF ConnectBegins

LEMMA ConnectFailsTells ==
  ASSUME CInv, IInv', ConnectFails
  PROVE  CInv'
  <1>1. Dialled' /\ (~overlapped => Alone')
    BY DEF CInv, IInv, Shape, ClientShape, ConnectFails, Dialled, Alone
  <1>. QED
    BY <1>1 DEF CInv, ConnectFails

(* Unless it overlaps, no loop is at work when Connect returns. *)
LEMMA ConnectReturnsTells ==
  ASSUME CInv, IInv', ConnectReturns
  PROVE  CInv'
  <1>. USE DEF CInv, IInv, Shape, Numbers, ClientShape
  <1>1. connects \in Conns /\ receive[connects].at = "none"
    BY DEF ConnectReturns, Known, Dialled
  <1>2. /\ receive'[connects].at = "starts"
        /\ \A j \in Conns : j # connects => receive'[j] = receive[j]
        /\ client'.fd = connects /\ ~client'.locked /\ UNCHANGED <<connects, ended>>
    BY <1>1 DEF ConnectReturns, Receive
  <1>3. Dialled'
    BY <1>1, <1>2 DEF Dialled
  <1>4. ~overlapped' => Alone'
    <2>1. ~overlapped' => ~overlapped /\ \A j \in Conns : receive[j].at \in {"none", "gone"}
      BY Zenon DEF ConnectReturns
    <2>. QED
      BY <1>1, <1>2, <2>1 DEF Alone
  <1>. QED
    BY <1>3, <1>4

LEMMA CloseTells ==
  ASSUME CInv, IInv', Close
  PROVE  CInv'
  <1>1. Dialled' /\ (~overlapped => Alone')
    BY DEF CInv, IInv, Shape, ClientShape, Close, Dialled, Alone
  <1>. QED
    BY <1>1 DEF CInv, Close

LEMMA ReceiveStartsTells ==
  ASSUME CInv, IInv', NEW k \in Conns, ReceiveStarts(k)
  PROVE  CInv'
  <1>1. /\ receive'[k].at \in {"checks", "ends"}
        /\ \A j \in Conns : j # k => receive'[j] = receive[j]
    BY DEF CInv, IInv, Shape, ClientShape, ReceiveStarts
  <1>. QED
    BY <1>1, LoopGoesOn DEF ReceiveStarts

LEMMA ReceiveChecksTells ==
  ASSUME CInv, IInv', NEW k \in Conns, ReceiveChecks(k)
  PROVE  CInv'
  <1>1. /\ receive'[k].at \in {"reads", "ends"}
        /\ \A j \in Conns : j # k => receive'[j] = receive[j]
    BY DEF CInv, IInv, Shape, ClientShape, ReceiveChecks, Receive
  <1>. QED
    BY <1>1, LoopGoesOn DEF ReceiveChecks

LEMMA ReceiveReadsTells ==
  ASSUME CInv, IInv', NEW k \in Conns, ReceiveReads(k)
  PROVE  CInv'
  <1>1. /\ receive'[k].at \in {"checks", "ends"}
        /\ \A j \in Conns : j # k => receive'[j] = receive[j]
    BY DEF CInv, IInv, Shape, ClientShape, ReceiveReads, Receive
  <1>. QED
    BY <1>1, LoopGoesOn DEF ReceiveReads

(* The loop that ends is that of c.fd: the client stops running with it. *)
LEMMA ReceiveEndsTells ==
  ASSUME CInv, IInv', NEW k \in Conns, ReceiveEnds(k)
  PROVE  CInv'
  <1>. USE DEF CInv, IInv, Shape, ClientShape
  <1>1. /\ receive'[k].at = "tells"
        /\ \A j \in Conns : j # k => receive'[j] = receive[j]
        /\ client'.fd = client.fd /\ ~client'.running /\ client'.locked = client.locked
    BY DEF ReceiveEnds, Receive
  <1>2. Dialled'
    BY <1>1 DEF ReceiveEnds, Dialled
  <1>3. ~overlapped => Alone'
    BY <1>1 DEF ReceiveEnds, Alone
  <1>. QED
    BY <1>2, <1>3 DEF ReceiveEnds

(* It tells of c.fd, which is its own connection. *)
LEMMA ReceiveTellsTells ==
  ASSUME CInv, IInv', NEW k \in Conns, ReceiveTells(k)
  PROVE  CInv'
  <1>. USE DEF CInv, IInv, Shape, ClientShape
  <1>1. /\ receive[k].at = "tells" /\ receive'[k].at = "gone"
        /\ \A j \in Conns : j # k => receive'[j] = receive[j]
    BY DEF ReceiveTells, Receive
  <1>2. Dialled'
    BY <1>1 DEF ReceiveTells, Known, Dialled
  <1>3. ASSUME ~overlapped PROVE Alone'
    <2>1. client.fd = k /\ ~client.running
      BY <1>1, <1>3 DEF Alone
    <2>2. ended'["client"] = [ended["client"] EXCEPT ![k] = @ + 1]
      BY <2>1 DEF ReceiveTells, Tell, HandlerShape, Sides
    <2>. QED
      BY <1>1, <1>3, <2>1, <2>2 DEF ReceiveTells, HandlerShape, Sides, Alone
  <1>. QED
    BY <1>2, <1>3 DEF ReceiveTells

LEMMA NextTells == CInv /\ [Next]_vars => CInv'
  <1>. SUFFICES ASSUME CInv, [Next]_vars PROVE CInv'
    OBVIOUS
  <1>. IInv'
    BY NextKeeps DEF CInv
  <1>1. CASE UNCHANGED vars
    BY <1>1, ClientUntouched DEF vars
  <1>2. CASE Application
    <2>1. CASE StopBaseListener \/ \E protocol \in Protocols : StartBaseListener(protocol)
      BY <2>1, ClientUntouched DEF StopBaseListener, StartBaseListener
    <2>2. CASE \E side \in Sides :
                  \/ CloseAll(side)
                  \/ \E k \in Conns : CloseConn(side, k) \/ SendBytes(side, k)
      BY <2>2, ClientUntouched DEF CloseAll, CloseConn, SendBytes
    <2>. QED
      BY <1>2, <2>1, <2>2, ConnectBeginsTells, CloseTells, Zenon DEF Application
  <1>3. CASE Dialling
    BY <1>3, ConnectFailsTells, ConnectReturnsTells, Zenon DEF Dialling
  <1>4. ASSUME NEW k \in Conns, ReceiveLoop(k) PROVE CInv'
    BY <1>4, ReceiveStartsTells, ReceiveChecksTells, ReceiveReadsTells, ReceiveEndsTells,
       ReceiveTellsTells, Zenon DEF ReceiveLoop
  <1>5. ASSUME NEW k \in Conns, Handle(k) PROVE CInv'
    <2>1. UNCHANGED clientVars
      BY <1>5 DEF Handle, HandlerAdds, HandlerChecks, HandlerReads, HandlerEnds, HandlerLeaves
    <2>2. ended'["client"] = ended["client"]
      BY <1>5 DEF Handle, HandlerAdds, HandlerChecks, HandlerReads, HandlerEnds, HandlerLeaves,
         Tell, CInv, IInv, Shape, HandlerShape, Sides
    <2>. QED
      BY <2>1, <2>2, ClientUntouched
  <1>6. ASSUME NEW g \in Starts, AcceptLoop(g) PROVE CInv'
    BY <1>6, ClientUntouched DEF AcceptLoop, AcceptChecks, AcceptFails, AcceptTakes
  <1>7. ASSUME NEW k \in Conns, FinLost(k) \/ \E side \in Sides : SendsInVain(side, k) PROVE CInv'
    BY <1>7, LossKeeps, ClientUntouched DEF CInv
  <1>. QED
    BY <1>1, <1>2, <1>3, <1>4, <1>5, <1>6, <1>7, Zenon DEF Next

(* The client's application is told of every connection once, when the     *)
(* connection's receiveLoop has gone, and the client runs no longer than   *)
(* its loop: for every number of connections, whatever the server does and *)
(* whichever of Close, CloseConn, CloseAll and the peer ends them, as long *)
(* as no Connect comes before the old loop has gone (client.go:117-203).   *)
THEOREM NetconnTellsOnce == Spec => []ClientTellsOnce
  <1>1. CInv => ClientTellsOnce
    BY DEF CInv, Alone, ClientTellsOnce
  <1>. QED
    BY <1>1, InitCInv, NextTells, PTL DEF Spec
==============================================================================
