-------------------------------- MODULE Fillp --------------------------------
(***************************************************************************)
(* The two ends of a connection of pkg/fillp, over UDP.                    *)
(*                                                                         *)
(* A handler of the receive worker holds c.mu and is one action.  The send *)
(* worker does not hold it: that it reads the send buffer, writes the      *)
(* packet and advances sendSeq are three steps, between which a handler    *)
(* may call sendPendingData too.  The retransmission worker collects the   *)
(* expired entries and then treats them one at a time.                     *)
(*                                                                         *)
(* A byte is its position in the stream of its sender.  The network loses, *)
(* and reorders; it duplicates no packet that is not sent twice.  Durations *)
(* are left out: a timeout may expire whenever it is armed.  Timestamps    *)
(* only serve to estimate durations.                                       *)
(***************************************************************************)
EXTENDS Integers, Sequences, FiniteSets, SequencesExt

CONSTANTS
    Bytes,              \* [client |-> n, server |-> m]: what each application sends
    MTU,                \* DefaultMTU
    Window,             \* sendWindow, and the first ssthresh
    BufferSize,         \* the size of both ring buffers
    ISN,                \* the first sendSeq of each end
    SeqSpace,           \* 2^32
    MaxRetransmissions,
    MaxPackets,         \* a bound on the packets under way: more are lost
    DupAcks             \* 3: the duplicate ACKs before a fast retransmission

End == {"client", "server"}
Peer(e) == IF e = "client" THEN "server" ELSE "client"

ASSUME FillpAssumption ==
    /\ Bytes \in [End -> Nat] /\ ISN \in [End -> Nat]
    /\ {MTU, Window, BufferSize, SeqSpace, MaxRetransmissions, MaxPackets, DupAcks}
           \subseteq Nat \ {0}
    /\ Window >= 2 * MTU
    /\ \A e \in End : ISN[e] + 1 + Bytes["client"] + Bytes["server"] < SeqSpace

VARIABLES
    state, sendSeq, sendAck, receiveSeq, cwnd, ssthresh, dupAckCount, pendingAck,
    sendBuffer,
    received,       \* all that was ever written to the receive buffer
    taken,          \* how many of these bytes Receive has returned
    retransQueue,   \* sequence number -> entry
    sendReady, recvReady, listenChan,
    ackChan,        \* the first acknowledgement Connect is sent, 0 for none
    calling,        \* a call of Connect or Listen is waiting
    done,           \* c.ctx is cancelled
    accepted,       \* how many bytes Send has accepted
    worker,         \* the send worker
    expired,        \* the entries the retransmission worker has collected
    net,            \* the packets under way
    mishaps         \* history: what has gone wrong with the sequence numbers

windowVars == <<sendSeq, sendAck, cwnd, ssthresh, dupAckCount, retransQueue>>
streamVars == <<receiveSeq, received, pendingAck, recvReady>>
appVars == <<taken, accepted>>
signalVars == <<ackChan, listenChan>>
workerVars == <<worker, expired>>
callVars == <<calling, done>>
vars == <<state, callVars, sendBuffer, sendReady, net, mishaps, windowVars, streamVars, appVars,
          signalVars, workerVars>>

Seqs == 0..SeqSpace - 1
Stream(e) == 1..Bytes[e]
Idle == [pc |-> "idle", seq |-> 0, data |-> <<>>]
Entry(type, data) == [type |-> type, data |-> data, attempts |-> 0]
NoEntries == [s \in {} |-> Entry("syn", <<>>)]

EntriesOK(e, q) == \A s \in DOMAIN q :
    /\ s \in Seqs /\ q[s].data \in Seq(Stream(e))
    /\ q[s].attempts \in 0..MaxRetransmissions

TypeOK ==
    /\ state["client"] \in {"idle", "connecting", "connected", "closed"}
    /\ state["server"] \in {"idle", "listening", "connected", "closed"}
    /\ {sendSeq, sendAck, receiveSeq, pendingAck, ackChan} \subseteq [End -> Seqs]
    /\ \A e \in End :
        /\ cwnd[e] \in 2 * MTU..Window /\ ssthresh[e] \in 2 * MTU..Window
        /\ dupAckCount[e] \in 0..DupAcks - 1
        /\ sendBuffer[e] \in Seq(Stream(e)) /\ Len(sendBuffer[e]) <= BufferSize
        /\ received[e] \in Seq(Stream(Peer(e)))
        /\ taken[e] \in 0..Len(received[e]) /\ Len(received[e]) - taken[e] <= BufferSize
        /\ accepted[e] \in 0..Bytes[e]
        /\ EntriesOK(e, retransQueue[e]) /\ EntriesOK(e, expired[e])
        /\ worker[e].pc \in {"idle", "loop", "read", "written"}
        /\ worker[e].seq \in Seqs /\ worker[e].data \in Seq(Stream(e))
    /\ {sendReady, recvReady, listenChan, calling, done} \subseteq [End -> BOOLEAN]
    /\ \A p \in net : p.to \in End /\ p.seq \in Seqs /\ p.ack \in Seqs
    /\ mishaps \subseteq {"two senders", "sequence reset"}

Init ==
    /\ state = [e \in End |-> "idle"]
    /\ sendSeq = [e \in End |-> 0] /\ sendAck = [e \in End |-> 0]
    /\ receiveSeq = [e \in End |-> 0] /\ pendingAck = [e \in End |-> 0]
    /\ cwnd = [e \in End |-> 2 * MTU] /\ ssthresh = [e \in End |-> Window]
    /\ dupAckCount = [e \in End |-> 0]
    /\ sendBuffer = [e \in End |-> <<>>] /\ received = [e \in End |-> <<>>]
    /\ taken = [e \in End |-> 0] /\ accepted = [e \in End |-> 0]
    /\ retransQueue = [e \in End |-> NoEntries] /\ expired = [e \in End |-> NoEntries]
    /\ sendReady = [e \in End |-> FALSE] /\ recvReady = [e \in End |-> FALSE]
    /\ listenChan = [e \in End |-> FALSE] /\ ackChan = [e \in End |-> 0]
    /\ calling = [e \in End |-> FALSE] /\ done = [e \in End |-> FALSE]
    /\ worker = [e \in End |-> Idle]
    /\ net = {} /\ mishaps = {}

------------------------------------------------------------------------------
Smaller(a, b) == IF a < b THEN a ELSE b
With(q, s, entry) == [t \in DOMAIN q \cup {s} |-> IF t = s THEN entry ELSE q[t]]
Without(q, S) == [t \in DOMAIN q \ S |-> q[t]]
Over(q, r) == [t \in DOMAIN q \cup DOMAIN r |-> IF t \in DOMAIN q THEN q[t] ELSE r[t]]
Open(e) == state[e] # "idle" /\ ~done[e]

Packet(e, type, seq, ack, data) ==
    [to |-> Peer(e), type |-> type, seq |-> seq, ack |-> ack, data |-> data]
Ack(e, seq, ack) == Packet(e, "ack", seq, ack, <<>>)
Resent(e, s, entry) == Packet(e, entry.type, s, 0, entry.data)

(* Growth after an ACK that advances and the cut after a loss.             *)
Grown(e) ==
    Smaller(Window, IF cwnd[e] < ssthresh[e] THEN cwnd[e] + MTU
                    ELSE cwnd[e] + (MTU * MTU) \div cwnd[e])
Shrink(e) ==
    LET half == IF cwnd[e] \div 2 < 2 * MTU THEN 2 * MTU ELSE cwnd[e] \div 2
    IN  cwnd' = [cwnd EXCEPT ![e] = half] /\ ssthresh' = [ssthresh EXCEPT ![e] = half]

(* How many bytes sendPendingData may send, given sendAck and the window.  *)
Allowance(e, acked, wnd) ==
    LET inFlight == (sendSeq[e] - acked) % SeqSpace
        window == Smaller(Window, wnd)
    IN  IF inFlight >= window THEN 0 ELSE Smaller(window - inFlight, Len(sendBuffer[e]))

(* Mutant: an entry counts as covered by the number it begins with.        *)
CoveredByStart(q, s, ack) == s <= ack
Covered(q, s, ack) == IF q[s].type = "data" THEN s + Len(q[s].data) <= ack ELSE s < ack

(* TrimUpTo: entries are visited in ascending order, up to the first data  *)
(* entry that is not covered; of that one the acknowledged part is cut off.*)
Uncovered(q, ack) == {s \in DOMAIN q : q[s].type = "data" /\ ~Covered(q, s, ack)}
Split(q, ack) == {s \in Uncovered(q, ack) : s < ack /\ \A t \in Uncovered(q, ack) : s <= t}
TrimUpTo(q, ack) ==
    LET rest == Without(q, {s \in DOMAIN q : Covered(q, s, ack)
                                              /\ \A t \in Uncovered(q, ack) : s < t})
        Rest(s) == SubSeq(q[s].data, ack - s + 1, Len(q[s].data))
        tails == [a \in {ack : s \in Split(q, ack)} |->
                     Entry("data", Rest(CHOOSE s \in Split(q, ack) : TRUE))]
    IN  Over(tails, Without(rest, Split(q, ack)))

(* The retransmission worker holds pointers to the entries it collected:   *)
(* they see what becomes of the entries in the queue.                      *)
Followed(e, ack, trimmed) ==
    LET old == retransQueue[e]
        S == {IF s \in Split(old, ack) THEN ack ELSE s : s \in DOMAIN expired[e]}
    IN  [s \in S |-> Over(trimmed, Over(old, expired[e]))[s]]

(* The chunks sendPendingData makes of the first n bytes, by position.     *)
Chunks(e, n) ==
    [i \in {j \in 0..n - 1 : j % MTU = 0} |-> SubSeq(sendBuffer[e], i + 1, Smaller(i + MTU, n))]
Data(e, n) ==
    {Packet(e, "data", sendSeq[e] + i, 0, Chunks(e, n)[i]) : i \in DOMAIN Chunks(e, n)}
Pending(e, n) ==
    [s \in {sendSeq[e] + i : i \in DOMAIN Chunks(e, n)} |->
        Entry("data", Chunks(e, n)[s - sendSeq[e]])]

(* A packet reaches only a socket that is bound when it is sent.           *)
(* Duplicates come from retransmission.                                    *)
UnderWay(left, packets) ==
    LET arriving == {p \in packets : Open(p.to)} \ left
        room == Smaller(MaxPackets - Cardinality(left), Cardinality(arriving))
    IN  {left \cup sent : sent \in {S \in SUBSET arriving : Cardinality(S) = room}}
Transmit(packets) == net' \in UnderWay(net, packets)
Deliver(e, type, p) == p \in net /\ p.to = e /\ p.type = type /\ Open(e)
Answer(p, packets) == net' \in UnderWay(net \ {p}, packets)

(* Close: only the caller that finds the end connecting or connected does  *)
(* anything.  The workers return, the socket is closed, and the FIN is not *)
(* sent again: the retransmission worker is gone.                          *)
CanClose(e) == ~done[e] /\ state[e] \in {"connecting", "connected"}
Closed(e, packets) ==
    /\ state' = [state EXCEPT ![e] = "closed"]
    /\ done' = [done EXCEPT ![e] = TRUE]
    /\ worker' = [worker EXCEPT ![e] = Idle]
    /\ expired' = [expired EXCEPT ![e] = NoEntries]
    /\ net' \in UnderWay({p \in net : p.to # e},
                         packets \cup {Packet(e, "fin", sendSeq[e], 0, <<>>)})
    /\ UNCHANGED <<sendBuffer, sendReady, mishaps, windowVars, streamVars, appVars, signalVars>>

------------------------------------------------------------------------------
(* Connect and Listen.  A call waits for its channel, for its timeout and  *)
(* for the context.                                                        *)
Connect ==
    LET e == "client" IN
    /\ state[e] = "idle"
    /\ state' = [state EXCEPT ![e] = "connecting"]
    /\ calling' = [calling EXCEPT ![e] = TRUE]
    /\ sendSeq' = [sendSeq EXCEPT ![e] = ISN[e]]
    /\ retransQueue' = [retransQueue EXCEPT ![e] = With(@, ISN[e], Entry("syn", <<>>))]
    /\ Transmit({Packet(e, "syn", ISN[e], 0, <<>>)})
    /\ UNCHANGED <<sendAck, cwnd, ssthresh, dupAckCount, done, sendBuffer, sendReady, mishaps,
                   streamVars, appVars, signalVars, workerVars>>

(* The acknowledgement may be chosen although the context is cancelled too:*)
(* then the end is connected again, without workers or socket.  Of the     *)
(* application it is assumed that it sends when Connect has returned: that *)
(* state is set first and sendSeq last then makes no difference.           *)
ConnectReturns ==
    LET e == "client" IN
    /\ calling[e]
    /\ ackChan[e] = sendSeq[e] + 1
    /\ state' = [state EXCEPT ![e] = "connected"]
    /\ calling' = [calling EXCEPT ![e] = FALSE]
    /\ sendSeq' = [sendSeq EXCEPT ![e] = @ + 1]
    /\ UNCHANGED <<sendAck, cwnd, ssthresh, dupAckCount, retransQueue, done, sendBuffer,
                   sendReady, net, mishaps, streamVars, appVars, signalVars, workerVars>>

(* The application's Close.                                                *)
Close(e) == CanClose(e) /\ Closed(e, {}) /\ UNCHANGED calling

Listen ==
    LET e == "server" IN
    /\ state[e] = "idle"
    /\ state' = [state EXCEPT ![e] = "listening"]
    /\ calling' = [calling EXCEPT ![e] = TRUE]
    /\ UNCHANGED <<done, sendBuffer, sendReady, net, mishaps, windowVars, streamVars, appVars,
                   signalVars, workerVars>>

ListenReturns ==
    LET e == "server" IN
    /\ calling[e] /\ listenChan[e]
    /\ calling' = [calling EXCEPT ![e] = FALSE]
    /\ listenChan' = [listenChan EXCEPT ![e] = FALSE]
    /\ state' = [state EXCEPT ![e] = "connected"]
    /\ UNCHANGED <<done, sendBuffer, sendReady, net, mishaps, windowVars, streamVars, appVars,
                   ackChan, workerVars>>

(* The timeout closes an end that connects.  To one that listens Close     *)
(* does nothing: its workers go on.                                        *)
CallFails(e) ==
    /\ calling[e]
    /\ calling' = [calling EXCEPT ![e] = FALSE]
    /\ \/ CanClose(e) /\ Closed(e, {})
       \/ /\ ~CanClose(e)
          /\ UNCHANGED <<state, done, sendBuffer, sendReady, net, mishaps, windowVars, streamVars,
                         appVars, signalVars, workerVars>>

------------------------------------------------------------------------------
(* Send, one fragment, and the send worker.  When the buffer has no room   *)
(* Send waits and fails: nothing wakes it.                                 *)
Send(e) ==
    /\ state[e] = "connected"
    /\ \E n \in 1..MTU :
        /\ accepted[e] + n <= Bytes[e]
        /\ Len(sendBuffer[e]) + n <= BufferSize
        /\ sendBuffer' = [sendBuffer EXCEPT ![e] = @ \o [i \in 1..n |-> accepted[e] + i]]
        /\ accepted' = [accepted EXCEPT ![e] = @ + n]
    /\ sendReady' = [sendReady EXCEPT ![e] = TRUE]
    /\ UNCHANGED <<state, net, mishaps, windowVars, streamVars, taken, callVars, signalVars,
                   workerVars>>

Sending(e) ==
    \/ worker[e].pc = "loop"
    \/ worker[e].pc = "idle" /\ sendReady[e] /\ state[e] = "connected" /\ ~done[e]

SendReads(e) ==
    LET n == Smaller(MTU, Allowance(e, sendAck[e], cwnd[e])) IN
    /\ Sending(e)
    /\ n > 0
    /\ worker' = [worker EXCEPT ![e] =
                     [pc |-> "read", seq |-> sendSeq[e], data |-> SubSeq(sendBuffer[e], 1, n)]]
    /\ sendBuffer' = [sendBuffer EXCEPT ![e] = SubSeq(@, n + 1, Len(@))]
    /\ sendReady' = [sendReady EXCEPT ![e] = @ /\ worker[e].pc = "loop"]
    /\ UNCHANGED <<state, net, mishaps, windowVars, streamVars, appVars, callVars, signalVars,
                   expired>>

SendStops(e) ==
    /\ Sending(e)
    /\ Allowance(e, sendAck[e], cwnd[e]) = 0
    /\ worker' = [worker EXCEPT ![e] = Idle]
    /\ sendReady' = [sendReady EXCEPT ![e] = @ /\ worker[e].pc = "loop"]
    /\ UNCHANGED <<state, sendBuffer, net, mishaps, windowVars, streamVars, appVars, callVars,
                   signalVars, expired>>

SendWrites(e) ==
    /\ worker[e].pc = "read"
    /\ Transmit({Packet(e, "data", worker[e].seq, 0, worker[e].data)})
    /\ worker' = [worker EXCEPT ![e].pc = "written"]
    /\ UNCHANGED <<state, sendBuffer, sendReady, mishaps, windowVars, streamVars, appVars,
                   callVars, signalVars, expired>>

(* Beside a handler that sends, sendSeq += n may start from the old value. *)
SendAdvances(e) ==
    LET w == worker[e] IN
    /\ w.pc = "written"
    /\ retransQueue' = [retransQueue EXCEPT ![e] = With(@, w.seq, Entry("data", w.data))]
    /\ \E from \in {sendSeq[e], w.seq} :
          sendSeq' = [sendSeq EXCEPT ![e] = (from + Len(w.data)) % SeqSpace]
    /\ worker' = [worker EXCEPT ![e] = [Idle EXCEPT !.pc = "loop"]]
    /\ UNCHANGED <<state, sendAck, cwnd, ssthresh, dupAckCount, sendBuffer, sendReady, net,
                   mishaps, streamVars, appVars, callVars, signalVars, expired>>

(* Receive takes a signal and then all there is.                           *)
Receive(e) ==
    /\ state[e] = "connected"
    /\ recvReady[e]
    /\ recvReady' = [recvReady EXCEPT ![e] = FALSE]
    /\ taken' = [taken EXCEPT ![e] = Len(received[e])]
    /\ UNCHANGED <<state, sendBuffer, sendReady, net, mishaps, windowVars, receiveSeq, received,
                   pendingAck, accepted, callVars, signalVars, workerVars>>
------------------------------------------------------------------------------
(* The handlers of the receive worker.                                     *)

(* Mutants: any number not yet passed is taken; a packet out of order is   *)
(* acknowledged itself.                                                    *)
InSequenceOrLater(e, p) == p.seq >= receiveSeq[e]
RepeatedAckOfPacket(e, p) == Ack(e, sendSeq[e], p.seq + Len(p.data))

InSequence(e, p) == p.seq = receiveSeq[e]
RepeatedAck(e, p) == Ack(e, sendSeq[e], receiveSeq[e])

(* Only the next packet in sequence is kept.  A full buffer drops it and   *)
(* says nothing; any other number is answered by the one expected.         *)
HandleData(e, p) ==
    /\ Deliver(e, "data", p)
    /\ IF ~InSequence(e, p)
       THEN /\ Answer(p, {RepeatedAck(e, p)})
            /\ UNCHANGED streamVars
       ELSE IF Len(received[e]) - taken[e] + Len(p.data) > BufferSize
       THEN Answer(p, {}) /\ UNCHANGED streamVars
       ELSE LET next == receiveSeq[e] + Len(p.data)
                atOnce == sendBuffer[e] # <<>> \/ pendingAck[e] # 0
            IN  /\ received' = [received EXCEPT ![e] = @ \o p.data]
                /\ receiveSeq' = [receiveSeq EXCEPT ![e] = next]
                /\ pendingAck' = [pendingAck EXCEPT ![e] = IF atOnce THEN 0 ELSE next]
                /\ recvReady' = [recvReady EXCEPT ![e] = TRUE]
                /\ Answer(p, IF atOnce THEN {Ack(e, sendSeq[e], next)} ELSE {})
    /\ UNCHANGED <<state, sendBuffer, sendReady, mishaps, windowVars, appVars, callVars,
                   signalVars, workerVars>>

(* The timer of the delayed acknowledgement: it is armed as long as there  *)
(* is one, and finds nothing to send otherwise.                            *)
AckTimer(e) ==
    /\ Open(e)
    /\ pendingAck[e] > 0
    /\ Transmit({Ack(e, sendSeq[e], pendingAck[e])})
    /\ pendingAck' = [pendingAck EXCEPT ![e] = 0]
    /\ UNCHANGED <<state, sendBuffer, sendReady, mishaps, windowVars, receiveSeq, received,
                   recvReady, appVars, callVars, signalVars, workerVars>>

(* Mutant: an ACK sends nothing.                                           *)
NothingToFill(e, ack) == 0
ToFill(e, ack) == IF state[e] = "connected" THEN Allowance(e, ack, Grown(e)) ELSE 0

(* An ACK that advances opens the window and sends what it allows.         *)
Advances(e, p, trimmed) ==
    LET n == ToFill(e, p.ack) IN
    /\ sendAck' = [sendAck EXCEPT ![e] = p.ack]
    /\ cwnd' = [cwnd EXCEPT ![e] = Grown(e)]
    /\ dupAckCount' = [dupAckCount EXCEPT ![e] = 0]
    /\ retransQueue' = [retransQueue EXCEPT ![e] = Over(Pending(e, n), trimmed)]
    /\ sendSeq' = [sendSeq EXCEPT ![e] = @ + n]
    /\ sendBuffer' = [sendBuffer EXCEPT ![e] = SubSeq(@, n + 1, Len(@))]
    /\ Answer(p, Data(e, n))
    /\ UNCHANGED ssthresh

Retried(entry) == [entry EXCEPT !.attempts = Smaller(@ + 1, MaxRetransmissions)]

(* The last of DupAcks duplicates sends the earliest entry again.          *)
Repeats(e, p, trimmed) ==
    LET last == dupAckCount[e] + 1 >= DupAcks
        earliest == CHOOSE s \in DOMAIN trimmed : \A t \in DOMAIN trimmed : s <= t
        fast == last /\ trimmed # NoEntries /\ earliest >= p.ack
    IN  /\ dupAckCount' = [dupAckCount EXCEPT ![e] = IF last THEN 0 ELSE @ + 1]
        /\ IF fast
           THEN /\ Answer(p, {Resent(e, earliest, trimmed[earliest])})
                /\ retransQueue' = [retransQueue EXCEPT ![e] =
                       With(trimmed, earliest, Retried(trimmed[earliest]))]
                /\ Shrink(e)
           ELSE /\ Answer(p, {})
                /\ retransQueue' = [retransQueue EXCEPT ![e] = trimmed]
                /\ UNCHANGED <<cwnd, ssthresh>>
        /\ UNCHANGED <<sendAck, sendSeq, sendBuffer>>

HandleAck(e, p) ==
    LET trimmed == TrimUpTo(retransQueue[e], p.ack) IN
    /\ Deliver(e, "ack", p)
    /\ \/ p.ack > sendAck[e] /\ Advances(e, p, trimmed)
       \/ p.ack = sendAck[e] /\ Repeats(e, p, trimmed)
       \/ /\ p.ack < sendAck[e]
          /\ Answer(p, {})
          /\ retransQueue' = [retransQueue EXCEPT ![e] = trimmed]
          /\ UNCHANGED <<sendAck, sendSeq, cwnd, ssthresh, dupAckCount, sendBuffer>>
    /\ IF state[e] = "connecting"
       THEN /\ receiveSeq' = [receiveSeq EXCEPT ![e] = p.seq]
            /\ ackChan' = [ackChan EXCEPT ![e] = IF @ = 0 THEN p.ack ELSE @]
       ELSE UNCHANGED <<receiveSeq, ackChan>>
    /\ mishaps' = mishaps
           \cup (IF sendSeq'[e] # sendSeq[e] /\ worker[e].pc \in {"read", "written"}
                 THEN {"two senders"} ELSE {})
           \cup (IF state[e] = "connecting" /\ received[e] # <<>>
                 THEN {"sequence reset"} ELSE {})
    /\ expired' = [expired EXCEPT ![e] = Followed(e, p.ack, trimmed)]
    /\ UNCHANGED <<state, sendReady, received, pendingAck, recvReady, appVars, callVars,
                   listenChan, worker>>

(* A SYN is answered only while the end listens, however often it comes.   *)
HandleSyn(e, p) ==
    /\ Deliver(e, "syn", p)
    /\ IF state[e] = "listening"
       THEN /\ sendSeq' = [sendSeq EXCEPT ![e] = ISN[e]]
            /\ receiveSeq' = [receiveSeq EXCEPT ![e] = p.seq + 1]
            /\ listenChan' = [listenChan EXCEPT ![e] = TRUE]
            /\ Answer(p, {Ack(e, ISN[e], p.seq + 1)})
            /\ mishaps' = mishaps \cup (IF received[e] # <<>> THEN {"sequence reset"} ELSE {})
       ELSE /\ Answer(p, {})
            /\ UNCHANGED <<sendSeq, receiveSeq, listenChan, mishaps>>
    /\ UNCHANGED <<state, sendAck, cwnd, ssthresh, dupAckCount, retransQueue, sendBuffer,
                   sendReady, received, pendingAck, recvReady, appVars, callVars, ackChan,
                   workerVars>>

(* A FIN is acknowledged and obeyed, whatever is still missing before it.  *)
HandleFin(e, p) ==
    /\ Deliver(e, "fin", p)
    /\ IF CanClose(e)
       THEN Closed(e, {Ack(e, sendSeq[e], p.seq)}) /\ UNCHANGED calling
       ELSE /\ Answer(p, {Ack(e, sendSeq[e], p.seq)})
            /\ UNCHANGED <<state, sendBuffer, sendReady, mishaps, windowVars, streamVars, appVars,
                           callVars, signalVars, workerVars>>

(* Sent after ten seconds of silence, longer than all other timeouts but   *)
(* the last retransmissions: nothing is under way, held or to be repeated. *)
KeepAlive(e) ==
    /\ Open(e) /\ state[e] = "connected"
    /\ net = {}
    /\ \A d \in End : retransQueue[d] = NoEntries /\ pendingAck[d] = 0 /\ worker[d].pc = "idle"
    /\ Transmit({Packet(e, "keepalive", sendSeq[e], 0, <<>>)})
    /\ UNCHANGED <<state, sendBuffer, sendReady, mishaps, windowVars, streamVars, appVars,
                   callVars, signalVars, workerVars>>

HandleKeepAlive(e, p) ==
    /\ Deliver(e, "keepalive", p)
    /\ Answer(p, {RepeatedAck(e, p)})
    /\ UNCHANGED <<state, sendBuffer, sendReady, mishaps, windowVars, streamVars, appVars,
                   callVars, signalVars, workerVars>>

Lose(p) ==
    /\ p \in net
    /\ net' = net \ {p}
    /\ UNCHANGED <<state, sendBuffer, sendReady, mishaps, windowVars, streamVars, appVars,
                   callVars, signalVars, workerVars>>

------------------------------------------------------------------------------
(* The retransmission worker.  An entry it has collected is the one in the *)
(* queue as long as there is one; one acknowledged meanwhile it puts back. *)
GetExpired(e) ==
    /\ Open(e)
    /\ expired[e] = NoEntries
    /\ \E S \in SUBSET DOMAIN retransQueue[e] :
          /\ S # {}
          /\ expired' = [expired EXCEPT ![e] = [s \in S |-> retransQueue[e][s]]]
    /\ UNCHANGED <<state, sendBuffer, sendReady, net, mishaps, windowVars, streamVars, appVars,
                   callVars, signalVars, worker>>

Retransmit(e, s) ==
    LET entry == Over(retransQueue[e], expired[e])[s] IN
    /\ s \in DOMAIN expired[e]
    /\ IF entry.attempts >= MaxRetransmissions
       THEN CanClose(e) /\ Closed(e, {}) /\ UNCHANGED calling
       ELSE /\ Transmit({Resent(e, s, entry)})
            /\ retransQueue' = [retransQueue EXCEPT ![e] = With(@, s, Retried(entry))]
            /\ expired' = [expired EXCEPT ![e] = Without(@, {s})]
            /\ IF entry.attempts = 0 THEN Shrink(e) ELSE UNCHANGED <<cwnd, ssthresh>>
            /\ UNCHANGED <<state, sendSeq, sendAck, dupAckCount, sendBuffer, sendReady, mishaps,
                           streamVars, appVars, callVars, signalVars, worker>>

------------------------------------------------------------------------------
SendWorker(e) == SendReads(e) \/ SendStops(e) \/ SendWrites(e) \/ SendAdvances(e)
RetransmissionWorker(e) == GetExpired(e) \/ \E s \in Seqs : Retransmit(e, s)
ReceiveWorker(e) == \E p \in net :
    HandleData(e, p) \/ HandleAck(e, p) \/ HandleSyn(e, p) \/ HandleFin(e, p)
    \/ HandleKeepAlive(e, p)

Next ==
    \/ Connect \/ ConnectReturns \/ Listen \/ ListenReturns
    \/ \E e \in End :
        \/ CallFails(e) \/ Close(e) \/ Send(e) \/ Receive(e)
        \/ SendWorker(e) \/ RetransmissionWorker(e) \/ ReceiveWorker(e)
        \/ AckTimer(e) \/ KeepAlive(e)
    \/ \E p \in net : Lose(p)

Spec == Init /\ [][Next]_vars

------------------------------------------------------------------------------
FirstSeq(e) == IF e = "client" THEN ISN[e] + 1 ELSE ISN[e]

(* What one application reads is the beginning of what the other sent:     *)
(* nothing missing, twice or out of order, unless two senders used one     *)
(* number or a second SYN or SYN-ACK reset it (connection.go:802, :973).   *)
StreamIntact ==
    /\ TypeOK
    /\ mishaps = {} => \A e \in End : \A i \in DOMAIN received[e] : received[e][i] = i

(* An end is never told that bytes arrived which its peer has not stored.  *)
AckedIsReceived ==
    mishaps = {} =>
        \A e \in End : Open(e) /\ sendAck[e] # 0 =>
            sendAck[e] - FirstSeq(e) <= Len(received[Peer(e)])

(* Every byte that Send accepted has arrived or is still with the sender:  *)
(* in the send buffer, with the send worker, or kept to be sent again.     *)
NoByteLost ==
    mishaps = {} =>
        \A e \in End : Open(e) => \A b \in Len(received[Peer(e)]) + 1..accepted[e] :
            \/ b \in ToSet(sendBuffer[e]) \cup ToSet(worker[e].data)
            \/ \E s \in DOMAIN retransQueue[e] : b \in ToSet(retransQueue[e][s].data)

(* What waits in the send buffer has somebody who will send it: a signal,  *)
(* the send worker at it, or bytes under way whose ACK opens the window.   *)
NothingStalls ==
    mishaps = {} =>
        \A e \in End : Open(e) /\ sendBuffer[e] # <<>> =>
            \/ sendReady[e] \/ worker[e].pc # "idle"
            \/ \E s \in DOMAIN retransQueue[e] : retransQueue[e][s].type = "data"

(* As documented (README.md:7, :514): reliable, and safe to use from many  *)
(* goroutines.  That two workers of one end send is no excuse here; only a *)
(* repeated SYN is.                                                        *)
Reliable ==
    "sequence reset" \notin mishaps =>
        \A e \in End : \A i \in DOMAIN received[e] : received[e][i] = i
==============================================================================
