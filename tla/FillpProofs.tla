------------------------------ MODULE FillpProofs ------------------------------
(* What Fillp promises of the bytes a connection carries, for every number *)
(* of bytes, window, buffer and first sequence number, with the proofs.    *)
EXTENDS Fillp, TLAPS, SequenceTheorems, WellFoundedInduction

(* What the fields hold.  A data packet and an entry end within the stream *)
(* of their sender, and a SYN has the first number of the client.          *)
Top(e) == ISN[e] + 1 + Bytes[e]
EntryRecords(e) ==
    [type : {"syn", "data"}, data : Seq(Stream(e)), attempts : 0..MaxRetransmissions]
WorkerRecords(e) ==
    [pc : {"idle", "loop", "read", "written"}, seq : Nat, data : Seq(Stream(e))]
Entries(e, s, x) ==
    /\ x \in EntryRecords(e) /\ s \in Nat /\ s + Len(x.data) <= Top(e)
    /\ x.type = "syn" => e = "client" /\ s = ISN[e] /\ x.data = <<>>
Table(e, q) == q = [s \in DOMAIN q |-> q[s]] /\ \A s \in DOMAIN q : Entries(e, s, q[s])
Fits(p) ==
    /\ p.to \in End /\ p.seq \in Seqs /\ p.ack \in Seqs
    /\ p.type = "syn" => p.to = "server" /\ p.seq = ISN["client"]
    /\ p.type = "data" =>
          p.data \in Seq(Stream(Peer(p.to))) /\ p.seq + Len(p.data) <= Top(Peer(p.to))

FlagShape ==
    /\ state \in [End -> {"idle", "connecting", "listening", "connected", "closed"}]
    /\ state["client"] # "listening" /\ state["server"] # "connecting"
    /\ calling \in [End -> BOOLEAN] /\ done \in [End -> BOOLEAN]
    /\ sendReady \in [End -> BOOLEAN] /\ recvReady \in [End -> BOOLEAN]
    /\ listenChan \in [End -> BOOLEAN]
    /\ mishaps \subseteq {"two senders", "sequence reset"}
SeqShape ==
    /\ sendSeq \in [End -> Nat] /\ sendAck \in [End -> Seqs] /\ ackChan \in [End -> Seqs]
WindowShape ==
    /\ cwnd \in [End -> 2 * MTU..Window] /\ ssthresh \in [End -> 2 * MTU..Window]
    /\ dupAckCount \in [End -> 0..DupAcks - 1]
StreamShape ==
    /\ receiveSeq \in [End -> Seqs] /\ pendingAck \in [End -> Seqs]
    /\ received = [e \in End |-> received[e]] /\ taken \in [End -> Nat]
    /\ \A e \in End :
          /\ received[e] \in Seq(Stream(Peer(e)))
          /\ taken[e] <= Len(received[e]) /\ Len(received[e]) - taken[e] <= BufferSize
SendShape ==
    /\ sendBuffer = [e \in End |-> sendBuffer[e]] /\ accepted \in [End -> Nat]
    /\ \A e \in End :
          /\ sendBuffer[e] \in Seq(Stream(e)) /\ Len(sendBuffer[e]) <= BufferSize
          /\ accepted[e] <= Bytes[e]
WorkerShape ==
    /\ worker = [e \in End |-> worker[e]]
    /\ \A e \in End :
          /\ worker[e] \in WorkerRecords(e)
          /\ worker[e].pc \in {"idle", "loop"} => worker[e].data = <<>> /\ worker[e].seq = 0
QueueShape ==
    /\ retransQueue = [e \in End |-> retransQueue[e]] /\ expired = [e \in End |-> expired[e]]
    /\ \A e \in End : Table(e, retransQueue[e]) /\ Table(e, expired[e])
NetShape == \A p \in net : Fits(p)

(* What an end may hold in a state: nothing is sent before it is connected *)
(* and an end that is done has no workers.                                 *)
Phases ==
    \A e \in End :
       /\ state[e] \in {"idle", "connecting", "listening"} =>
             ~done[e] /\ accepted[e] = 0 /\ worker[e] = Idle
       /\ state[e] = "closed" => done[e]
       /\ done[e] => worker[e] = Idle /\ expired[e] = NoEntries
Calls ==
    /\ calling["client"] =>
          /\ state["client"] \in {"connecting", "closed"}
          /\ sendSeq["client"] = ISN["client"] /\ accepted["client"] = 0
    /\ calling["server"] => state["server"] = "listening"
    /\ state["client"] = "connecting" => calling["client"]
    /\ listenChan["server"] =>
          /\ state["server"] # "idle"
          /\ state["server"] = "listening" => sendSeq["server"] = ISN["server"]

(* The sequence numbers count no more bytes than were accepted and have    *)
(* left the send buffer, even where two senders have used them.            *)
Held(e) == Len(worker[e].data)
Waiting(e) == Len(sendBuffer[e])
BoundedAt(e) ==
    /\ Held(e) + Waiting(e) <= accepted[e]
    /\ sendSeq[e] + (Held(e) + Waiting(e)) <= ISN[e] + 1 + accepted[e]
    /\ worker[e].seq + (Held(e) + Waiting(e)) <= ISN[e] + 1 + accepted[e]
Bounded == \A e \in End : BoundedAt(e)

Shape ==
    /\ FlagShape /\ SeqShape /\ WindowShape /\ StreamShape /\ SendShape /\ WorkerShape
    /\ QueueShape /\ NetShape /\ Phases /\ Calls /\ Bounded

(* As long as the sequence numbers are right, a byte is where its number   *)
(* says: in the send buffer, with the worker, in an entry, in a packet,    *)
(* and in what was received.                                               *)
At(e, s, data) == \A i \in DOMAIN data : data[i] = s - FirstSeq(e) + i
SenderAt(e) ==
    state[e] = "connected" /\ ~done[e] =>
       /\ worker[e].pc \in {"read", "written"} => worker[e].seq = sendSeq[e]
       /\ sendSeq[e] + (Held(e) + Waiting(e)) = FirstSeq(e) + accepted[e]
       /\ At(e, sendSeq[e], worker[e].data)
       /\ At(e, sendSeq[e] + Held(e), sendBuffer[e])
Sender == \A e \in End : SenderAt(e)
AllAt(e, q) == \A s \in DOMAIN q : At(e, s, q[s].data)
Kept == \A e \in End : AllAt(e, retransQueue[e]) /\ AllAt(e, expired[e])
Carries(p) == p.type = "data" => At(Peer(p.to), p.seq, p.data)
Carried == \A p \in net : Carries(p)

Reached(e) == FirstSeq(Peer(e)) + Len(received[e])
Owed(e, ack) == ack = 0 \/ ack \in FirstSeq(e)..Reached(Peer(e))
Receiver ==
    \A e \in End :
       /\ \/ receiveSeq[e] = 0 /\ received[e] = <<>>
          \/ receiveSeq[e] = Reached(e)
       /\ Owed(Peer(e), pendingAck[e])
       /\ \A i \in DOMAIN received[e] : received[e][i] = i

(* No acknowledgement runs ahead of what was received; a FIN, which is     *)
(* acknowledged by its own number, comes from an end that hears no more.   *)
Says(p) ==
    /\ p.type = "fin" => done[Peer(p.to)]
    /\ p.type = "ack" => Owed(p.to, p.ack)
Honest == (\A p \in net : Says(p)) /\ \A e \in End : Owed(e, sendAck[e])

(* The first acknowledgement that reaches a client that connects is the    *)
(* answer to its SYN: nothing else has been said to the server.            *)
Opens(p) ==
    /\ p.to = "server" => p.type \in {"syn", "ack"}
    /\ p.to = "client" /\ p.type = "ack" => p.seq = ISN["server"]
OnlySyn(q) == \A s \in DOMAIN q : q[s].type = "syn"
Early == state["client"] \in {"idle", "connecting"}
Handshake ==
    Early =>
       /\ \A p \in net : Opens(p)
       /\ pendingAck["server"] = 0
       /\ OnlySyn(retransQueue["client"]) /\ OnlySyn(expired["client"])

Aligned == Sender /\ Kept /\ Carried /\ Receiver /\ Honest /\ Handshake
IInv == Shape /\ (mishaps = {} => Aligned)

------------------------------------------------------------------------------
(* The constants, the two ends and what follows of the numbers. *)
LEMMA Consts ==
  /\ MTU \in Nat /\ Window \in Nat /\ BufferSize \in Nat /\ SeqSpace \in Nat
  /\ MaxRetransmissions \in Nat /\ MaxPackets \in Nat /\ DupAcks \in Nat
  /\ MTU > 0 /\ DupAcks > 0 /\ SeqSpace > 0 /\ Window >= 2 * MTU
  /\ \A e \in End :
        /\ ISN[e] \in Nat /\ Bytes[e] \in Nat /\ Top(e) \in Nat /\ Top(e) < SeqSpace
        /\ FirstSeq(e) \in Nat /\ ISN[e] <= FirstSeq(e) /\ FirstSeq(e) <= ISN[e] + 1
        /\ Top(e) = ISN[e] + 1 + Bytes[e]
  BY FillpAssumption DEF End, Top, FirstSeq

LEMMA Ends ==
  /\ "client" \in End /\ "server" \in End /\ Peer("client") = "server" /\ Peer("server") = "client"
  /\ \A e \in End : Peer(e) \in End /\ Peer(Peer(e)) = e /\ Peer(e) # e
  BY DEF End, Peer

(* Parts of a sequence. *)
LEMMA Part ==
  ASSUME NEW S, NEW s \in Seq(S), NEW m \in Nat, NEW n \in Nat, m <= n, n <= Len(s)
  PROVE  /\ SubSeq(s, m + 1, n) \in Seq(S) /\ Len(SubSeq(s, m + 1, n)) = n - m
         /\ \A i \in 1..n - m : SubSeq(s, m + 1, n)[i] = s[m + i]
         /\ DOMAIN SubSeq(s, m + 1, n) = 1..n - m
  BY SubSeqProperties, LenProperties

LEMMA AtPart ==
  ASSUME NEW S, NEW data \in Seq(S), NEW e \in End, NEW s \in Nat, At(e, s, data),
         NEW m \in Nat, NEW n \in Nat, m <= n, n <= Len(data)
  PROVE  At(e, s + m, SubSeq(data, m + 1, n))
  <1>1. \A i \in 1..n - m : m + i \in DOMAIN data
    BY LenProperties
  <1>2. \A i \in 1..n - m : data[m + i] = s - FirstSeq(e) + (m + i)
    BY <1>1 DEF At
  <1>3. FirstSeq(e) \in Int
    BY Consts
  <1>4. \A i \in DOMAIN SubSeq(data, m + 1, n) :
           i \in 1..n - m /\ SubSeq(data, m + 1, n)[i] = data[m + i]
    BY Part
  <1>. HIDE DEF At
  <1>5. \A i \in 1..n - m : s - FirstSeq(e) + (m + i) = (s + m) - FirstSeq(e) + i
    BY <1>3
  <1>6. ASSUME NEW i \in DOMAIN SubSeq(data, m + 1, n)
        PROVE  SubSeq(data, m + 1, n)[i] = (s + m) - FirstSeq(e) + i
    BY <1>2, <1>4, <1>5, Zenon
  <1>. QED
    BY <1>6 DEF At

LEMMA AtFront ==
  ASSUME NEW S, NEW data \in Seq(S), NEW e \in End, NEW s \in Nat, At(e, s, data),
         NEW n \in Nat, n <= Len(data)
  PROVE  At(e, s, SubSeq(data, 1, n))
  <1>1. At(e, s + 0, SubSeq(data, 0 + 1, n))
    BY AtPart
  <1>. QED
    BY <1>1

LEMMA FirstPart ==
  ASSUME NEW S, NEW s \in Seq(S), NEW n \in Nat, n <= Len(s)
  PROVE  /\ SubSeq(s, 1, n) \in Seq(S) /\ Len(SubSeq(s, 1, n)) = n
         /\ \A i \in 1..n : SubSeq(s, 1, n)[i] = s[i]
  <1>1. SubSeq(s, 0 + 1, n) \in Seq(S) /\ Len(SubSeq(s, 0 + 1, n)) = n - 0
        /\ \A i \in 1..n - 0 : SubSeq(s, 0 + 1, n)[i] = s[0 + i]
    BY Part
  <1>. QED
    BY <1>1

LEMMA Least ==
  ASSUME NEW S, S \subseteq Nat, S # {}
  PROVE  \E x \in S : \A y \in S : x <= y
  <1>1. PICK x \in S : \A y \in S : ~(<<y, x>> \in OpToRel(<, Nat))
    BY NatLessThanWellFounded, WFMin, Zenon
  <1>2. \A y \in S : ~(y < x)
    BY <1>1 DEF OpToRel
  <1>. QED
    BY <1>2

(* The sequences, and every number in use is a sequence number. *)
LEMMA Streams ==
  ASSUME Shape, NEW e \in End
  PROVE  /\ worker[e].data \in Seq(Stream(e)) /\ sendBuffer[e] \in Seq(Stream(e))
         /\ received[e] \in Seq(Stream(Peer(e)))
         /\ Len(worker[e].data) \in Nat /\ Len(sendBuffer[e]) \in Nat /\ Len(received[e]) \in Nat
  BY LenProperties DEF Shape, WorkerShape, WorkerRecords, SendShape, StreamShape

LEMMA Numbers ==
  ASSUME Shape, NEW e \in End
  PROVE  /\ sendSeq[e] \in Seqs /\ sendSeq[e] <= Top(e) /\ worker[e].seq \in Seqs
         /\ sendSeq[e] \in Nat /\ worker[e].seq \in Nat
         /\ accepted[e] \in Nat /\ accepted[e] <= Bytes[e]
         /\ Held(e) \in Nat /\ Waiting(e) \in Nat /\ Reached(e) \in Nat
         /\ worker[e].seq + Held(e) <= Top(e) /\ sendSeq[e] + Held(e) <= Top(e)
         /\ sendSeq[e] + Waiting(e) <= Top(e)
  <1>1. Held(e) \in Nat /\ Waiting(e) \in Nat
    BY Streams DEF Held, Waiting
  <1>2. /\ sendSeq[e] \in Nat /\ accepted[e] \in Nat /\ accepted[e] <= Bytes[e]
        /\ worker[e].seq \in Nat
    BY DEF Shape, WorkerShape, WorkerRecords, SendShape, SeqShape
  <1>3. Reached(e) \in Nat
    BY Streams, Consts, Ends DEF Reached
  <1>4. /\ sendSeq[e] + (Held(e) + Waiting(e)) <= ISN[e] + 1 + accepted[e]
        /\ worker[e].seq + (Held(e) + Waiting(e)) <= ISN[e] + 1 + accepted[e]
    BY DEF Shape, Bounded, BoundedAt
  <1>5. /\ ISN[e] \in Nat /\ Bytes[e] \in Nat /\ Top(e) = ISN[e] + 1 + Bytes[e]
        /\ Top(e) < SeqSpace /\ SeqSpace \in Nat
    BY Consts
  <1>6. /\ sendSeq[e] <= Top(e) /\ worker[e].seq <= Top(e)
        /\ worker[e].seq + Held(e) <= Top(e) /\ sendSeq[e] + Held(e) <= Top(e)
        /\ sendSeq[e] + Waiting(e) <= Top(e)
    BY <1>1, <1>2, <1>4, <1>5
  <1>7. sendSeq[e] \in Seqs /\ worker[e].seq \in Seqs
    BY <1>2, <1>5, <1>6 DEF Seqs
  <1>. QED
    BY <1>1, <1>2, <1>3, <1>6, <1>7

LEMMA NothingYet ==
  ASSUME Shape, NEW e \in End, accepted[e] = 0
  PROVE  /\ Held(e) = 0 /\ Waiting(e) = 0
         /\ \A s \in Nat : At(e, s, worker[e].data) /\ At(e, s, sendBuffer[e])
  <1>1. Held(e) + Waiting(e) <= 0
    BY DEF Shape, Bounded, BoundedAt
  <1>2. Held(e) = 0 /\ Waiting(e) = 0
    BY <1>1, Numbers
  <1>3. DOMAIN worker[e].data = {} /\ DOMAIN sendBuffer[e] = {}
    BY <1>2, Streams, LenProperties DEF Held, Waiting
  <1>. QED
    BY <1>2, <1>3 DEF At

------------------------------------------------------------------------------
(* The tables of entries: what is added, taken out and trimmed. *)
LEMMA WithKeeps ==
  ASSUME NEW e \in End, NEW q, Table(e, q), NEW s, NEW x, Entries(e, s, x)
  PROVE  /\ Table(e, With(q, s, x))
         /\ AllAt(e, q) /\ At(e, s, x.data) => AllAt(e, With(q, s, x))
         /\ OnlySyn(q) /\ x.type = "syn" => OnlySyn(With(q, s, x))
  BY DEF Table, With, AllAt, OnlySyn

LEMMA WithoutKeeps ==
  ASSUME NEW e \in End, NEW q, Table(e, q), NEW S
  PROVE  /\ Table(e, Without(q, S))
         /\ AllAt(e, q) => AllAt(e, Without(q, S))
         /\ OnlySyn(q) => OnlySyn(Without(q, S))
  BY DEF Table, Without, AllAt, OnlySyn

LEMMA OverKeeps ==
  ASSUME NEW e \in End, NEW q, Table(e, q), NEW r, Table(e, r)
  PROVE  /\ Table(e, Over(q, r))
         /\ AllAt(e, q) /\ AllAt(e, r) => AllAt(e, Over(q, r))
         /\ OnlySyn(q) /\ OnlySyn(r) => OnlySyn(Over(q, r))
  BY DEF Table, Over, AllAt, OnlySyn

LEMMA NoEntriesKeeps ==
  ASSUME NEW e \in End
  PROVE  Table(e, NoEntries) /\ AllAt(e, NoEntries) /\ OnlySyn(NoEntries)
  BY DEF NoEntries, Table, AllAt, OnlySyn

LEMMA RetriedKeeps ==
  ASSUME NEW e \in End, NEW s, NEW x, Entries(e, s, x)
  PROVE  /\ Entries(e, s, Retried(x))
         /\ Retried(x).data = x.data /\ Retried(x).type = x.type
  <1>1. x.attempts \in Nat /\ x.attempts <= MaxRetransmissions
    BY Consts DEF Entries, EntryRecords
  <1>2. Smaller(x.attempts + 1, MaxRetransmissions) \in 0..MaxRetransmissions
    BY <1>1, Consts DEF Smaller
  <1>. QED
    BY <1>2 DEF Entries, EntryRecords, Retried

LEMMA EntryFields ==
  ASSUME NEW type, NEW data
  PROVE  Entry(type, data).type = type /\ Entry(type, data).data = data
  BY DEF Entry

LEMMA DataEntry ==
  ASSUME NEW e \in End, NEW s \in Nat, NEW data \in Seq(Stream(e)), s + Len(data) <= Top(e)
  PROVE  Entries(e, s, Entry("data", data)) /\ Entry("data", data).data = data
  BY Consts DEF Entries, Entry, EntryRecords

(* The rest of an entry that an acknowledgement splits. *)
LEMMA TailKeeps ==
  ASSUME NEW e \in End, NEW s, NEW x, Entries(e, s, x), NEW ack \in Nat, s < ack,
         ack < s + Len(x.data)
  PROVE  LET data == SubSeq(x.data, ack - s + 1, Len(x.data)) IN
         /\ Entries(e, ack, Entry("data", data)) /\ Len(data) = s + Len(x.data) - ack
         /\ At(e, s, x.data) => At(e, ack, data)
  <1>. DEFINE m == ack - s
              data == SubSeq(x.data, m + 1, Len(x.data))
  <1>1. x.data \in Seq(Stream(e)) /\ Len(x.data) \in Nat /\ s \in Nat /\ m \in Nat
        /\ s + Len(x.data) <= Top(e) /\ m <= Len(x.data)
    BY LenProperties DEF Entries, EntryRecords
  <1>2. data \in Seq(Stream(e)) /\ Len(data) = Len(x.data) - m
    BY <1>1, Part
  <1>. HIDE DEF m
  <1>3. ASSUME At(e, s, x.data) PROVE At(e, s + m, data)
    BY <1>1, <1>3, AtPart
  <1>. HIDE DEF data
  <1>5. s + m = ack
    BY <1>1 DEF m
  <1>4. Entries(e, ack, Entry("data", data))
    <2>1. ack + Len(data) <= Top(e)
      BY <1>1, <1>2, <1>5, Consts
    <2>. QED
      BY <1>2, <2>1, DataEntry
  <1>. QED
    BY <1>1, <1>2, <1>3, <1>4, <1>5 DEF data, m

(* What TrimUpTo leaves: entries that were there, and the rest of one. *)
LEMMA TrimCases ==
  ASSUME NEW e \in End, NEW q, Table(e, q), NEW ack \in Nat
  PROVE  /\ TrimUpTo(q, ack) = [s \in DOMAIN TrimUpTo(q, ack) |-> TrimUpTo(q, ack)[s]]
         /\ \A s \in DOMAIN TrimUpTo(q, ack) :
               \/ s \in DOMAIN q /\ TrimUpTo(q, ack)[s] = q[s]
               \/ /\ s = ack
                  /\ \E t \in Split(q, ack) :
                        TrimUpTo(q, ack)[s] =
                           Entry("data", SubSeq(q[t].data, ack - t + 1, Len(q[t].data)))
  <1>. DEFINE Rest(s) == SubSeq(q[s].data, ack - s + 1, Len(q[s].data))
              one == CHOOSE s \in Split(q, ack) : TRUE
              tails == [a \in {ack : s \in Split(q, ack)} |-> Entry("data", Rest(one))]
              rest == Without(q, {s \in DOMAIN q : /\ Covered(q, s, ack)
                                                   /\ \A t \in Uncovered(q, ack) : s < t})
              kept == Without(rest, Split(q, ack))
  <1>1. TrimUpTo(q, ack) = Over(tails, kept)
    BY DEF TrimUpTo
  <1>2. \A s \in DOMAIN kept : s \in DOMAIN q /\ kept[s] = q[s]
    BY DEF Without
  <1>3. \A a \in DOMAIN tails : a = ack /\ one \in Split(q, ack) /\ tails[a] = Entry("data", Rest(one))
    OBVIOUS
  <1>. HIDE DEF tails, kept, rest
  <1>4. \A s \in DOMAIN Over(tails, kept) :
           \/ s \in DOMAIN tails /\ Over(tails, kept)[s] = tails[s]
           \/ s \in DOMAIN kept /\ Over(tails, kept)[s] = kept[s]
    BY DEF Over
  <1>5. Over(tails, kept) = [s \in DOMAIN Over(tails, kept) |-> Over(tails, kept)[s]]
    BY DEF Over
  <1>. QED
    BY <1>1, <1>2, <1>3, <1>4, <1>5

LEMMA SplitEntry ==
  ASSUME NEW e \in End, NEW q, Table(e, q), NEW ack \in Nat, NEW t \in Split(q, ack)
  PROVE  t \in DOMAIN q /\ q[t].type = "data" /\ t < ack /\ ack < t + Len(q[t].data)
  <1>1. t \in DOMAIN q /\ q[t].type = "data" /\ t < ack /\ ~Covered(q, t, ack)
    BY DEF Split, Uncovered
  <1>2. t \in Nat /\ Len(q[t].data) \in Nat
    BY <1>1, LenProperties DEF Table, Entries, EntryRecords
  <1>. QED
    BY <1>1, <1>2 DEF Covered

LEMMA TrimKeeps ==
  ASSUME NEW e \in End, NEW q, Table(e, q), NEW ack \in Nat
  PROVE  /\ Table(e, TrimUpTo(q, ack))
         /\ AllAt(e, q) => AllAt(e, TrimUpTo(q, ack))
         /\ OnlySyn(q) => OnlySyn(TrimUpTo(q, ack))
  <1>. DEFINE trimmed == TrimUpTo(q, ack)
  <1>1. \A s \in DOMAIN trimmed :
           \/ s \in DOMAIN q /\ trimmed[s] = q[s]
           \/ /\ s = ack /\ \E t \in DOMAIN q : q[t].type = "data"
              /\ Entries(e, s, trimmed[s]) /\ (AllAt(e, q) => At(e, s, trimmed[s].data))
    <2>. SUFFICES ASSUME NEW s \in DOMAIN trimmed, s = ack, NEW t \in Split(q, ack),
                         trimmed[s] = Entry("data", SubSeq(q[t].data, ack - t + 1, Len(q[t].data)))
                  PROVE  /\ \E u \in DOMAIN q : q[u].type = "data"
                         /\ Entries(e, s, trimmed[s]) /\ (AllAt(e, q) => At(e, s, trimmed[s].data))
      BY TrimCases
    <2>1. /\ t \in DOMAIN q /\ q[t].type = "data" /\ t < ack /\ ack < t + Len(q[t].data)
          /\ Entries(e, t, q[t])
      BY SplitEntry DEF Table
    <2>. DEFINE data == SubSeq(q[t].data, ack - t + 1, Len(q[t].data))
    <2>2. trimmed[s].data = data
      <3>. HIDE DEF data
      <3>1. Entry("data", data).data = data
        BY EntryFields
      <3>. QED
        BY <3>1 DEF data
    <2>. QED
      BY <2>1, <2>2, TailKeeps, ZenonT(60) DEF AllAt
  <1>2. trimmed = [s \in DOMAIN trimmed |-> trimmed[s]]
    BY TrimCases
  <1>. HIDE DEF trimmed
  <1>3. Table(e, trimmed)
    BY <1>1, <1>2 DEF Table
  <1>4. AllAt(e, q) => AllAt(e, trimmed)
    BY <1>1 DEF AllAt
  <1>5. OnlySyn(q) => OnlySyn(trimmed)
    BY <1>1 DEF OnlySyn
  <1>. QED
    BY <1>3, <1>4, <1>5 DEF trimmed

------------------------------------------------------------------------------
(* The packets.  None comes from elsewhere than those an end sends, and    *)
(* those only as long as the other end is open.                            *)
LEMMA Arrives ==
  ASSUME NEW left, NEW packets, NEW after \in UnderWay(left, packets)
  PROVE  \A p \in after : p \in left \/ (p \in packets /\ Open(p.to))
  BY DEF UnderWay

LEMMA SeqsBound == \A n \in Nat : \A e \in End : n <= Top(e) => n \in Seqs
  <1>. SUFFICES ASSUME NEW n \in Nat, NEW e \in End, n <= Top(e) PROVE n \in Seqs
    OBVIOUS
  <1>1. Top(e) \in Nat /\ Top(e) < SeqSpace /\ SeqSpace \in Nat
    BY Consts
  <1>. QED
    BY <1>1 DEF Seqs

LEMMA ZeroSeq == 0 \in Seqs
  BY Consts DEF Seqs

LEMMA AckPacket ==
  ASSUME NEW e \in End, NEW seq \in Seqs, NEW ack \in Seqs
  PROVE  /\ Fits(Ack(e, seq, ack)) /\ Carries(Ack(e, seq, ack))
         /\ Ack(e, seq, ack).to = Peer(e) /\ Ack(e, seq, ack).type = "ack"
         /\ Ack(e, seq, ack).seq = seq /\ Ack(e, seq, ack).ack = ack
  BY Ends DEF Ack, Packet, Fits, Carries

LEMMA PlainPacket ==
  ASSUME NEW e \in End, NEW seq \in Seqs, NEW type \in {"fin", "keepalive"}
  PROVE  LET p == Packet(e, type, seq, 0, <<>>) IN
         Fits(p) /\ Carries(p) /\ p.to = Peer(e) /\ p.type = type
  BY Ends, ZeroSeq DEF Packet, Fits, Carries

LEMMA DataPacket ==
  ASSUME NEW e \in End, NEW seq \in Nat, NEW data \in Seq(Stream(e)), seq + Len(data) <= Top(e)
  PROVE  LET p == Packet(e, "data", seq, 0, data) IN
         /\ Fits(p) /\ p.to = Peer(e) /\ p.type = "data"
         /\ At(e, seq, data) => Carries(p)
  <1>1. seq \in Seqs
    <2>1. Len(data) \in Nat /\ Top(e) \in Nat
      BY LenProperties, Consts
    <2>. QED
      BY <2>1, SeqsBound
  <1>2. Peer(e) \in End /\ Peer(Peer(e)) = e
    BY Ends
  <1>. QED
    BY <1>1, <1>2, ZeroSeq DEF Packet, Fits, Carries

LEMMA ResentPacket ==
  ASSUME NEW e \in End, NEW s, NEW x, Entries(e, s, x)
  PROVE  LET p == Resent(e, s, x) IN
         /\ Fits(p) /\ p.to = Peer(e) /\ p.type = x.type /\ p.type \in {"syn", "data"}
         /\ At(e, s, x.data) => Carries(p)
  <1>1. /\ s \in Nat /\ x.data \in Seq(Stream(e)) /\ s + Len(x.data) <= Top(e)
        /\ x.type \in {"syn", "data"}
    BY DEF Entries, EntryRecords
  <1>2. CASE x.type = "data"
    <2>1. Resent(e, s, x) = Packet(e, "data", s, 0, x.data)
      BY <1>2 DEF Resent
    <2>. QED
      BY <1>1, <1>2, <2>1, DataPacket, ZenonT(60)
  <1>3. CASE x.type = "syn"
    <2>1. e = "client" /\ s = ISN["client"] /\ x.data = <<>>
      BY <1>3 DEF Entries
    <2>2. s \in Seqs
      <3>1. Len(x.data) = 0 /\ Top(e) \in Nat
        BY <2>1, Consts
      <3>. QED
        BY <1>1, <3>1, SeqsBound
    <2>. QED
      BY <1>3, <2>1, <2>2, ZeroSeq, Ends DEF Resent, Packet, Fits, Carries
  <1>. QED
    BY <1>1, <1>2, <1>3

------------------------------------------------------------------------------
(* The invariant holds at the start, and implies what is promised. *)
LEMMA InitIInv == Init => IInv
  <1>. SUFFICES ASSUME Init PROVE IInv
    OBVIOUS
  <1>. USE DEF Init
  <1>1. FlagShape /\ Phases
    BY DEF FlagShape, Phases, Idle, End
  <1>2. SeqShape
    BY ZeroSeq DEF SeqShape
  <1>3. WindowShape
    BY Consts DEF WindowShape
  <1>4. \A S : <<>> \in Seq(S) /\ Len(<<>>) = 0
    OBVIOUS
  <1>5. StreamShape
    BY <1>4, ZeroSeq, Consts DEF StreamShape
  <1>6. SendShape
    BY <1>4, Consts DEF SendShape
  <1>7. WorkerShape
    BY <1>4 DEF WorkerShape, WorkerRecords, Idle
  <1>8. QueueShape
    BY NoEntriesKeeps DEF QueueShape
  <1>9. NetShape
    BY DEF NetShape
  <1>10. Calls
    BY Ends DEF Calls
  <1>11. Bounded
    BY Consts, <1>4 DEF Bounded, BoundedAt, Held, Waiting, Idle
  <1>12. Sender /\ Carried
    BY DEF Sender, SenderAt, Carried
  <1>13. Kept
    BY NoEntriesKeeps DEF Kept
  <1>14. Receiver /\ Honest
    BY DEF Receiver, Honest, Owed
  <1>15. Handshake
    BY NoEntriesKeeps, Ends DEF Handshake, Early
  <1>. QED
    BY <1>1, <1>2, <1>3, <1>5, <1>6, <1>7, <1>8, <1>9, <1>10, <1>11, <1>12, <1>13, <1>14, <1>15
       DEF IInv, Shape, Aligned

LEMMA IInvImplies == IInv => StreamIntact /\ AckedIsReceived
  <1>. SUFFICES ASSUME IInv PROVE StreamIntact /\ AckedIsReceived
    OBVIOUS
  <1>. USE DEF IInv, Shape
  <1>1. TypeOK
    <2>1. /\ state["client"] \in {"idle", "connecting", "connected", "closed"}
          /\ state["server"] \in {"idle", "listening", "connected", "closed"}
          /\ {sendReady, recvReady, listenChan, calling, done} \subseteq [End -> BOOLEAN]
          /\ mishaps \subseteq {"two senders", "sequence reset"}
      BY Ends DEF FlagShape
    <2>2. {sendSeq, sendAck, receiveSeq, pendingAck, ackChan} \subseteq [End -> Seqs]
      BY Numbers DEF SeqShape, StreamShape
    <2>3. \A p \in net : p.to \in End /\ p.seq \in Seqs /\ p.ack \in Seqs
      BY DEF NetShape, Fits
    <2>4. ASSUME NEW e \in End
          PROVE  /\ cwnd[e] \in 2 * MTU..Window /\ ssthresh[e] \in 2 * MTU..Window
                 /\ dupAckCount[e] \in 0..DupAcks - 1
                 /\ sendBuffer[e] \in Seq(Stream(e)) /\ Len(sendBuffer[e]) <= BufferSize
                 /\ received[e] \in Seq(Stream(Peer(e)))
                 /\ taken[e] \in 0..Len(received[e]) /\ Len(received[e]) - taken[e] <= BufferSize
                 /\ accepted[e] \in 0..Bytes[e]
                 /\ EntriesOK(e, retransQueue[e]) /\ EntriesOK(e, expired[e])
                 /\ worker[e].pc \in {"idle", "loop", "read", "written"}
                 /\ worker[e].seq \in Seqs /\ worker[e].data \in Seq(Stream(e))
      <3>1. /\ cwnd[e] \in 2 * MTU..Window /\ ssthresh[e] \in 2 * MTU..Window
            /\ dupAckCount[e] \in 0..DupAcks - 1
        BY DEF WindowShape
      <3>2. /\ sendBuffer[e] \in Seq(Stream(e)) /\ Len(sendBuffer[e]) <= BufferSize
            /\ received[e] \in Seq(Stream(Peer(e))) /\ Len(received[e]) - taken[e] <= BufferSize
        BY DEF StreamShape, SendShape
      <3>3. taken[e] \in 0..Len(received[e])
        BY Streams DEF StreamShape
      <3>4. accepted[e] \in 0..Bytes[e]
        BY Numbers, Consts
      <3>5. ASSUME NEW q, Table(e, q) PROVE EntriesOK(e, q)
        <4>1. ASSUME NEW s \in DOMAIN q PROVE s \in Seqs
          <5>1. s \in Nat /\ Len(q[s].data) \in Nat /\ s + Len(q[s].data) <= Top(e)
            BY <3>5, LenProperties DEF Table, Entries, EntryRecords
          <5>2. s <= Top(e)
            BY <5>1, Consts
          <5>. QED
            BY <5>1, <5>2, SeqsBound
        <4>. QED
          BY <3>5, <4>1 DEF EntriesOK, Table, Entries, EntryRecords
      <3>6. /\ worker[e].pc \in {"idle", "loop", "read", "written"}
            /\ worker[e].seq \in Seqs /\ worker[e].data \in Seq(Stream(e))
        BY Numbers, Streams DEF WorkerShape, WorkerRecords
      <3>. QED
        BY <3>1, <3>2, <3>3, <3>4, <3>5, <3>6 DEF QueueShape
    <2>. QED
      BY <2>1, <2>2, <2>3, <2>4 DEF TypeOK
  <1>2. StreamIntact
    BY <1>1 DEF StreamIntact, Aligned, Receiver
  <1>3. AckedIsReceived
    <2>. SUFFICES ASSUME mishaps = {}, NEW e \in End, sendAck[e] # 0
                  PROVE  sendAck[e] - FirstSeq(e) <= Len(received[Peer(e)])
      BY DEF AckedIsReceived
    <2>1. sendAck[e] \in FirstSeq(e)..Reached(Peer(e))
      BY DEF Aligned, Honest, Owed
    <2>2. FirstSeq(e) \in Nat /\ Len(received[Peer(e)]) \in Nat /\ Peer(Peer(e)) = e
      BY Consts, Ends, Streams
    <2>. QED
      BY <2>1, <2>2 DEF Reached
  <1>. QED
    BY <1>2, <1>3

------------------------------------------------------------------------------
(* What a step leaves as it was.  Beside the one end, nothing of what is   *)
(* sent changes; and what has been received or given up stays so.          *)
Untouched(e) ==
    \A d \in End : d # e =>
       /\ worker'[d] = worker[d] /\ sendBuffer'[d] = sendBuffer[d]
       /\ accepted'[d] = accepted[d] /\ sendSeq'[d] = sendSeq[d]
       /\ state'[d] = state[d] /\ done'[d] = done[d]

LEMMA BoundedKept ==
  ASSUME Bounded, NEW e \in End, Untouched(e), BoundedAt(e)'
  PROVE  Bounded'
  <1>. SUFFICES ASSUME NEW d \in End, d # e PROVE BoundedAt(d)'
    BY DEF Bounded
  <1>1. /\ worker'[d] = worker[d] /\ sendBuffer'[d] = sendBuffer[d]
        /\ accepted'[d] = accepted[d] /\ sendSeq'[d] = sendSeq[d]
    BY DEF Untouched
  <1>. QED
    BY <1>1 DEF Bounded, BoundedAt, Held, Waiting

LEMMA SenderKept ==
  ASSUME Sender, NEW e \in End, Untouched(e), SenderAt(e)'
  PROVE  Sender'
  <1>. SUFFICES ASSUME NEW d \in End, d # e PROVE SenderAt(d)'
    BY DEF Sender
  <1>1. /\ worker'[d] = worker[d] /\ sendBuffer'[d] = sendBuffer[d]
        /\ accepted'[d] = accepted[d] /\ sendSeq'[d] = sendSeq[d]
        /\ state'[d] = state[d] /\ done'[d] = done[d]
    BY DEF Untouched
  <1>. QED
    BY <1>1, ZenonT(60) DEF Sender, SenderAt, Held, Waiting, At

(* Who holds or has held bytes of its application is connected. *)
LEMMA Connected ==
  ASSUME Shape, NEW e \in End, worker[e].pc # "idle"
  PROVE  state[e] = "connected" /\ ~done[e]
  <1>1. worker[e] # Idle
    BY DEF Idle
  <1>. QED
    BY <1>1 DEF Shape, FlagShape, Phases

LEMMA HoldsNothing ==
  ASSUME Shape, NEW e \in End, worker[e].pc \notin {"read", "written"}
  PROVE  Held(e) = 0 /\ worker[e].data = <<>> /\ worker[e].seq = 0
  BY DEF Shape, WorkerShape, WorkerRecords, Held

(* The packets: a step keeps what is said of them if it is true of those   *)
(* that are new.                                                           *)
Grows ==
    /\ mishaps \subseteq mishaps' /\ (Early' => Early)
    /\ \A e \in End : (done[e] => done'[e]) /\ Len(received[e]) <= Len(received'[e])
Sound(p) ==
    /\ Fits(p)
    /\ mishaps' = {} => Carries(p) /\ Says(p)' /\ (Early' => Opens(p))

LEMMA OwedStays ==
  ASSUME Shape, StreamShape', Grows, NEW e \in End, NEW ack, Owed(e, ack)
  PROVE  Owed(e, ack)'
  <1>1. CASE ack = 0
    BY <1>1 DEF Owed
  <1>2. CASE ack \in FirstSeq(e)..Reached(Peer(e))
    <2>1. /\ Len(received[Peer(e)]) \in Nat /\ Len(received'[Peer(e)]) \in Nat
          /\ Len(received[Peer(e)]) <= Len(received'[Peer(e)])
      BY Streams, Ends, LenProperties DEF Grows, StreamShape
    <2>2. FirstSeq(e) \in Nat /\ FirstSeq(Peer(Peer(e))) \in Nat
      BY Consts, Ends
    <2>3. Reached(Peer(e)) <= Reached(Peer(e))' /\ Reached(Peer(e)) \in Nat
          /\ Reached(Peer(e))' \in Nat
      BY <2>1, <2>2 DEF Reached
    <2>4. ack \in FirstSeq(e)..Reached(Peer(e))'
      BY <1>2, <2>2, <2>3
    <2>. QED
      BY <2>4 DEF Owed
  <1>. QED
    BY <1>1, <1>2 DEF Owed

LEMMA SaysStays ==
  ASSUME Shape, StreamShape', Grows, NEW p, Fits(p), Says(p)
  PROVE  Says(p)'
  <1>1. Owed(p.to, p.ack) => Owed(p.to, p.ack)'
    BY OwedStays DEF Fits
  <1>2. Peer(p.to) \in End
    BY Ends DEF Fits
  <1>. QED
    BY <1>1, <1>2 DEF Says, Grows

LEMMA Network ==
  ASSUME IInv, StreamShape', Grows, \A p \in net' : p \in net \/ Sound(p)
  PROVE  /\ NetShape'
         /\ mishaps' = {} => /\ mishaps = {} /\ Carried'
                            /\ \A p \in net' : Says(p)' /\ (Early' => Opens(p))
  <1>1. NetShape'
    BY DEF IInv, Shape, NetShape, Sound
  <1>2. ASSUME mishaps' = {}
        PROVE  /\ mishaps = {} /\ Carried'
               /\ \A p \in net' : Says(p)' /\ (Early' => Opens(p))
    <2>1. mishaps = {} /\ (Early' => Early)
      BY <1>2 DEF Grows
    <2>2. \A p \in net : Fits(p) /\ Carries(p) /\ Says(p) /\ (Early => Opens(p))
      BY <2>1 DEF IInv, Shape, NetShape, Aligned, Carried, Honest, Handshake, Early
    <2>3. \A p \in net' : Carries(p)
      BY <1>2, <2>2 DEF Sound
    <2>4. \A p \in net' : Says(p)'
      <3>1. ASSUME NEW p \in net', p \in net PROVE Says(p)'
        BY <2>2, <3>1, SaysStays DEF IInv
      <3>2. ASSUME NEW p \in net', Sound(p) PROVE Says(p)'
        BY <1>2, <3>2 DEF Sound
      <3>. QED
        BY <3>1, <3>2
    <2>5. \A p \in net' : Early' => Opens(p)
      BY <1>2, <2>1, <2>2 DEF Sound
    <2>. QED
      BY <2>1, <2>3, <2>4, <2>5 DEF Carried
  <1>. QED
    BY <1>1, <1>2

(* What the network adds is among the packets an action sends. *)
LEMMA New ==
  ASSUME NEW left, NEW packets, net' \in UnderWay(left, packets), left \subseteq net,
         \A p \in packets : Open(p.to) => Sound(p)
  PROVE  \A p \in net' : p \in net \/ Sound(p)
  BY Arrives

LEMMA SoundAck ==
  ASSUME NEW e \in End, NEW seq \in Seqs, NEW ack \in Seqs,
         mishaps' = {} => Owed(Peer(e), ack)',
         mishaps' = {} /\ Early' /\ e = "server" => seq = ISN["server"]
  PROVE  \A p : p = Ack(e, seq, ack) => Sound(p)
  <1>. SUFFICES ASSUME NEW p, p = Ack(e, seq, ack) PROVE Sound(p)
    OBVIOUS
  <1>1. /\ Fits(p) /\ Carries(p) /\ p.to = Peer(e) /\ p.type = "ack"
        /\ p.seq = seq /\ p.ack = ack
    BY AckPacket
  <1>2. mishaps' = {} => Says(p)'
    BY <1>1 DEF Says
  <1>3. mishaps' = {} /\ Early' => Opens(p)
    BY <1>1, Ends DEF Opens, End, Peer
  <1>. QED
    BY <1>1, <1>2, <1>3 DEF Sound

(* What sendPendingData may send is in the send buffer. *)
LEMMA AllowanceFits ==
  ASSUME Shape, NEW e \in End, NEW acked \in Int, NEW wnd \in Nat
  PROVE  Allowance(e, acked, wnd) \in Nat /\ Allowance(e, acked, wnd) <= Waiting(e)
  <1>. DEFINE inFlight == (sendSeq[e] - acked) % SeqSpace
              window == Smaller(Window, wnd)
  <1>1. inFlight \in Int
    <2>1. sendSeq[e] - acked \in Int /\ SeqSpace \in Nat /\ SeqSpace > 0
      BY Numbers, Consts
    <2>. QED
      BY <2>1
  <1>2. window \in Nat /\ Waiting(e) \in Nat
    BY Consts, Numbers DEF Smaller
  <1>3. Allowance(e, acked, wnd) =
           IF inFlight >= window THEN 0 ELSE Smaller(window - inFlight, Waiting(e))
    BY DEF Allowance, Waiting
  <1>. HIDE DEF inFlight, window
  <1>. QED
    BY <1>1, <1>2, <1>3 DEF Smaller

LEMMA ModSmall == \A n \in Nat : n < SeqSpace => n % SeqSpace = n
  BY Consts

(* The bytes of a segment that is appended. *)
LEMMA Appended ==
  ASSUME NEW e \in End, NEW d \in End, NEW x \in Seq(Stream(d)), NEW y \in Seq(Stream(d)),
         NEW s \in Nat, At(e, s, x), At(e, s + Len(x), y)
  PROVE  At(e, s, x \o y)
  <1>1. Len(x) \in Nat /\ Len(y) \in Nat /\ DOMAIN x = 1..Len(x) /\ DOMAIN y = 1..Len(y)
    BY LenProperties
  <1>2. x \o y \in Seq(Stream(d)) /\ Len(x \o y) = Len(x) + Len(y)
        /\ \A i \in 1..Len(x) + Len(y) :
              (x \o y)[i] = IF i <= Len(x) THEN x[i] ELSE y[i - Len(x)]
    BY ConcatProperties
  <1>3. DOMAIN (x \o y) = 1..Len(x) + Len(y)
    BY <1>2, LenProperties
  <1>. DEFINE m == Len(x)
              n == Len(y)
              z == x \o y
  <1>4. FirstSeq(e) \in Int
    BY Consts
  <1>. HIDE DEF m, n, z
  <1>5. ASSUME NEW i \in 1..m + n PROVE z[i] = s - FirstSeq(e) + i
    <2>1. m \in Nat /\ n \in Nat
      BY <1>1 DEF m, n
    <2>2. CASE i <= m
      <3>1. i \in DOMAIN x /\ z[i] = x[i]
        BY <1>1, <1>2, <2>1, <2>2 DEF m, n, z
      <3>. QED
        BY <3>1 DEF At
    <2>3. CASE i > m
      <3>1. i - m \in DOMAIN y /\ z[i] = y[i - m]
        BY <1>1, <1>2, <2>1, <2>3 DEF m, n, z
      <3>2. y[i - m] = (s + m) - FirstSeq(e) + (i - m)
        BY <3>1 DEF At, m
      <3>. QED
        BY <1>4, <2>1, <3>1, <3>2
    <2>. QED
      BY <2>1, <2>2, <2>3
  <1>. QED
    BY <1>3, <1>5 DEF At, m, n, z

(* An acknowledgement of what has been received is one of them. *)
LEMMA ReceivedIsOwed ==
  ASSUME Shape, Receiver, NEW e \in End
  PROVE  Owed(Peer(e), receiveSeq[e])
  <1>1. Peer(Peer(e)) = e /\ Len(received[e]) \in Nat /\ FirstSeq(Peer(e)) \in Nat
    BY Ends, Streams, Consts
  <1>2. receiveSeq[e] = 0 \/ receiveSeq[e] = Reached(e)
    BY DEF Receiver
  <1>. QED
    BY <1>1, <1>2 DEF Owed, Reached

LEMMA AckSounds ==
  ASSUME IInv, StreamShape', Grows, NEW e \in End, NEW ack \in Seqs,
         mishaps = {} => Owed(Peer(e), ack) /\ (Early => e # "server")
  PROVE  \A p : p = Ack(e, sendSeq[e], ack) => Sound(p)
  <1>1. sendSeq[e] \in Seqs
    BY Numbers DEF IInv
  <1>2. mishaps' = {} => mishaps = {} /\ (Early' => Early)
    BY DEF Grows
  <1>3. mishaps' = {} => Owed(Peer(e), ack)'
    BY <1>2, OwedStays, Ends DEF IInv
  <1>. QED
    BY <1>1, <1>2, <1>3, SoundAck

(* What is sent when nothing else happens. *)
OnlyNet ==
    UNCHANGED <<state, sendBuffer, sendReady, mishaps, windowVars, streamVars, appVars,
                callVars, signalVars, workerVars>>

------------------------------------------------------------------------------
(* Each action keeps the invariant: first the calls of the application. *)
(* Connect sends the SYN and keeps it. *)
LEMMA ConnectKeeps ==
  ASSUME IInv, Connect
  PROVE  IInv'
  <1>. USE DEF IInv, Shape
  <1>. DEFINE syn == Resent("client", ISN["client"], Entry("syn", <<>>))
  <1>1. retransQueue' = [retransQueue EXCEPT !["client"] =
                            With(@, ISN["client"], Entry("syn", <<>>))]
    BY DEF Connect
  <1>2. Entries("client", ISN["client"], Entry("syn", <<>>))
    BY Consts, Ends DEF Entries, Entry, EntryRecords
  <1>3. net' \in UnderWay(net, {syn})
    BY DEF Connect, Transmit, Resent, Entry
  <1>4. Fits(syn) /\ Carries(syn) /\ syn.type = "syn" /\ syn.to = "server"
    <2>1. syn.type = "syn" /\ syn.to = "server"
      BY Ends DEF Resent, Packet, Entry
    <2>. QED
      BY <1>2, <2>1, ResentPacket, Ends DEF Carries
  <1>5. accepted["client"] = 0
    BY Ends DEF Connect, Phases
  <1>6. Untouched("client")
    BY DEF Untouched, Connect, workerVars, appVars, FlagShape, SeqShape
  <1>. HIDE DEF syn
  <1>20. WindowShape' /\ StreamShape' /\ SendShape' /\ WorkerShape'
    BY DEF Connect, appVars, streamVars, workerVars, WindowShape, StreamShape, SendShape,
       WorkerShape
  <1>21. FlagShape'
    BY Ends DEF Connect, signalVars, streamVars, FlagShape
  <1>22. SeqShape'
    BY Consts, Ends DEF Connect, signalVars, SeqShape
  <1>23. QueueShape'
    BY <1>1, <1>2, WithKeeps, Ends DEF Connect, workerVars, QueueShape
  <1>24. Phases'
    BY DEF Connect, workerVars, appVars, Phases
  <1>25. Calls'
    <2>1. state["client"] = "idle" /\ accepted["client"] = 0
      BY Ends DEF Connect, Phases
    <2>2. /\ state' = [state EXCEPT !["client"] = "connecting"]
          /\ calling' = [calling EXCEPT !["client"] = TRUE]
          /\ sendSeq' = [sendSeq EXCEPT !["client"] = ISN["client"]]
          /\ UNCHANGED <<accepted, listenChan>>
      BY DEF Connect, appVars, signalVars
    <2>. QED
      BY <2>1, <2>2, Ends DEF FlagShape, SeqShape, Calls
  <1>26. Bounded'
    <2>1. UNCHANGED <<worker, sendBuffer, accepted>> /\ worker["client"] = Idle
      BY Ends DEF Connect, workerVars, appVars, Phases
    <2>2. Held("client")' = 0 /\ Waiting("client")' = 0 /\ accepted'["client"] = 0
      BY <1>5, <2>1, NothingYet, Ends DEF Held, Waiting
    <2>3. sendSeq'["client"] = ISN["client"] /\ worker'["client"].seq = 0
      BY <2>1, Ends DEF Connect, SeqShape, Idle
    <2>4. BoundedAt("client")'
      BY <2>2, <2>3, Consts, Ends DEF BoundedAt
    <2>. QED
      BY <1>6, <2>4, BoundedKept, Ends
  <1>27. Grows
    BY Streams DEF Connect, streamVars, Grows, Early
  <1>28. \A p \in net' : p \in net \/ Sound(p)
    <2>1. Sound(syn)
      BY <1>4 DEF Sound, Says, Opens
    <2>. QED
      BY <1>3, <2>1, New
  <1>29. NetShape'
    BY <1>20, <1>27, <1>28, Network
  <1>30. ASSUME mishaps' = {} PROVE Aligned'
    <2>. USE DEF Aligned
    <2>19. /\ mishaps = {} /\ Aligned /\ Carried'
           /\ \A p \in net' : Says(p)' /\ (Early' => Opens(p))
      BY <1>30, <1>20, <1>27, <1>28, Network
    <2>20. Receiver'
      BY <2>19 DEF Connect, streamVars, Receiver, Owed, Reached
    <2>21. Sender'
      <3>1. SenderAt("client")'
        BY Ends DEF SenderAt, Connect, FlagShape
      <3>. QED
        BY <1>6, <2>19, <3>1, SenderKept, Ends
    <2>22. Kept'
      <3>1. At("client", ISN["client"], Entry("syn", <<>>).data)
        BY EntryFields DEF At
      <3>. QED
        BY <1>1, <1>2, <2>19, <3>1, WithKeeps, Ends DEF Connect, workerVars, QueueShape, Kept
    <2>23. Honest'
      <3>1. \A d \in End : Owed(d, sendAck[d])
        BY <2>19 DEF Honest
      <3>2. \A d \in End : \A ack : Owed(d, ack) => Owed(d, ack)'
        BY <1>20, <1>27, OwedStays
      <3>. QED
        BY <2>19, <3>1, <3>2 DEF Connect, Honest
    <2>24. Handshake'
      <3>1. Early
        BY DEF Connect, Early
      <3>3. OnlySyn(retransQueue'["client"])
        BY <1>1, <1>2, <2>19, <3>1, WithKeeps, Ends, EntryFields DEF QueueShape, Handshake
      <3>. QED
        BY <2>19, <3>1, <3>3 DEF Connect, streamVars, workerVars, Handshake
    <2>. QED
      BY <2>19, <2>20, <2>21, <2>22, <2>23, <2>24
  <1>. QED
    BY <1>20, <1>21, <1>22, <1>23, <1>24, <1>25, <1>26, <1>29, <1>30

(* Connect returns with nothing sent but the SYN, which takes a number. *)
LEMMA ConnectReturnsKeeps ==
  ASSUME IInv, ConnectReturns
  PROVE  IInv'
  <1>. USE DEF IInv, Shape
  <1>1. /\ sendSeq["client"] = ISN["client"] /\ accepted["client"] = 0
        /\ Held("client") = 0 /\ Waiting("client") = 0
    <2>1. sendSeq["client"] = ISN["client"] /\ accepted["client"] = 0
      BY DEF ConnectReturns, Calls
    <2>. QED
      BY <2>1, NothingYet, Ends
  <1>2. /\ Held("client")' = 0 /\ Waiting("client")' = 0 /\ accepted'["client"] = 0
        /\ sendSeq'["client"] = ISN["client"] + 1 /\ worker'["client"] = worker["client"]
    BY <1>1, Ends DEF ConnectReturns, workerVars, appVars, SeqShape, Held, Waiting
  <1>3. Untouched("client")
    BY DEF Untouched, ConnectReturns, workerVars, appVars, FlagShape, SeqShape
  <1>20. WindowShape' /\ StreamShape' /\ SendShape' /\ WorkerShape' /\ QueueShape' /\
     NetShape'
    BY DEF ConnectReturns, appVars, streamVars, workerVars, WindowShape, StreamShape,
       SendShape, WorkerShape, QueueShape, NetShape
  <1>21. FlagShape'
    BY Ends DEF ConnectReturns, signalVars, streamVars, FlagShape
  <1>22. SeqShape'
    BY Ends DEF ConnectReturns, signalVars, SeqShape
  <1>23. Phases'
    BY DEF ConnectReturns, workerVars, appVars, Phases
  <1>24. Calls'
    BY Ends DEF ConnectReturns, appVars, signalVars, FlagShape, SeqShape, Calls
  <1>25. Bounded'
    <2>1. worker'["client"].seq + 0 <= ISN["client"] + 1
      BY <1>1, <1>2, Numbers, Ends DEF Bounded, BoundedAt
    <2>2. BoundedAt("client")'
      BY <1>2, <2>1, Consts, Ends DEF BoundedAt
    <2>. QED
      BY <1>3, <2>2, BoundedKept, Ends
  <1>26. ASSUME mishaps' = {} PROVE Aligned'
    <2>. USE DEF Aligned
    <2>19. mishaps = {} /\ Aligned
      BY <1>26 DEF ConnectReturns
    <2>20. Kept' /\ Carried' /\ Receiver' /\ Honest'
      BY <2>19 DEF ConnectReturns, streamVars, workerVars, Kept, Carried, Receiver, Owed,
         Reached, Honest, Says
    <2>21. Sender'
      <3>1. SenderAt("client")'
        <4>1. ~done["client"] => worker["client"] = Idle
          BY Ends DEF ConnectReturns, Calls, Phases
        <4>2. \A s \in Nat : At("client", s, worker'["client"].data)
                           /\ At("client", s, sendBuffer'["client"])
          BY <1>1, NothingYet, Ends DEF ConnectReturns, workerVars
        <4>3. FirstSeq("client") = ISN["client"] + 1 /\ ISN["client"] \in Nat
          BY Consts, Ends DEF FirstSeq
        <4>4. done'["client"] = done["client"] /\ worker'["client"] = worker["client"]
          BY DEF ConnectReturns, workerVars
        <4>. QED
          BY <1>2, <4>1, <4>2, <4>3, <4>4 DEF SenderAt, Idle
      <3>. QED
        BY <1>3, <2>19, <3>1, SenderKept, Ends
    <2>22. Handshake'
      BY Ends DEF ConnectReturns, FlagShape, Handshake, Early
    <2>. QED
      BY <2>20, <2>21, <2>22
  <1>. QED
    BY <1>20, <1>21, <1>22, <1>23, <1>24, <1>25, <1>26

LEMMA ListenKeeps ==
  ASSUME IInv, Listen
  PROVE  IInv'
  <1>. USE DEF IInv, Shape
  <1>20. SeqShape' /\ WindowShape' /\ StreamShape' /\ SendShape' /\ WorkerShape' /\
     QueueShape' /\ NetShape' /\ Bounded'
    BY DEF Listen, appVars, signalVars, streamVars, windowVars, workerVars, SeqShape,
       WindowShape, StreamShape, SendShape, WorkerShape, QueueShape, NetShape, Bounded,
       BoundedAt, Held, Waiting
  <1>21. FlagShape'
    BY Ends DEF Listen, signalVars, streamVars, FlagShape
  <1>22. Phases'
    BY DEF Listen, workerVars, appVars, Phases
  <1>23. Calls'
    BY Ends DEF Listen, appVars, signalVars, windowVars, FlagShape, Calls
  <1>24. ASSUME mishaps' = {} PROVE Aligned'
    <2>. USE DEF Aligned
    <2>19. mishaps = {} /\ Aligned
      BY <1>24 DEF Listen
    <2>20. Kept' /\ Carried' /\ Receiver' /\ Honest'
      BY <2>19 DEF Listen, streamVars, windowVars, workerVars, Kept, Carried, Receiver, Owed,
         Reached, Honest, Says
    <2>21. Sender'
      <3>1. SenderAt("server")'
        BY Ends DEF Listen, FlagShape, SenderAt
      <3>2. Untouched("server")
        BY DEF Untouched, Listen, windowVars, workerVars, appVars, FlagShape
      <3>. QED
        BY <2>19, <3>1, <3>2, SenderKept, Ends
    <2>22. Handshake'
      BY <2>19, Ends DEF Listen, streamVars, windowVars, workerVars, FlagShape, Handshake,
         Early
    <2>. QED
      BY <2>20, <2>21, <2>22
  <1>. QED
    BY <1>20, <1>21, <1>22, <1>23, <1>24

LEMMA ListenReturnsKeeps ==
  ASSUME IInv, ListenReturns
  PROVE  IInv'
  <1>. USE DEF IInv, Shape
  <1>20. SeqShape' /\ WindowShape' /\ StreamShape' /\ SendShape' /\ WorkerShape' /\
     QueueShape' /\ NetShape' /\ Bounded'
    BY DEF ListenReturns, appVars, streamVars, windowVars, workerVars, SeqShape, WindowShape,
       StreamShape, SendShape, WorkerShape, QueueShape, NetShape, Bounded, BoundedAt, Held,
       Waiting
  <1>21. FlagShape'
    BY Ends DEF ListenReturns, signalVars, streamVars, FlagShape
  <1>22. Phases'
    BY DEF ListenReturns, workerVars, appVars, Phases
  <1>23. Calls'
    BY Ends DEF ListenReturns, appVars, windowVars, FlagShape, Calls
  <1>24. ASSUME mishaps' = {} PROVE Aligned'
    <2>. USE DEF Aligned
    <2>19. mishaps = {} /\ Aligned
      BY <1>24 DEF ListenReturns
    <2>20. Kept' /\ Carried' /\ Receiver' /\ Honest'
      BY <2>19 DEF ListenReturns, streamVars, windowVars, workerVars, Kept, Carried, Receiver,
         Owed, Reached, Honest, Says
    <2>21. Sender'
      <3>1. UNCHANGED <<worker, sendBuffer, accepted, done, sendSeq>>
        BY DEF ListenReturns, workerVars, appVars, windowVars
      <3>2. Untouched("server")
        BY <3>1 DEF Untouched, ListenReturns, FlagShape
      <3>3. /\ state["server"] = "listening" /\ sendSeq["server"] = ISN["server"]
            /\ worker["server"] = Idle /\ accepted["server"] = 0
        BY Ends DEF ListenReturns, Calls, Phases
      <3>4. Held("server")' = 0 /\ Waiting("server")' = 0
        BY <3>1, <3>3, NothingYet, Ends DEF Held, Waiting
      <3>5. \A s \in Nat : At("server", s, worker'["server"].data)
                         /\ At("server", s, sendBuffer'["server"])
        BY <3>1, <3>3, NothingYet, Ends
      <3>6. FirstSeq("server") = ISN["server"] /\ ISN["server"] \in Nat
        BY Consts, Ends DEF FirstSeq
      <3>7. SenderAt("server")'
        BY <3>1, <3>3, <3>4, <3>5, <3>6 DEF SenderAt, Idle
      <3>. QED
        BY <2>19, <3>2, <3>7, SenderKept, Ends
    <2>22. Handshake'
      BY <2>19, Ends DEF ListenReturns, streamVars, windowVars, workerVars, FlagShape,
         Handshake, Early
    <2>. QED
      BY <2>20, <2>21, <2>22
  <1>. QED
    BY <1>20, <1>21, <1>22, <1>23, <1>24

(* Close ends the workers and sends a FIN, whoever calls it. *)
CallEnds(e) == calling' = calling \/ calling' = [calling EXCEPT ![e] = FALSE]
AllSound(packets) == \A p \in packets : Open(p.to) => Sound(p)

LEMMA ClosedKeeps ==
  ASSUME IInv, NEW e \in End, NEW packets, CanClose(e), Closed(e, packets),
         CallEnds(e), AllSound(packets)
  PROVE  IInv'
  <1>. USE DEF IInv, Shape
  <1>1. Idle.data = <<>> /\ Idle.seq = 0 /\ Idle.pc = "idle" /\ <<>> \in Seq(Stream(e))
        /\ Idle \in WorkerRecords(e) /\ Len(<<>>) = 0
    BY DEF Idle, WorkerRecords
  <1>2. Untouched(e)
    BY DEF Untouched, Closed, windowVars, appVars, FlagShape, WorkerShape
  <1>20. SeqShape' /\ WindowShape' /\ StreamShape' /\ SendShape'
    BY DEF Closed, appVars, signalVars, streamVars, windowVars, SeqShape, WindowShape,
       StreamShape, SendShape
  <1>21. FlagShape'
    BY Ends DEF CallEnds, Closed, signalVars, streamVars, FlagShape
  <1>22. WorkerShape'
    BY <1>1 DEF Closed, WorkerShape
  <1>23. QueueShape'
    BY NoEntriesKeeps DEF Closed, windowVars, QueueShape
  <1>24. Phases'
    BY DEF Closed, appVars, FlagShape, WorkerShape, QueueShape, Phases
  <1>25. Calls'
    <2>1. /\ \A d \in End : calling'[d] => calling[d]
          /\ \A d \in End : d # e => calling'[d] = calling[d] /\ state'[d] = state[d]
          /\ state'[e] = "closed" /\ state[e] \in {"connecting", "connected"}
      BY DEF CallEnds, Closed, CanClose, FlagShape
    <2>2. UNCHANGED <<sendSeq, accepted, listenChan>>
      BY DEF Closed, windowVars, appVars, signalVars
    <2>. QED
      BY <2>1, <2>2, Ends DEF Calls, FlagShape
  <1>26. Bounded'
    <2>1. BoundedAt(e)
      BY DEF Bounded
    <2>2. Held(e)' = 0 /\ Waiting(e)' = Waiting(e) /\ worker'[e].seq = 0
      BY <1>1 DEF Closed, WorkerShape, Held, Waiting
    <2>3. sendSeq'[e] = sendSeq[e] /\ accepted'[e] = accepted[e]
      BY DEF Closed, windowVars, appVars
    <2>4. BoundedAt(e)'
      BY <2>1, <2>2, <2>3, Numbers, Consts DEF BoundedAt
    <2>. QED
      BY <1>2, <2>4, BoundedKept
  <1>27. Grows
    <2>1. UNCHANGED <<mishaps, received>> /\ (Early' => Early) /\ \A d \in End : done[d] => done'[d]
      BY Ends DEF Closed, streamVars, FlagShape, Early
    <2>. QED
      BY <2>1, Streams DEF Grows
  <1>28. \A p \in net' : p \in net \/ Sound(p)
    <2>. DEFINE fin == Packet(e, "fin", sendSeq[e], 0, <<>>)
    <2>1. /\ Fits(fin) /\ Carries(fin) /\ fin.to = Peer(e) /\ fin.type = "fin"
      BY PlainPacket, Numbers
    <2>. HIDE DEF fin
    <2>2. ASSUME NEW p, p = fin PROVE Sound(p)
      <3>1. done'[e] /\ Peer(p.to) = e
        BY <2>1, <2>2, Ends DEF Closed, FlagShape
      <3>2. Early' => Opens(p)
        <4>1. e = "client" => ~Early'
          BY Ends DEF Closed, FlagShape, Early
        <4>2. p.to = "server" => e = "client"
          BY <2>1, <2>2, Ends DEF End, Peer
        <4>. QED
          BY <2>1, <2>2, <4>1, <4>2 DEF Opens
      <3>. QED
        BY <2>1, <2>2, <3>1, <3>2 DEF Sound, Says
    <2>3. net' \in UnderWay({p \in net : p.to # e}, packets \cup {fin})
      BY DEF Closed, fin
    <2>4. \A p \in packets \cup {fin} : Open(p.to) => Sound(p)
      BY <2>2 DEF AllSound
    <2>. QED
      BY <2>3, <2>4, New
  <1>29. NetShape'
    BY <1>20, <1>27, <1>28, Network
  <1>30. ASSUME mishaps' = {} PROVE Aligned'
    <2>. USE DEF Aligned
    <2>19. /\ mishaps = {} /\ Aligned /\ Carried'
           /\ \A p \in net' : Says(p)' /\ (Early' => Opens(p))
      BY <1>30, <1>20, <1>27, <1>28, Network
    <2>20. Receiver'
      BY <2>19 DEF Closed, streamVars, Receiver, Owed, Reached
    <2>21. Sender'
      <3>1. SenderAt(e)'
        BY DEF SenderAt, Closed, FlagShape
      <3>. QED
        BY <1>2, <2>19, <3>1, SenderKept
    <2>22. Kept'
      BY <2>19, NoEntriesKeeps DEF Closed, windowVars, QueueShape, Kept
    <2>23. Honest'
      <3>1. \A d \in End : Owed(d, sendAck[d])
        BY <2>19 DEF Honest
      <3>2. \A d \in End : \A ack : Owed(d, ack) => Owed(d, ack)'
        BY <1>20, <1>27, OwedStays
      <3>. QED
        BY <2>19, <3>1, <3>2 DEF Closed, windowVars, Honest
    <2>24. Handshake'
      <3>1. Early' => Early
        BY <1>27 DEF Grows
      <3>2. /\ UNCHANGED <<pendingAck, retransQueue>>
            /\ expired'["client"] = expired["client"] \/ expired'["client"] = NoEntries
        BY Ends DEF Closed, streamVars, windowVars, QueueShape
      <3>. QED
        BY <2>19, <3>1, <3>2, NoEntriesKeeps, Ends DEF Handshake
    <2>. QED
      BY <2>19, <2>20, <2>21, <2>22, <2>23, <2>24
  <1>. QED
    BY <1>20, <1>21, <1>22, <1>23, <1>24, <1>25, <1>26, <1>29, <1>30

LEMMA CloseKeeps ==
  ASSUME IInv, NEW e \in End, Close(e)
  PROVE  IInv'
  <1>1. CallEnds(e) /\ AllSound({})
    BY DEF Close, CallEnds, AllSound
  <1>. QED
    BY <1>1, ClosedKeeps DEF Close

LEMMA StillOpenKeeps ==
  ASSUME IInv, NEW e \in End, calling[e], ~CanClose(e),
         calling' = [calling EXCEPT ![e] = FALSE],
         UNCHANGED <<state, done, sendBuffer, sendReady, net, mishaps, windowVars, streamVars,
                     appVars, signalVars, workerVars>>
  PROVE  IInv'
  <1>. USE DEF IInv, Shape
  <1>20. SeqShape' /\ WindowShape' /\ StreamShape' /\ SendShape' /\ WorkerShape' /\
     QueueShape' /\ NetShape' /\ Phases' /\ Bounded'
    BY DEF appVars, signalVars, streamVars, windowVars, workerVars, SeqShape, WindowShape,
       StreamShape, SendShape, WorkerShape, QueueShape, NetShape, Phases, Bounded, BoundedAt,
       Held, Waiting
  <1>21. FlagShape'
    BY DEF FlagShape, signalVars, streamVars
  <1>22. Calls'
    <2>1. /\ calling["client"] /\ e = "client" => state[e] # "connecting"
      BY DEF CanClose, Phases
    <2>2. \A d \in End : (calling'[d] => calling[d]) /\ (d # e => calling'[d] = calling[d])
      BY DEF FlagShape
    <2>. QED
      BY <2>1, <2>2, Ends DEF appVars, signalVars, windowVars, FlagShape, Calls
  <1>23. ASSUME mishaps' = {} PROVE Aligned'
    <2>. USE DEF Aligned
    <2>19. mishaps = {} /\ Aligned
      BY <1>23
    <2>20. Sender' /\ Kept' /\ Carried' /\ Receiver' /\ Honest' /\ Handshake'
      BY <2>19 DEF appVars, streamVars, windowVars, workerVars, Sender, SenderAt,
         Held, Waiting, Kept, Carried, Receiver, Owed, Reached, Honest, Says, Handshake, Early
    <2>. QED
      BY <2>20
  <1>. QED
    BY <1>20, <1>21, <1>22, <1>23

LEMMA CallFailsKeeps ==
  ASSUME IInv, NEW e \in End, CallFails(e)
  PROVE  IInv'
  <1>1. CASE CanClose(e) /\ Closed(e, {})
    <2>1. CallEnds(e) /\ AllSound({})
      BY DEF CallFails, CallEnds, AllSound
    <2>. QED
      BY <1>1, <2>1, ClosedKeeps
  <1>2. CASE ~CanClose(e)
    BY <1>2, StillOpenKeeps DEF CallFails
  <1>. QED
    BY <1>1, <1>2 DEF CallFails

(* Send appends a segment to the send buffer. *)
LEMMA SendKeeps ==
  ASSUME IInv, NEW e \in End, Send(e)
  PROVE  IInv'
  <1>. USE DEF IInv, Shape
  <1>1. PICK n \in 1..MTU :
           /\ state[e] = "connected"
           /\ accepted[e] + n <= Bytes[e] /\ Len(sendBuffer[e]) + n <= BufferSize
           /\ sendBuffer' = [sendBuffer EXCEPT ![e] = @ \o [i \in 1..n |-> accepted[e] + i]]
           /\ accepted' = [accepted EXCEPT ![e] = @ + n]
    BY DEF Send
  <1>. DEFINE seg == [i \in 1..n |-> accepted[e] + i]
  <1>2. n \in Nat /\ accepted[e] \in Nat /\ accepted'[e] = accepted[e] + n
        /\ accepted'[e] <= Bytes[e]
    BY <1>1, Consts DEF SendShape
  <1>3. /\ seg \in Seq(Stream(e)) /\ Len(seg) = n /\ DOMAIN seg = 1..n
        /\ sendBuffer'[e] = sendBuffer[e] \o seg
        /\ sendBuffer'[e] \in Seq(Stream(e)) /\ Len(sendBuffer'[e]) = Len(sendBuffer[e]) + n
    <2>1. \A i \in 1..n : accepted[e] + i \in Stream(e)
      BY <1>1, <1>2, Consts DEF Stream
    <2>2. seg \in [1..n -> Stream(e)]
      BY <2>1
    <2>3. seg \in Seq(Stream(e)) /\ Len(seg) = n /\ DOMAIN seg = 1..n
      BY <1>2, <2>2, IsASeq, LenProperties
    <2>4. sendBuffer'[e] = sendBuffer[e] \o seg
      BY <1>1 DEF SendShape
    <2>. HIDE DEF seg
    <2>. QED
      BY <2>3, <2>4, ConcatProperties, Streams
  <1>4. /\ Waiting(e)' = Waiting(e) + n /\ Held(e)' = Held(e) /\ sendSeq'[e] = sendSeq[e]
        /\ worker'[e] = worker[e]
    BY <1>3 DEF Send, windowVars, workerVars, Waiting, Held
  <1>5. Untouched(e)
    BY <1>1 DEF Untouched, Send, windowVars, workerVars, callVars, SendShape
  <1>. HIDE DEF seg
  <1>20. SeqShape' /\ WindowShape' /\ StreamShape' /\ WorkerShape' /\ QueueShape' /\ NetShape'
    BY DEF Send, signalVars, streamVars, windowVars, workerVars, SeqShape, WindowShape,
       StreamShape, WorkerShape, QueueShape, NetShape
  <1>21. FlagShape'
    BY DEF Send, callVars, signalVars, streamVars, FlagShape
  <1>22. SendShape'
    <2>1. ASSUME NEW d \in End, d # e
          PROVE  sendBuffer'[d] = sendBuffer[d] /\ accepted'[d] = accepted[d]
      BY <1>1, <2>1 DEF SendShape
    <2>2. Len(sendBuffer'[e]) <= BufferSize
      BY <1>1, <1>3, Streams
    <2>3. sendBuffer' = [d \in End |-> sendBuffer'[d]]
      <3>1. sendBuffer' = [sendBuffer EXCEPT ![e] = @ \o seg]
        BY <1>1 DEF seg
      <3>. QED
        BY <3>1 DEF SendShape
    <2>4. accepted' \in [End -> Nat]
      <3>1. accepted[e] + n \in Nat
        BY <1>2
      <3>. QED
        BY <1>1, <3>1 DEF SendShape
    <2>. QED
      BY <1>1, <1>2, <1>3, <2>1, <2>2, <2>3, <2>4 DEF SendShape
  <1>23. Phases'
    BY <1>1 DEF Send, workerVars, callVars, SendShape, Phases
  <1>24. Calls'
    BY <1>1, Ends DEF Send, callVars, signalVars, windowVars, SendShape, Calls
  <1>25. Bounded'
    <2>1. BoundedAt(e)
      BY DEF Bounded
    <2>2. BoundedAt(e)'
      BY <1>2, <1>4, <2>1, Numbers, Consts DEF BoundedAt
    <2>. QED
      BY <1>5, <2>2, BoundedKept
  <1>26. ASSUME mishaps' = {} PROVE Aligned'
    <2>. USE DEF Aligned
    <2>19. mishaps = {} /\ Aligned
      BY <1>26 DEF Send
    <2>20. Kept' /\ Carried' /\ Receiver' /\ Honest' /\ Handshake'
      BY <2>19 DEF Send, callVars, streamVars, windowVars, workerVars, Kept, Carried,
         Receiver, Owed, Reached, Honest, Says, Handshake, Early
    <2>21. Sender'
      <3>1. SenderAt(e)
        BY <2>19 DEF Sender
      <3>. DEFINE s == sendSeq[e] + Held(e)
      <3>2. ASSUME ~done[e]
            PROVE  At(e, s, sendBuffer[e] \o seg)
        <4>1. /\ sendSeq[e] + (Held(e) + Waiting(e)) = FirstSeq(e) + accepted[e]
              /\ At(e, s, sendBuffer[e]) /\ s \in Nat
          BY <1>1, <3>1, <3>2, Numbers, SMTT(30) DEF SenderAt
        <4>2. s + Waiting(e) = FirstSeq(e) + accepted[e] /\ s \in Int
          BY <4>1, Numbers
        <4>. HIDE DEF s
        <4>3. \A i \in DOMAIN seg : seg[i] = (s + Waiting(e)) - FirstSeq(e) + i
          BY <1>2, <1>3, <4>2, Consts DEF seg
        <4>4. At(e, s + Len(sendBuffer[e]), seg)
          BY <4>3 DEF At, Waiting
        <4>. QED
          BY <1>3, <4>1, <4>4, Appended, Streams
      <3>3. SenderAt(e)'
        <4>1. s + 0 = sendSeq'[e] + Held(e)' /\ worker'[e] = worker[e] /\ state'[e] = state[e]
              /\ done'[e] = done[e]
          BY <1>4, Numbers DEF Send, windowVars, workerVars, callVars
        <4>2. s + 0 = s
          BY Numbers
        <4>. HIDE DEF s
        <4>. QED
          <5>. SUFFICES ASSUME ~done[e] PROVE SenderAt(e)'
            BY <4>1 DEF SenderAt
          <5>1. /\ worker[e].pc \in {"read", "written"} => worker[e].seq = sendSeq[e]
                /\ sendSeq[e] + (Held(e) + Waiting(e)) = FirstSeq(e) + accepted[e]
                /\ At(e, sendSeq[e], worker[e].data)
            BY <1>1, <3>1 DEF SenderAt
          <5>2. sendSeq'[e] + (Held(e)' + Waiting(e)') = FirstSeq(e) + accepted'[e]
            BY <1>2, <1>4, <5>1, Numbers, Consts
          <5>3. At(e, sendSeq'[e] + Held(e)', sendBuffer'[e])
            BY <1>3, <3>2, <4>1, <4>2
          <5>. QED
            BY <1>4, <4>1, <5>1, <5>2, <5>3 DEF SenderAt
      <3>. QED
        BY <1>5, <2>19, <3>3, SenderKept
    <2>. QED
      BY <2>20, <2>21
  <1>. QED
    BY <1>20, <1>21, <1>22, <1>23, <1>24, <1>25, <1>26

(* The send worker: what it reads is the beginning of the send buffer. *)
LEMMA SendReadsKeeps ==
  ASSUME IInv, NEW e \in End, SendReads(e)
  PROVE  IInv'
  <1>. USE DEF IInv, Shape
  <1>. DEFINE n == Smaller(MTU, Allowance(e, sendAck[e], cwnd[e]))
              w == [pc |-> "read", seq |-> sendSeq[e], data |-> SubSeq(sendBuffer[e], 1, n)]
  <1>1. state[e] = "connected" /\ ~done[e] /\ Held(e) = 0
    BY HoldsNothing, Connected DEF SendReads, Sending
  <1>2. n \in Nat /\ n <= Waiting(e)
    <2>1. sendAck[e] \in Int /\ cwnd[e] \in Nat
      BY Consts DEF SeqShape, WindowShape, Seqs
    <2>2. Allowance(e, sendAck[e], cwnd[e]) \in Nat /\ Allowance(e, sendAck[e], cwnd[e]) <= Waiting(e)
      BY <2>1, AllowanceFits
    <2>. QED
      BY <2>2, Consts, Numbers DEF Smaller
  <1>3. /\ w.data \in Seq(Stream(e)) /\ Len(w.data) = n /\ w.seq = sendSeq[e] /\ w.pc = "read"
        /\ w = [pc |-> "read", seq |-> sendSeq[e], data |-> w.data] /\ w \in WorkerRecords(e)
        /\ sendBuffer'[e] = SubSeq(sendBuffer[e], n + 1, Len(sendBuffer[e]))
        /\ sendBuffer'[e] \in Seq(Stream(e)) /\ Len(sendBuffer'[e]) = Waiting(e) - n
        /\ worker'[e] = w /\ w.data = SubSeq(sendBuffer[e], 1, n)
    <2>1. sendBuffer'[e] = SubSeq(sendBuffer[e], n + 1, Len(sendBuffer[e])) /\ worker'[e] = w
      BY DEF SendReads, SendShape, WorkerShape
    <2>2. n <= Len(sendBuffer[e]) /\ n \in Nat
      BY <1>2 DEF Waiting
    <2>. HIDE DEF n
    <2>3. SubSeq(sendBuffer[e], 1, n) \in Seq(Stream(e)) /\ Len(SubSeq(sendBuffer[e], 1, n)) = n
      BY <2>2, FirstPart, Streams
    <2>4. sendBuffer'[e] \in Seq(Stream(e)) /\ Len(sendBuffer'[e]) = Waiting(e) - n
      BY <2>1, <2>2, Part, Streams DEF Waiting
    <2>. QED
      BY <2>1, <2>3, <2>4, Numbers DEF WorkerRecords
  <1>4. /\ Waiting(e)' = Waiting(e) - n /\ Held(e)' = n /\ sendSeq'[e] = sendSeq[e]
        /\ worker'[e].seq = sendSeq[e] /\ worker'[e].data = w.data
        /\ accepted'[e] = accepted[e] /\ state'[e] = state[e]
    BY <1>3 DEF SendReads, windowVars, appVars, Waiting, Held
  <1>5. Untouched(e)
    BY DEF Untouched, SendReads, windowVars, appVars, callVars, SendShape, WorkerShape
  <1>. HIDE DEF n, w
  <1>20. SeqShape' /\ WindowShape' /\ StreamShape' /\ QueueShape' /\ NetShape' /\ Calls'
    BY DEF SendReads, appVars, callVars, signalVars, streamVars, windowVars, SeqShape,
       WindowShape, StreamShape, QueueShape, NetShape, Calls
  <1>21. FlagShape'
    <2>1. sendReady' \in [End -> BOOLEAN]
      <3>1. (sendReady[e] /\ worker[e].pc = "loop") \in BOOLEAN
        OBVIOUS
      <3>. QED
        BY <3>1 DEF SendReads, FlagShape
    <2>. QED
      BY <2>1 DEF SendReads, callVars, signalVars, streamVars, FlagShape
  <1>22. SendShape'
    <2>1. ASSUME NEW d \in End, d # e PROVE sendBuffer'[d] = sendBuffer[d]
      BY <1>5, <2>1 DEF Untouched
    <2>2. Len(sendBuffer'[e]) <= BufferSize
      <3>1. Waiting(e) <= BufferSize /\ Len(sendBuffer'[e]) = Waiting(e) - n
        BY <1>3 DEF SendShape, Waiting
      <3>. QED
        BY <1>2, <3>1, Numbers, Consts
    <2>3. sendBuffer' = [d \in End |-> sendBuffer'[d]]
      BY DEF SendReads, SendShape
    <2>. QED
      BY <1>3, <2>1, <2>2, <2>3 DEF SendReads, appVars, SendShape
  <1>23. WorkerShape'
    <2>1. worker' = [worker EXCEPT ![e] = w]
      BY DEF SendReads, n, w
    <2>. QED
      BY <1>3, <2>1 DEF WorkerShape
  <1>24. Phases'
    <2>1. \A d \in End : d # e => worker'[d] = worker[d]
      BY <1>5 DEF Untouched
    <2>2. UNCHANGED <<state, done, accepted, expired>>
      BY DEF SendReads, callVars, appVars
    <2>. QED
      BY <1>1, <2>1, <2>2 DEF Phases
  <1>25. Bounded'
    <2>1. BoundedAt(e)
      BY DEF Bounded
    <2>2. BoundedAt(e)'
      BY <1>1, <1>2, <1>4, <2>1, Numbers, Consts DEF BoundedAt
    <2>. QED
      BY <1>5, <2>2, BoundedKept
  <1>26. ASSUME mishaps' = {} PROVE Aligned'
    <2>. USE DEF Aligned
    <2>19. mishaps = {} /\ Aligned
      BY <1>26 DEF SendReads
    <2>20. Kept' /\ Carried' /\ Receiver' /\ Honest' /\ Handshake'
      BY <2>19 DEF SendReads, callVars, streamVars, windowVars, Kept, Carried, Receiver, Owed,
         Reached, Honest, Says, Handshake, Early
    <2>21. Sender'
      <3>1. SenderAt(e)
        BY <2>19 DEF Sender
      <3>2. /\ sendSeq[e] + Waiting(e) = FirstSeq(e) + accepted[e]
            /\ At(e, sendSeq[e], sendBuffer[e])
        <4>1. sendSeq[e] + (Held(e) + Waiting(e)) = FirstSeq(e) + accepted[e]
              /\ At(e, sendSeq[e] + Held(e), sendBuffer[e])
          BY <1>1, <3>1 DEF SenderAt
        <4>2. Held(e) + Waiting(e) = Waiting(e) /\ sendSeq[e] + Held(e) = sendSeq[e]
          BY <1>1, Numbers
        <4>. QED
          BY <4>1, <4>2
      <3>3. At(e, sendSeq[e], w.data)
        BY <1>2, <1>3, <3>2, AtFront, Streams, Numbers DEF Waiting
      <3>4. At(e, sendSeq[e] + n, sendBuffer'[e])
        <4>1. n <= Len(sendBuffer[e]) /\ Len(sendBuffer[e]) <= Len(sendBuffer[e])
          BY <1>2, Streams DEF Waiting
        <4>. QED
          BY <1>2, <1>3, <3>2, <4>1, AtPart, Streams, Numbers, ZenonT(60)
      <3>5. SenderAt(e)'
        BY <1>2, <1>4, <3>2, <3>3, <3>4, Numbers DEF SenderAt
      <3>. QED
        BY <1>5, <2>19, <3>5, SenderKept
    <2>. QED
      BY <2>20, <2>21
  <1>. QED
    BY <1>20, <1>21, <1>22, <1>23, <1>24, <1>25, <1>26

LEMMA SendStopsKeeps ==
  ASSUME IInv, NEW e \in End, SendStops(e)
  PROVE  IInv'
  <1>. USE DEF IInv, Shape
  <1>1. Held(e) = 0 /\ worker[e].data = <<>> /\ worker[e].seq = 0
    BY HoldsNothing DEF SendStops, Sending
  <1>2. /\ Held(e)' = 0 /\ Waiting(e)' = Waiting(e) /\ worker'[e] = Idle /\ Idle.data = <<>>
        /\ Idle.seq = 0 /\ sendSeq'[e] = sendSeq[e] /\ accepted'[e] = accepted[e]
        /\ sendBuffer'[e] = sendBuffer[e] /\ state'[e] = state[e] /\ done'[e] = done[e]
    BY DEF SendStops, windowVars, appVars, callVars, WorkerShape, Held, Waiting, Idle
  <1>3. Untouched(e)
    BY DEF Untouched, SendStops, windowVars, appVars, callVars, WorkerShape
  <1>20. SeqShape' /\ WindowShape' /\ StreamShape' /\ SendShape' /\ QueueShape' /\ NetShape'
     /\ Calls'
    BY DEF SendStops, appVars, callVars, signalVars, streamVars, windowVars, SeqShape,
       WindowShape, StreamShape, SendShape, QueueShape, NetShape, Calls
  <1>21. FlagShape'
    <2>1. sendReady' \in [End -> BOOLEAN]
      <3>1. (sendReady[e] /\ worker[e].pc = "loop") \in BOOLEAN
        OBVIOUS
      <3>. QED
        BY <3>1 DEF SendStops, FlagShape
    <2>. QED
      BY <2>1 DEF SendStops, callVars, signalVars, streamVars, FlagShape
  <1>22. WorkerShape'
    <2>1. worker' = [worker EXCEPT ![e] = Idle]
      BY DEF SendStops
    <2>2. Idle \in WorkerRecords(e) /\ Idle.data = <<>> /\ Idle.seq = 0
      BY DEF Idle, WorkerRecords
    <2>. QED
      BY <2>1, <2>2 DEF WorkerShape
  <1>23. Phases'
    BY DEF SendStops, callVars, appVars, WorkerShape, Phases
  <1>24. Bounded'
    <2>1. BoundedAt(e)
      BY DEF Bounded
    <2>2. BoundedAt(e)'
      BY <1>1, <1>2, <2>1 DEF BoundedAt
    <2>. QED
      BY <1>3, <2>2, BoundedKept
  <1>25. ASSUME mishaps' = {} PROVE Aligned'
    <2>. USE DEF Aligned
    <2>19. mishaps = {} /\ Aligned
      BY <1>25 DEF SendStops
    <2>20. Kept' /\ Carried' /\ Receiver' /\ Honest' /\ Handshake'
      BY <2>19 DEF SendStops, callVars, streamVars, windowVars, Kept, Carried, Receiver, Owed,
         Reached, Honest, Says, Handshake, Early
    <2>21. Sender'
      <3>1. SenderAt(e)
        BY <2>19 DEF Sender
      <3>2. SenderAt(e)'
        BY <1>1, <1>2, <3>1 DEF SenderAt, Idle
      <3>. QED
        BY <1>3, <2>19, <3>2, SenderKept
    <2>. QED
      BY <2>20, <2>21
  <1>. QED
    BY <1>20, <1>21, <1>22, <1>23, <1>24, <1>25

(* It writes what it has read as the packet of its number. *)
LEMMA SendWritesKeeps ==
  ASSUME IInv, NEW e \in End, SendWrites(e)
  PROVE  IInv'
  <1>. USE DEF IInv, Shape
  <1>. DEFINE w == [worker[e] EXCEPT !.pc = "written"]
  <1>1. state[e] = "connected" /\ ~done[e] /\ worker[e].pc = "read"
    BY Connected DEF SendWrites
  <1>2. /\ worker'[e] = w /\ w.pc = "written" /\ w.seq = worker[e].seq /\ w.data = worker[e].data
        /\ w = [pc |-> "written", seq |-> w.seq, data |-> w.data]
    BY DEF SendWrites, WorkerShape, WorkerRecords
  <1>. HIDE DEF w
  <1>3. /\ Held(e)' = Held(e) /\ Waiting(e)' = Waiting(e) /\ sendSeq'[e] = sendSeq[e]
        /\ accepted'[e] = accepted[e] /\ sendBuffer'[e] = sendBuffer[e]
        /\ state'[e] = state[e] /\ done'[e] = done[e]
    BY <1>2 DEF SendWrites, windowVars, appVars, callVars, Held, Waiting
  <1>4. Untouched(e)
    BY DEF Untouched, SendWrites, windowVars, appVars, callVars, WorkerShape
  <1>20. FlagShape' /\ SeqShape' /\ WindowShape' /\ StreamShape' /\ SendShape' /\ QueueShape'
     /\ Calls'
    BY DEF SendWrites, appVars, callVars, signalVars, streamVars, windowVars, FlagShape,
       SeqShape, WindowShape, StreamShape, SendShape, QueueShape, Calls
  <1>21. WorkerShape'
    <2>1. worker' = [worker EXCEPT ![e] = w]
      BY DEF SendWrites, w
    <2>2. \A d \in End : worker'[d] = IF d = e THEN w ELSE worker[d]
      BY <2>1 DEF WorkerShape
    <2>3. worker' = [d \in End |-> worker'[d]]
      BY <2>1 DEF WorkerShape
    <2>4. w \in WorkerRecords(e)
      BY <1>2 DEF WorkerShape, WorkerRecords
    <2>. QED
      BY <1>2, <2>2, <2>3, <2>4 DEF WorkerShape
  <1>22. Phases'
    <2>1. \A d \in End : d # e => worker'[d] = worker[d]
      BY <1>4 DEF Untouched
    <2>2. UNCHANGED <<state, done, accepted, expired>>
      BY DEF SendWrites, callVars, appVars
    <2>. QED
      BY <1>1, <2>1, <2>2 DEF Phases
  <1>23. Bounded'
    <2>1. BoundedAt(e)
      BY DEF Bounded
    <2>2. BoundedAt(e)'
      BY <1>2, <1>3, <2>1 DEF BoundedAt
    <2>. QED
      BY <1>4, <2>2, BoundedKept
  <1>24. Grows
    BY Streams DEF SendWrites, callVars, streamVars, Grows, Early
  <1>25. \A p \in net' : p \in net \/ Sound(p)
    <2>. DEFINE packet == Packet(e, "data", worker[e].seq, 0, worker[e].data)
    <2>1. worker[e].seq \in Nat /\ worker[e].seq + Len(worker[e].data) <= Top(e)
      BY Numbers DEF Held
    <2>2. /\ Fits(packet) /\ packet.to = Peer(e) /\ packet.type = "data"
          /\ At(e, worker[e].seq, worker[e].data) => Carries(packet)
      BY <2>1, DataPacket, Streams
    <2>3. mishaps' = {} => At(e, worker[e].seq, worker[e].data)
      BY <1>1 DEF SendWrites, Aligned, Sender, SenderAt
    <2>4. Early' => e # "client"
      BY <1>1, <1>3 DEF Early
    <2>5. net' \in UnderWay(net, {packet})
      BY DEF SendWrites, Transmit
    <2>. HIDE DEF packet
    <2>6. Opens(packet) \/ ~Early'
      BY <2>2, <2>4, Ends DEF Opens, End
    <2>7. ASSUME NEW p, p = packet PROVE Sound(p)
      BY <2>2, <2>3, <2>6, <2>7 DEF Sound, Says
    <2>. QED
      BY <2>5, <2>7, New
  <1>26. NetShape'
    BY <1>20, <1>24, <1>25, Network
  <1>27. ASSUME mishaps' = {} PROVE Aligned'
    <2>. USE DEF Aligned
    <2>19. /\ mishaps = {} /\ Aligned /\ Carried'
           /\ \A p \in net' : Says(p)' /\ (Early' => Opens(p))
      BY <1>27, <1>20, <1>24, <1>25, Network
    <2>20. Kept' /\ Receiver'
      BY <2>19 DEF SendWrites, streamVars, windowVars, Kept, Receiver, Owed, Reached
    <2>21. Sender'
      <3>1. SenderAt(e)
        BY <2>19 DEF Sender
      <3>2. SenderAt(e)'
        BY <1>1, <1>2, <1>3, <3>1 DEF SenderAt, SendWrites
      <3>. QED
        BY <1>4, <2>19, <3>2, SenderKept
    <2>22. Honest'
      <3>1. \A d \in End : Owed(d, sendAck[d])
        BY <2>19 DEF Honest
      <3>2. \A d \in End : \A ack : Owed(d, ack) => Owed(d, ack)'
        BY <1>20, <1>24, OwedStays
      <3>. QED
        BY <2>19, <3>1, <3>2 DEF SendWrites, windowVars, Honest
    <2>23. Handshake'
      BY <2>19 DEF SendWrites, streamVars, windowVars, Handshake, Early
    <2>. QED
      BY <2>19, <2>20, <2>21, <2>22, <2>23
  <1>. QED
    BY <1>20, <1>21, <1>22, <1>23, <1>26, <1>27

(* Then it counts them and keeps the packet for a retransmission. *)
LEMMA SendAdvancesKeeps ==
  ASSUME IInv, NEW e \in End, SendAdvances(e)
  PROVE  IInv'
  <1>. USE DEF IInv, Shape
  <1>1. state[e] = "connected" /\ ~done[e] /\ worker[e].pc = "written"
    BY Connected DEF SendAdvances
  <1>2. PICK from \in {sendSeq[e], worker[e].seq} :
           sendSeq' = [sendSeq EXCEPT ![e] = (from + Held(e)) % SeqSpace]
    BY DEF SendAdvances, Held
  <1>3. /\ from \in Nat /\ sendSeq'[e] = from + Held(e)
        /\ sendSeq' = [sendSeq EXCEPT ![e] = from + Held(e)]
    <2>1. from \in Nat /\ from + Held(e) \in Nat /\ from + Held(e) < SeqSpace
      BY <1>2, Numbers, Consts
    <2>2. (from + Held(e)) % SeqSpace = from + Held(e)
      BY <2>1, ModSmall
    <2>3. sendSeq' = [sendSeq EXCEPT ![e] = from + Held(e)]
      BY <1>2, <2>2, Zenon
    <2>. QED
      BY <2>1, <2>3 DEF SeqShape
  <1>4. LET x == [Idle EXCEPT !.pc = "loop"] IN
        /\ worker' = [worker EXCEPT ![e] = x] /\ worker'[e] = x
        /\ x \in WorkerRecords(e) /\ x.data = <<>> /\ x.seq = 0 /\ x.pc = "loop"
        /\ worker'[e].data = <<>> /\ worker'[e].seq = 0 /\ worker'[e].pc = "loop"
        /\ Held(e)' = 0 /\ Waiting(e)' = Waiting(e) /\ accepted'[e] = accepted[e]
        /\ sendBuffer'[e] = sendBuffer[e] /\ state'[e] = state[e] /\ done'[e] = done[e]
    <2>. DEFINE x == [Idle EXCEPT !.pc = "loop"]
    <2>1. x \in WorkerRecords(e) /\ x.data = <<>> /\ x.seq = 0 /\ x.pc = "loop"
      <3>1. x = [pc |-> "loop", seq |-> 0, data |-> <<>>] /\ <<>> \in Seq(Stream(e))
        BY DEF Idle
      <3>. HIDE DEF x
      <3>. QED
        BY <3>1 DEF WorkerRecords
    <2>2. worker' = [worker EXCEPT ![e] = x] /\ worker'[e] = x
      BY DEF SendAdvances, WorkerShape
    <2>. HIDE DEF x
    <2>3. UNCHANGED <<sendBuffer, accepted, state, done>>
      BY DEF SendAdvances, appVars, callVars
    <2>4. Len(worker'[e].data) = 0
      BY <2>1, <2>2
    <2>. QED
      BY <2>1, <2>2, <2>3, <2>4 DEF x, Held, Waiting
  <1>. DEFINE entry == Entry("data", worker[e].data)
  <1>5. /\ retransQueue' = [retransQueue EXCEPT ![e] = With(@, worker[e].seq, entry)]
        /\ retransQueue'[e] = With(retransQueue[e], worker[e].seq, entry)
    BY DEF SendAdvances, QueueShape
  <1>6. Entries(e, worker[e].seq, entry) /\ entry.data = worker[e].data
    <2>1. worker[e].seq \in Nat /\ worker[e].seq + Len(worker[e].data) <= Top(e)
      BY Numbers DEF Held
    <2>. QED
      BY <2>1, DataEntry, Streams
  <1>. HIDE DEF entry
  <1>7. Untouched(e)
    BY <1>3, <1>4 DEF Untouched, SendAdvances, appVars, callVars, WorkerShape, SeqShape
  <1>20. FlagShape' /\ WindowShape' /\ StreamShape' /\ SendShape' /\ NetShape'
    BY DEF SendAdvances, appVars, callVars, signalVars, streamVars, FlagShape, WindowShape,
       StreamShape, SendShape, NetShape
  <1>21. SeqShape'
    <2>1. sendSeq' = [sendSeq EXCEPT ![e] = from + Held(e)] /\ from + Held(e) \in Nat
      BY <1>3, Numbers
    <2>. QED
      BY <2>1 DEF SendAdvances, signalVars, SeqShape
  <1>22. WorkerShape'
    <2>. QED
      BY <1>4 DEF SendAdvances, WorkerShape
  <1>23. QueueShape'
    <2>1. Table(e, retransQueue[e])
      BY DEF QueueShape
    <2>2. Table(e, retransQueue'[e])
      BY <1>5, <1>6, <2>1, WithKeeps
    <2>. QED
      BY <1>5, <2>2 DEF SendAdvances, QueueShape
  <1>24. Phases'
    <2>1. \A d \in End : d # e => worker'[d] = worker[d]
      BY <1>7 DEF Untouched
    <2>2. UNCHANGED <<state, done, accepted, expired>>
      BY DEF SendAdvances, callVars, appVars
    <2>. QED
      BY <1>1, <2>1, <2>2 DEF Phases
  <1>25. Calls'
    <2>1. /\ e = "client" => ~calling["client"]
          /\ e = "server" => state["server"] # "listening"
      BY <1>1 DEF Calls
    <2>2. \A d \in End : d # e => sendSeq'[d] = sendSeq[d]
      BY <1>7 DEF Untouched
    <2>3. UNCHANGED <<calling, state, accepted, listenChan>>
      BY DEF SendAdvances, appVars, callVars, signalVars
    <2>. QED
      BY <2>1, <2>2, <2>3, Ends DEF Calls
  <1>26. Bounded'
    <2>1. BoundedAt(e)
      BY DEF Bounded
    <2>2. from + (Held(e) + Waiting(e)) <= ISN[e] + 1 + accepted[e]
      BY <1>2, <2>1 DEF BoundedAt
    <2>3. Held(e) + Waiting(e) <= accepted[e]
      BY <2>1 DEF BoundedAt
    <2>4. /\ 0 + Waiting(e) <= accepted[e] /\ 0 + (0 + Waiting(e)) <= ISN[e] + 1 + accepted[e]
          /\ sendSeq'[e] + (0 + Waiting(e)) <= ISN[e] + 1 + accepted[e]
      <3>1. /\ Held(e) \in Nat /\ Waiting(e) \in Nat /\ accepted[e] \in Nat
            /\ ISN[e] \in Nat /\ from \in Nat /\ sendSeq'[e] = from + Held(e)
        BY <1>3, Numbers, Consts
      <3>. QED
        BY <2>2, <2>3, <3>1
    <2>5. BoundedAt(e)'
      BY <1>4, <2>4 DEF BoundedAt
    <2>. QED
      BY <1>7, <2>5, BoundedKept
  <1>27. ASSUME mishaps' = {} PROVE Aligned'
    <2>. USE DEF Aligned
    <2>19. mishaps = {} /\ Aligned
      BY <1>27 DEF SendAdvances
    <2>20. Carried' /\ Receiver' /\ Honest'
      BY <2>19 DEF SendAdvances, callVars, streamVars, Carried, Receiver, Owed, Reached,
         Honest, Says
    <2>21. Sender'
      <3>1. SenderAt(e)
        BY <2>19 DEF Sender
      <3>2. /\ sendSeq[e] = worker[e].seq /\ sendSeq[e] + (Held(e) + Waiting(e)) = FirstSeq(e) + accepted[e]
            /\ At(e, sendSeq[e] + Held(e), sendBuffer[e])
        BY <1>1, <3>1 DEF SenderAt
      <3>3. sendSeq'[e] = sendSeq[e] + Held(e)
        BY <1>2, <1>3, <3>2
      <3>4. sendSeq'[e] + 0 = sendSeq'[e] /\ sendSeq'[e] + (0 + Waiting(e)) = FirstSeq(e) + accepted[e]
        BY <3>2, <3>3, Numbers
      <3>5. At(e, sendSeq'[e], <<>>)
        BY DEF At
      <3>6. SenderAt(e)'
        BY <1>4, <3>2, <3>3, <3>4, <3>5 DEF SenderAt
      <3>. QED
        BY <1>7, <2>19, <3>6, SenderKept
    <2>22. Kept'
      <3>1. At(e, worker[e].seq, worker[e].data)
        BY <1>1, <2>19 DEF Sender, SenderAt
      <3>2. AllAt(e, retransQueue[e]) /\ Table(e, retransQueue[e])
        BY <2>19 DEF Kept, QueueShape
      <3>3. AllAt(e, retransQueue'[e])
        BY <1>5, <1>6, <3>1, <3>2, WithKeeps
      <3>. QED
        BY <1>5, <2>19, <3>3 DEF SendAdvances, QueueShape, Kept
    <2>23. Handshake'
      <3>1. Early => e # "client"
        BY <1>1 DEF Early
      <3>2. Early => retransQueue'["client"] = retransQueue["client"]
        BY <1>5, <3>1, Ends DEF QueueShape
      <3>. QED
        BY <2>19, <3>2 DEF SendAdvances, callVars, streamVars, Handshake, Early
    <2>. QED
      BY <2>20, <2>21, <2>22, <2>23
  <1>. QED
    BY <1>20, <1>21, <1>22, <1>23, <1>24, <1>25, <1>26, <1>27

LEMMA ReceiveKeeps ==
  ASSUME IInv, NEW e \in End, Receive(e)
  PROVE  IInv'
  <1>. USE DEF IInv, Shape
  <1>20. SeqShape' /\ WindowShape' /\ SendShape' /\ WorkerShape' /\ QueueShape' /\ NetShape'
     /\ Phases' /\ Calls' /\ Bounded'
    BY DEF Receive, callVars, signalVars, windowVars, workerVars, SeqShape, WindowShape,
       SendShape, WorkerShape, QueueShape, NetShape, Phases, Calls, Bounded, BoundedAt, Held,
       Waiting
  <1>21. FlagShape'
    BY DEF Receive, callVars, signalVars, FlagShape
  <1>22. StreamShape'
    <2>1. Len(received[e]) \in Nat /\ Len(received[e]) - Len(received[e]) <= BufferSize
      BY Streams, Consts
    <2>2. taken' = [taken EXCEPT ![e] = Len(received[e])] /\ UNCHANGED <<receiveSeq, received, pendingAck>>
      BY DEF Receive
    <2>3. taken' \in [End -> Nat] /\ taken'[e] = Len(received[e])
          /\ \A d \in End : d # e => taken'[d] = taken[d]
      BY <2>1, <2>2 DEF StreamShape
    <2>. QED
      BY <2>1, <2>2, <2>3 DEF StreamShape
  <1>23. ASSUME mishaps' = {} PROVE Aligned'
    <2>. USE DEF Aligned
    <2>19. mishaps = {} /\ Aligned
      BY <1>23 DEF Receive
    <2>20. Sender' /\ Kept' /\ Carried' /\ Receiver' /\ Honest' /\ Handshake'
      BY <2>19 DEF Receive, callVars, windowVars, workerVars, Sender, SenderAt, Held, Waiting,
         Kept, Carried, Receiver, Owed, Reached, Honest, Says, Handshake, Early
    <2>. QED
      BY <2>20
  <1>. QED
    BY <1>20, <1>21, <1>22, <1>23

LEMMA OnlyNetGrows ==
  ASSUME IInv, OnlyNet
  PROVE  StreamShape' /\ Grows
  <1>1. StreamShape'
    BY DEF IInv, Shape, OnlyNet, streamVars, appVars, StreamShape
  <1>2. \A e \in End : Len(received[e]) <= Len(received'[e])
    BY Streams DEF IInv, OnlyNet, streamVars
  <1>. QED
    BY <1>1, <1>2 DEF OnlyNet, Grows, Early, callVars

LEMMA OnlyNetKeeps ==
  ASSUME IInv, OnlyNet, \A p \in net' : p \in net \/ Sound(p)
  PROVE  IInv'
  <1>. USE DEF IInv, Shape
  <1>20. FlagShape' /\ SeqShape' /\ WindowShape' /\ StreamShape' /\ SendShape' /\ WorkerShape'
     /\ QueueShape' /\ Phases' /\ Calls' /\ Bounded'
    BY DEF OnlyNet, appVars, callVars, signalVars, streamVars, windowVars, workerVars,
       FlagShape, SeqShape, WindowShape, StreamShape, SendShape, WorkerShape, QueueShape,
       Phases, Calls, Bounded, BoundedAt, Held, Waiting
  <1>21. Grows
    BY OnlyNetGrows
  <1>22. \A p \in net' : p \in net \/ Sound(p)
    OBVIOUS
  <1>23. NetShape'
    BY <1>20, <1>21, <1>22, Network
  <1>24. ASSUME mishaps' = {} PROVE Aligned'
    <2>. USE DEF Aligned
    <2>19. /\ mishaps = {} /\ Aligned /\ Carried'
           /\ \A p \in net' : Says(p)' /\ (Early' => Opens(p))
      BY <1>24, <1>20, <1>21, <1>22, Network
    <2>20. Sender' /\ Kept' /\ Receiver'
      BY <2>19 DEF OnlyNet, appVars, callVars, streamVars, windowVars, workerVars, Sender,
         SenderAt, Held, Waiting, Kept, Receiver, Owed, Reached
    <2>21. Honest'
      <3>1. \A d \in End : Owed(d, sendAck[d])
        BY <2>19 DEF OnlyNet, Honest
      <3>2. \A d \in End : \A ack : Owed(d, ack) => Owed(d, ack)'
        BY <1>20, <1>21, OwedStays
      <3>. QED
        BY <2>19, <3>1, <3>2 DEF OnlyNet, windowVars, Honest
    <2>22. Handshake'
      BY <2>19 DEF OnlyNet, streamVars, windowVars, workerVars, Handshake, Early
    <2>. QED
      BY <2>19, <2>20, <2>21, <2>22
  <1>. QED
    BY <1>20, <1>23, <1>24

LEMMA LoseKeeps ==
  ASSUME IInv, NEW p \in net, Lose(p)
  PROVE  IInv'
  BY OnlyNetKeeps DEF Lose, OnlyNet

LEMMA KeepAliveKeeps ==
  ASSUME IInv, NEW e \in End, KeepAlive(e)
  PROVE  IInv'
  <1>. DEFINE packet == Packet(e, "keepalive", sendSeq[e], 0, <<>>)
  <1>1. /\ Fits(packet) /\ Carries(packet) /\ packet.to = Peer(e) /\ packet.type = "keepalive"
    BY PlainPacket, Numbers DEF IInv
  <1>2. OnlyNet /\ net' \in UnderWay(net, {packet}) /\ state[e] = "connected"
    BY DEF KeepAlive, OnlyNet, Transmit
  <1>. HIDE DEF packet
  <1>3. Early' => e # "client"
    BY <1>2 DEF OnlyNet, Early
  <1>4. Opens(packet) \/ ~Early'
    BY <1>1, <1>3, Ends DEF Opens, End
  <1>5. ASSUME NEW p, p = packet PROVE Sound(p)
    BY <1>1, <1>4, <1>5 DEF Sound, Says
  <1>. QED
    BY <1>2, <1>5, New, OnlyNetKeeps

(* No data, FIN or keep-alive reaches the server while the client connects. *)
LEMMA NotEarly ==
  ASSUME IInv, mishaps = {}, Early, NEW e \in End, NEW p \in net, p.to = e,
         p.type \notin {"syn", "ack"}
  PROVE  e # "server"
  BY DEF IInv, Aligned, Handshake, Opens

LEMMA AnswersKeeps ==
  ASSUME IInv, NEW e \in End, NEW p \in net, p.to = e, p.type \notin {"syn", "ack"},
         OnlyNet, Answer(p, {RepeatedAck(e, p)}) \/ Answer(p, {})
  PROVE  IInv'
  <1>1. receiveSeq[e] \in Seqs
    BY DEF IInv, Shape, StreamShape
  <1>2. mishaps = {} => Owed(Peer(e), receiveSeq[e]) /\ (Early => e # "server")
    BY ReceivedIsOwed, NotEarly DEF IInv, Aligned
  <1>3. \A r : r = RepeatedAck(e, p) => Sound(r)
    BY <1>1, <1>2, AckSounds, OnlyNetGrows DEF RepeatedAck
  <1>4. \A r \in net' : r \in net \/ Sound(r)
    <2>1. CASE Answer(p, {RepeatedAck(e, p)})
      BY <1>3, <2>1, Arrives DEF Answer
    <2>2. CASE Answer(p, {})
      BY <2>2, Arrives DEF Answer
    <2>. QED
      BY <2>1, <2>2
  <1>. QED
    BY <1>4, OnlyNetKeeps

LEMMA HandleKeepAliveKeeps ==
  ASSUME IInv, NEW e \in End, NEW p \in net, HandleKeepAlive(e, p)
  PROVE  IInv'
  BY AnswersKeeps DEF HandleKeepAlive, Deliver, OnlyNet

(* The timer of the delayed acknowledgement. *)
LEMMA AckTimerKeeps ==
  ASSUME IInv, NEW e \in End, AckTimer(e)
  PROVE  IInv'
  <1>. USE DEF IInv, Shape
  <1>20. FlagShape' /\ SeqShape' /\ WindowShape' /\ SendShape' /\ WorkerShape' /\ QueueShape'
     /\ Phases' /\ Calls' /\ Bounded'
    BY DEF AckTimer, appVars, callVars, signalVars, windowVars, workerVars, FlagShape,
       SeqShape, WindowShape, SendShape, WorkerShape, QueueShape, Phases, Calls, Bounded,
       BoundedAt, Held, Waiting
  <1>21. StreamShape'
    BY ZeroSeq DEF AckTimer, appVars, StreamShape
  <1>22. Grows
    BY Streams DEF AckTimer, callVars, Grows, Early
  <1>23. \A p \in net' : p \in net \/ Sound(p)
    <2>1. pendingAck[e] \in Seqs
      BY DEF StreamShape
    <2>2. mishaps = {} => Owed(Peer(e), pendingAck[e])
      BY DEF Aligned, Receiver
    <2>3. mishaps = {} /\ Early => e # "server"
      BY DEF AckTimer, Aligned, Handshake
    <2>4. \A p : p = Ack(e, sendSeq[e], pendingAck[e]) => Sound(p)
      BY <1>21, <1>22, <2>1, <2>2, <2>3, AckSounds
    <2>. QED
      BY <2>4, Arrives DEF AckTimer, Transmit
  <1>24. NetShape'
    BY <1>21, <1>22, <1>23, Network
  <1>25. ASSUME mishaps' = {} PROVE Aligned'
    <2>. USE DEF Aligned
    <2>19. /\ mishaps = {} /\ Aligned /\ Carried'
           /\ \A p \in net' : Says(p)' /\ (Early' => Opens(p))
      BY <1>25, <1>21, <1>22, <1>23, Network
    <2>20. Sender' /\ Kept'
      BY <2>19 DEF AckTimer, appVars, callVars, windowVars, workerVars, Sender, SenderAt,
         Held, Waiting, Kept
    <2>21. Receiver'
      <3>1. \A d \in End : pendingAck'[d] = pendingAck[d] \/ pendingAck'[d] = 0
        BY DEF AckTimer, StreamShape
      <3>. QED
        BY <2>19, <3>1 DEF AckTimer, Receiver, Owed, Reached
    <2>22. Honest'
      <3>1. \A d \in End : Owed(d, sendAck[d])
        BY <2>19 DEF Honest
      <3>2. \A d \in End : \A ack : Owed(d, ack) => Owed(d, ack)'
        BY <1>21, <1>22, OwedStays
      <3>. QED
        BY <2>19, <3>1, <3>2 DEF AckTimer, windowVars, Honest
    <2>23. Handshake'
      <3>1. pendingAck'["server"] = pendingAck["server"] \/ pendingAck'["server"] = 0
        BY Ends DEF AckTimer, StreamShape
      <3>. QED
        BY <2>19, <3>1 DEF AckTimer, windowVars, workerVars, Handshake, Early
    <2>. QED
      BY <2>19, <2>20, <2>21, <2>22, <2>23
  <1>. QED
    BY <1>20, <1>21, <1>24, <1>25

LEMMA StoresKeeps ==
  ASSUME IInv, NEW e \in End, NEW p \in net, HandleData(e, p), InSequence(e, p),
     ~(Len(received[e]) - taken[e] + Len(p.data) > BufferSize)
  PROVE  IInv'
  <1>. USE DEF IInv, Shape
  <1>. DEFINE next == receiveSeq[e] + Len(p.data)
  <1>1. /\ p.to = e /\ p.type = "data" /\ Fits(p) /\ p.seq = receiveSeq[e]
    BY DEF HandleData, Deliver, NetShape, InSequence
  <1>2. /\ received' = [received EXCEPT ![e] = @ \o p.data]
        /\ receiveSeq' = [receiveSeq EXCEPT ![e] = next]
        /\ \E ack \in {0, next} : pendingAck' = [pendingAck EXCEPT ![e] = ack]
        /\ \E packets \in {{}, {Ack(e, sendSeq[e], next)}} : net' \in UnderWay(net \ {p}, packets)
    BY DEF HandleData, Answer
  <1>4. /\ p.data \in Seq(Stream(Peer(e))) /\ Len(p.data) \in Nat
        /\ next \in Nat /\ next <= Top(Peer(e))
        /\ Len(received[e]) - taken[e] + Len(p.data) <= BufferSize
        /\ Len(received[e]) \in Nat /\ received[e] \in Seq(Stream(Peer(e))) /\ BufferSize \in Nat
    <2>1. p.data \in Seq(Stream(Peer(e))) /\ p.seq + Len(p.data) <= Top(Peer(e)) /\ p.seq \in Nat
      BY <1>1 DEF Fits, Seqs
    <2>2. Len(p.data) \in Nat
      BY <2>1, LenProperties
    <2>3. /\ Len(received[e]) \in Nat /\ taken[e] \in Nat /\ BufferSize \in Nat
          /\ received[e] \in Seq(Stream(Peer(e)))
      BY Streams, Consts DEF StreamShape
    <2>. QED
      BY <1>1, <2>1, <2>2, <2>3
  <1>. HIDE DEF next
  <1>3. /\ received'[e] = received[e] \o p.data /\ received'[e] \in Seq(Stream(Peer(e)))
        /\ Len(received'[e]) = Len(received[e]) + Len(p.data)
    BY <1>2, <1>4, Streams, ConcatProperties DEF StreamShape
  <1>. DEFINE had == Len(received[e])
              adds == Len(p.data)
              has == Len(received'[e])
  <1>6. /\ had \in Nat /\ adds \in Nat /\ has = had + adds
        /\ had - taken[e] + adds <= BufferSize /\ BufferSize \in Nat
        /\ next = receiveSeq[e] + adds
    BY <1>3, <1>4 DEF next
  <1>. HIDE DEF had, adds, has
  <1>5. ASSUME mishaps = {}
        PROVE  /\ \/ receiveSeq'[e] = 0 /\ received'[e] = <<>>
                  \/ receiveSeq'[e] = Reached(e)'
               /\ \A x : x = next => Owed(Peer(e), x)'
               /\ \A i \in DOMAIN received'[e] : received'[e][i] = i
    <2>. USE DEF Aligned
    <2>16. \/ receiveSeq[e] = Reached(e)
           \/ /\ p.data = <<>> /\ receiveSeq[e] = 0 /\ received[e] = <<>>
      <3>1. receiveSeq[e] = Reached(e) \/ (receiveSeq[e] = 0 /\ received[e] = <<>>)
        BY <1>5 DEF Receiver
      <3>2. ASSUME p.data # <<>>, receiveSeq[e] = 0, received[e] = <<>>
            PROVE  receiveSeq[e] = Reached(e)
        <4>1. 1 \in DOMAIN p.data /\ p.data[1] \in Stream(Peer(e))
          BY <1>4, <3>2, ElementOfSeq, EmptySeq, LenProperties
        <4>2. p.data[1] = p.seq - FirstSeq(Peer(e)) + 1
          BY <1>1, <1>5, <4>1 DEF Carried, Carries, At
        <4>3. FirstSeq(Peer(e)) \in Nat /\ p.data[1] >= 1
          BY <4>1, Consts, Ends DEF Stream
        <4>4. FirstSeq(Peer(e)) = 0
          BY <1>1, <3>2, <4>2, <4>3
        <4>. QED
          BY <3>2, <4>4 DEF Reached
      <3>. QED
        BY <3>1, <3>2
    <2>17. /\ \/ receiveSeq'[e] = 0 /\ received'[e] = <<>>
              \/ receiveSeq'[e] = Reached(e)'
           /\ \A x : x = next => Owed(Peer(e), x)'
      <3>1. FirstSeq(Peer(e)) \in Nat /\ Peer(Peer(e)) = e /\ receiveSeq'[e] = next
        BY <1>2, Consts, Ends DEF StreamShape
      <3>2. CASE receiveSeq[e] = Reached(e)
        <4>0. Reached(e) = FirstSeq(Peer(e)) + had /\ Reached(e)' = FirstSeq(Peer(e)) + has
          BY DEF Reached, had, has
        <4>1. next = Reached(e)'
          BY <1>6, <3>1, <3>2, <4>0
        <4>2. FirstSeq(Peer(e)) <= next
          BY <1>6, <3>1, <3>2, <4>0
        <4>3. next \in FirstSeq(Peer(e))..Reached(e)'
          BY <1>4, <3>1, <4>1, <4>2
        <4>. QED
          <5>1. \A x : x = next => Owed(Peer(e), x)'
            BY <3>1, <4>3 DEF Owed
          <5>. QED
            BY <3>1, <4>1, <5>1
      <3>3. CASE p.data = <<>> /\ receiveSeq[e] = 0 /\ received[e] = <<>>
        <4>1. next = 0
          BY <3>3 DEF next
        <4>2. received'[e] = <<>>
          BY <1>3, <1>4, <3>3, EmptySeq
        <4>3. \A x : x = next => Owed(Peer(e), x)'
          <5>1. \A x : x = 0 => Owed(Peer(e), x)'
            BY DEF Owed
          <5>. QED
            BY <4>1, <5>1
        <4>. QED
          BY <3>1, <4>1, <4>2, <4>3
      <3>. QED
        BY <2>16, <3>2, <3>3
    <2>18. \A i \in DOMAIN received'[e] : received'[e][i] = i
      <3>. SUFFICES ASSUME NEW i \in DOMAIN received'[e] PROVE received'[e][i] = i
        OBVIOUS
      <3>1. /\ Len(received[e]) \in Nat /\ i \in 1..Len(received[e]) + Len(p.data)
            /\ received'[e][i] = IF i <= Len(received[e]) THEN received[e][i]
                                 ELSE p.data[i - Len(received[e])]
        <4>1. DOMAIN received'[e] = 1..Len(received[e]) + Len(p.data)
          BY <1>3, LenProperties
        <4>2. \A k \in 1..Len(received[e]) + Len(p.data) :
                 received'[e][k] = IF k <= Len(received[e]) THEN received[e][k]
                                   ELSE p.data[k - Len(received[e])]
          BY <1>3, <1>4, ConcatProperties
        <4>. QED
          BY <1>4, <4>1, <4>2
      <3>2. CASE i <= Len(received[e])
        <4>1. i \in DOMAIN received[e]
          BY <1>4, <3>1, <3>2, LenProperties
        <4>. QED
          BY <1>5, <3>1, <3>2, <4>1 DEF Receiver
      <3>3. CASE i > Len(received[e])
        <4>. DEFINE j == i - Len(received[e])
        <4>1. j \in DOMAIN p.data /\ received'[e][i] = p.data[j]
          <5>1. DOMAIN p.data = 1..Len(p.data)
            BY <1>4, LenProperties
          <5>2. i \in had + 1..had + adds
            <6>1. i \in 1..had + adds /\ i > had
              BY <3>1, <3>3 DEF had, adds
            <6>. QED
              BY <1>6, <6>1
          <5>4. i - had \in 1..adds
            BY <1>6, <5>2
          <5>3. j \in 1..Len(p.data)
            BY <5>4 DEF had, adds
          <5>. QED
            BY <3>1, <3>3, <5>1, <5>3
        <4>2. p.data # <<>>
          BY <4>1
        <4>3. p.data[j] = p.seq - FirstSeq(Peer(e)) + j
          BY <1>1, <1>5, <4>1 DEF Carried, Carries, At
        <4>4. p.seq = FirstSeq(Peer(e)) + Len(received[e])
          BY <1>1, <2>16, <4>2 DEF Reached
        <4>. QED
          BY <3>1, <4>1, <4>3, <4>4, Consts, Ends, SMTT(30)
      <3>. QED
        BY <3>1, <3>2, <3>3
    <2>. QED
      BY <2>17, <2>18
  <1>20. SeqShape' /\ WindowShape' /\ SendShape' /\ WorkerShape' /\ QueueShape' /\ Phases' /\
     Calls' /\ Bounded'
    BY DEF HandleData, appVars, callVars, signalVars, windowVars, workerVars, SeqShape,
       WindowShape, SendShape, WorkerShape, QueueShape, Phases, Calls, Bounded, BoundedAt,
       Held, Waiting
  <1>21. FlagShape'
    BY DEF HandleData, callVars, signalVars, FlagShape
  <1>22. StreamShape'
    <2>1. next \in Seqs
      BY <1>4, SeqsBound, Ends
    <2>2. /\ receiveSeq' \in [End -> Seqs] /\ pendingAck' \in [End -> Seqs]
          /\ received' = [d \in End |-> received'[d]]
          /\ \A d \in End : d # e => received'[d] = received[d]
      BY <1>2, <2>1, ZeroSeq DEF StreamShape
    <2>3. taken[e] <= Len(received'[e]) /\ Len(received'[e]) - taken[e] <= BufferSize
      <3>1. taken[e] \in Nat /\ taken[e] <= Len(received[e])
        BY DEF StreamShape
      <3>. QED
        <4>1. taken[e] <= had
          BY <3>1 DEF had
        <4>2. taken[e] <= has /\ has - taken[e] <= BufferSize
          BY <1>6, <3>1, <4>1
        <4>. QED
          BY <4>2 DEF has
    <2>. QED
      BY <1>3, <2>2, <2>3 DEF HandleData, appVars, StreamShape
  <1>23. Grows
    <2>1. \A d \in End : Len(received[d]) <= Len(received'[d])
      <3>1. \A d \in End : d # e => received'[d] = received[d]
        BY <1>2 DEF StreamShape
      <3>2. Len(received[e]) <= Len(received'[e])
        BY <1>6 DEF had, has
      <3>3. \A d \in End : Len(received[d]) \in Nat
        BY Streams
      <3>. QED
        BY <3>1, <3>2, <3>3
    <2>. QED
      BY <2>1 DEF HandleData, callVars, Grows, Early
  <1>24. \A r \in net' : r \in net \/ Sound(r)
    <2>1. mishaps' = {} => mishaps = {} /\ \A x : x = next => Owed(Peer(e), x)'
      BY <1>5 DEF HandleData
    <2>2. sendSeq[e] \in Seqs /\ next \in Seqs
      BY <1>4, Numbers, SeqsBound, Ends
    <2>3. mishaps' = {} /\ Early' => e # "server"
      BY <1>1, <2>1, <1>23, NotEarly DEF Grows
    <2>4. \A r : r = Ack(e, sendSeq[e], next) => Sound(r)
      <3>1. mishaps' = {} => \A x : x = next => Owed(Peer(e), x)'
        BY <2>1
      <3>2. mishaps' = {} /\ Early' /\ e = "server" => sendSeq[e] = ISN["server"]
        BY <2>3
      <3>. HIDE DEF IInv, Shape
      <3>. DEFINE seq == sendSeq[e]
      <3>. HIDE DEF seq
      <3>3. ASSUME NEW a, NEW b \in Seqs, a = seq, b = next PROVE \A r : r = Ack(e, a, b) => Sound(r)
        <4>1. mishaps' = {} => Owed(Peer(e), b)'
          BY <3>1, <3>3
        <4>2. a \in Seqs /\ (mishaps' = {} /\ Early' /\ e = "server" => a = ISN["server"])
          BY <2>2, <3>2, <3>3 DEF seq
        <4>. QED
          BY <4>1, <4>2, SoundAck
      <3>. QED
        BY <2>2, <3>3 DEF seq
    <2>. QED
      BY <1>2, <2>4, Arrives
  <1>25. NetShape'
    BY <1>22, <1>23, <1>24, Network
  <1>26. ASSUME mishaps' = {} PROVE Aligned'
    <2>. USE DEF Aligned
    <2>19. /\ mishaps = {} /\ Aligned /\ Carried'
           /\ \A r \in net' : Says(r)' /\ (Early' => Opens(r))
      BY <1>26, <1>22, <1>23, <1>24, Network
    <2>20. Sender' /\ Kept'
      BY <2>19 DEF HandleData, appVars, callVars, windowVars, workerVars, Sender, SenderAt,
         Held, Waiting, Kept
    <2>21. Receiver'
      <3>1. \A d \in End : d # e => /\ receiveSeq'[d] = receiveSeq[d] /\ received'[d] = received[d]
                                   /\ pendingAck'[d] = pendingAck[d]
        BY <1>2 DEF StreamShape
      <3>2. \A d \in End : \A ack : ack = pendingAck'[d] => Owed(Peer(d), ack)'
        <4>1. ASSUME NEW d \in End, d # e PROVE \A ack : ack = pendingAck'[d] => Owed(Peer(d), ack)'
          <5>1. Owed(Peer(d), pendingAck[d])
            BY <2>19 DEF Receiver
          <5>2. \A ack : Owed(Peer(d), ack) => Owed(Peer(d), ack)'
            BY <1>22, <1>23, OwedStays, Ends
          <5>. QED
            BY <3>1, <4>1, <5>1, <5>2
        <4>2. \A ack : ack = pendingAck'[e] => Owed(Peer(e), ack)'
          <5>1. pendingAck'[e] \in {0, next}
            BY <1>2 DEF StreamShape
          <5>2. \A x : x = 0 => Owed(Peer(e), x)'
            BY DEF Owed
          <5>. QED
            BY <1>5, <2>19, <5>1, <5>2
        <4>. QED
          BY <4>1, <4>2
      <3>3. \A d \in End : d # e => /\ \/ receiveSeq'[d] = 0 /\ received'[d] = <<>>
                                      \/ receiveSeq'[d] = Reached(d)'
                                   /\ \A i \in DOMAIN received'[d] : received'[d][i] = i
        BY <2>19, <3>1 DEF Receiver, Reached
      <3>. QED
        BY <1>5, <2>19, <3>2, <3>3 DEF Receiver
    <2>22. Honest'
      <3>1. \A d \in End : Owed(d, sendAck[d])
        BY <2>19 DEF Honest
      <3>2. \A d \in End : \A ack : Owed(d, ack) => Owed(d, ack)'
        BY <1>22, <1>23, OwedStays
      <3>. QED
        BY <2>19, <3>1, <3>2 DEF HandleData, windowVars, Honest
    <2>23. Handshake'
      <3>1. Early' => Early /\ e # "server"
        BY <1>1, <2>19, NotEarly DEF HandleData, Early
      <3>2. Early' => pendingAck'["server"] = pendingAck["server"]
        BY <1>2, <3>1, Ends DEF StreamShape
      <3>. QED
        BY <2>19, <3>1, <3>2 DEF HandleData, windowVars, workerVars, Handshake
    <2>. QED
      BY <2>19, <2>20, <2>21, <2>22, <2>23
  <1>. QED
    BY <1>20, <1>21, <1>22, <1>25, <1>26

LEMMA HandleDataKeeps ==
  ASSUME IInv, NEW e \in End, NEW p \in net, HandleData(e, p)
  PROVE  IInv'
  <1>. DEFINE full == Len(received[e]) - taken[e] + Len(p.data) > BufferSize
  <1>1. p.to = e /\ p.type = "data"
    BY DEF HandleData, Deliver
  <1>2. CASE ~InSequence(e, p)
    <2>1. Answer(p, {RepeatedAck(e, p)}) /\ OnlyNet
      BY <1>2 DEF HandleData, OnlyNet
    <2>. QED
      BY <1>1, <2>1, AnswersKeeps
  <1>3. CASE InSequence(e, p) /\ full
    <2>1. Answer(p, {}) /\ OnlyNet
      BY <1>3 DEF HandleData, OnlyNet
    <2>. QED
      BY <1>1, <2>1, AnswersKeeps
  <1>4. CASE InSequence(e, p) /\ ~full
    BY <1>4, StoresKeeps
  <1>. QED
    BY <1>2, <1>3, <1>4

(* The retransmission worker: it collects entries, and sends them again. *)
LEMMA PartKeeps ==
  ASSUME NEW e \in End, NEW q, Table(e, q), NEW S \in SUBSET DOMAIN q
  PROVE  LET part == [s \in S |-> q[s]] IN
         Table(e, part) /\ (AllAt(e, q) => AllAt(e, part)) /\ (OnlySyn(q) => OnlySyn(part))
  BY DEF Table, AllAt, OnlySyn

LEMMA GetExpiredKeeps ==
  ASSUME IInv, NEW e \in End, GetExpired(e)
  PROVE  IInv'
  <1>. USE DEF IInv, Shape
  <1>1. PICK S \in SUBSET DOMAIN retransQueue[e] :
           expired' = [expired EXCEPT ![e] = [s \in S |-> retransQueue[e][s]]]
    BY DEF GetExpired
  <1>. DEFINE part == [s \in S |-> retransQueue[e][s]]
  <1>2. expired' = [expired EXCEPT ![e] = part]
    BY <1>1
  <1>3. /\ Table(e, part) /\ (AllAt(e, retransQueue[e]) => AllAt(e, part))
        /\ OnlySyn(retransQueue[e]) => OnlySyn(part)
    BY PartKeeps DEF QueueShape
  <1>. HIDE DEF part
  <1>20. FlagShape' /\ SeqShape' /\ WindowShape' /\ StreamShape' /\ SendShape' /\ WorkerShape'
     /\ NetShape' /\ Calls' /\ Bounded'
    BY DEF GetExpired, appVars, callVars, signalVars, streamVars, windowVars, FlagShape,
       SeqShape, WindowShape, StreamShape, SendShape, WorkerShape, NetShape, Calls, Bounded,
       BoundedAt, Held, Waiting
  <1>21. QueueShape'
    BY <1>2, <1>3 DEF GetExpired, windowVars, QueueShape
  <1>22. Phases'
    BY <1>2 DEF GetExpired, appVars, callVars, Open, QueueShape, Phases
  <1>23. ASSUME mishaps' = {} PROVE Aligned'
    <2>. USE DEF Aligned
    <2>19. mishaps = {} /\ Aligned
      BY <1>23 DEF GetExpired
    <2>20. Sender' /\ Carried' /\ Receiver' /\ Honest'
      BY <2>19 DEF GetExpired, appVars, callVars, streamVars, windowVars, Sender, SenderAt,
         Held, Waiting, Carried, Receiver, Owed, Reached, Honest, Says
    <2>21. Kept'
      <3>1. AllAt(e, part)
        BY <1>3, <2>19 DEF Kept
      <3>. QED
        BY <1>2, <2>19, <3>1 DEF GetExpired, windowVars, QueueShape, Kept
    <2>22. Handshake'
      <3>1. Early => OnlySyn(expired'["client"])
        BY <1>2, <1>3, <2>19, Ends DEF QueueShape, Handshake
      <3>. QED
        BY <2>19, <3>1 DEF GetExpired, streamVars, windowVars, Handshake, Early
    <2>. QED
      BY <2>20, <2>21, <2>22
  <1>. QED
    BY <1>20, <1>21, <1>22, <1>23

(* A cut after a loss keeps the window between its bounds. *)
LEMMA Shrinks ==
  ASSUME Shape, NEW e \in End, Shrink(e)
  PROVE  cwnd' \in [End -> 2 * MTU..Window] /\ ssthresh' \in [End -> 2 * MTU..Window]
  <1>. DEFINE half == IF cwnd[e] \div 2 < 2 * MTU THEN 2 * MTU ELSE cwnd[e] \div 2
  <1>1. cwnd[e] \in Nat /\ cwnd[e] <= Window /\ cwnd[e] >= 2 * MTU
    BY Consts DEF Shape, WindowShape
  <1>2. cwnd[e] \div 2 \in Int /\ cwnd[e] \div 2 <= cwnd[e]
    BY <1>1
  <1>3. half \in 2 * MTU..Window
    BY <1>1, <1>2, Consts
  <1>4. cwnd' = [cwnd EXCEPT ![e] = half] /\ ssthresh' = [ssthresh EXCEPT ![e] = half]
    BY DEF Shrink
  <1>. HIDE DEF half
  <1>. QED
    BY <1>3, <1>4 DEF Shape, WindowShape

LEMMA ResentIsSound ==
  ASSUME IInv, Grows, NEW e \in End, NEW s, NEW x, Entries(e, s, x),
         AllAt(e, retransQueue[e]) /\ AllAt(e, expired[e]) => At(e, s, x.data),
         OnlySyn(retransQueue[e]) /\ OnlySyn(expired[e]) => x.type = "syn"
  PROVE  \A p : p = Resent(e, s, x) => Sound(p)
  <1>. SUFFICES ASSUME NEW p, p = Resent(e, s, x) PROVE Sound(p)
    OBVIOUS
  <1>1. /\ Fits(p) /\ p.to = Peer(e) /\ p.type = x.type /\ p.type \in {"syn", "data"}
        /\ At(e, s, x.data) => Carries(p)
    BY ResentPacket
  <1>2. mishaps' = {} => Aligned /\ (Early' => Early)
    BY DEF Grows, IInv
  <1>3. mishaps' = {} => Carries(p) /\ Says(p)'
    BY <1>1, <1>2 DEF Aligned, Kept, Says
  <1>4. mishaps' = {} /\ Early' => Opens(p)
    BY <1>1, <1>2, Ends DEF Aligned, Handshake, Opens, End
  <1>. QED
    BY <1>1, <1>3, <1>4 DEF Sound

LEMMA RetriesKeeps ==
  ASSUME IInv, NEW e \in End, NEW s, Retransmit(e, s), ~(Over(retransQueue[e],
     expired[e])[s].attempts >= MaxRetransmissions)
  PROVE  IInv'
  <1>. USE DEF IInv, Shape
  <1>1. s \in DOMAIN expired[e] /\ ~done[e]
    BY DEF Retransmit, Phases, NoEntries
  <1>. DEFINE entry == Over(retransQueue[e], expired[e])[s]
  <1>2. /\ Entries(e, s, entry)
        /\ AllAt(e, retransQueue[e]) /\ AllAt(e, expired[e]) => At(e, s, entry.data)
        /\ OnlySyn(retransQueue[e]) /\ OnlySyn(expired[e]) => entry.type = "syn"
    <2>1. s \in DOMAIN Over(retransQueue[e], expired[e])
      BY <1>1 DEF Over
    <2>2. Table(e, retransQueue[e]) /\ Table(e, expired[e])
      BY DEF QueueShape
    <2>. QED
      BY <2>1, <2>2, OverKeeps DEF Table, AllAt, OnlySyn
  <1>3. /\ retransQueue' = [retransQueue EXCEPT ![e] = With(@, s, Retried(entry))]
        /\ expired' = [expired EXCEPT ![e] = Without(@, {s})]
        /\ retransQueue'[e] = With(retransQueue[e], s, Retried(entry))
        /\ expired'[e] = Without(expired[e], {s})
        /\ net' \in UnderWay(net, {Resent(e, s, entry)})
    BY DEF Retransmit, Transmit, QueueShape
  <1>. HIDE DEF entry
  <1>4. /\ Entries(e, s, Retried(entry))
        /\ Retried(entry).data = entry.data /\ Retried(entry).type = entry.type
    BY <1>2, RetriedKeeps
  <1>20. FlagShape' /\ SeqShape' /\ StreamShape' /\ SendShape' /\ WorkerShape' /\ Calls' /\
     Bounded'
    BY ZenonT(60) DEF Retransmit, appVars, callVars, signalVars, streamVars, FlagShape, SeqShape,
       StreamShape, SendShape, WorkerShape, Calls, Bounded, BoundedAt, Held, Waiting
  <1>21. WindowShape'
    <2>1. Shrink(e) \/ UNCHANGED <<cwnd, ssthresh>>
      BY DEF Retransmit
    <2>2. cwnd' \in [End -> 2 * MTU..Window] /\ ssthresh' \in [End -> 2 * MTU..Window]
      BY <2>1, Shrinks DEF WindowShape
    <2>. QED
      BY <2>2 DEF Retransmit, WindowShape
  <1>22. QueueShape'
    <2>1. Table(e, retransQueue'[e]) /\ Table(e, expired'[e])
      BY <1>3, <1>4, WithKeeps, WithoutKeeps DEF QueueShape
    <2>. QED
      BY <1>3, <2>1 DEF QueueShape
  <1>23. Phases'
    BY <1>1, <1>3 DEF Retransmit, appVars, callVars, QueueShape, Phases
  <1>24. Grows
    BY Streams DEF Retransmit, callVars, streamVars, Grows, Early
  <1>25. \A p \in net' : p \in net \/ Sound(p)
    <2>1. \A p : p = Resent(e, s, entry) => Sound(p)
      BY <1>2, <1>24, ResentIsSound DEF QueueShape
    <2>. QED
      BY <1>3, <2>1, Arrives
  <1>26. NetShape'
    BY <1>20, <1>24, <1>25, Network
  <1>27. ASSUME mishaps' = {} PROVE Aligned'
    <2>. USE DEF Aligned
    <2>19. /\ mishaps = {} /\ Aligned /\ Carried'
           /\ \A p \in net' : Says(p)' /\ (Early' => Opens(p))
      BY <1>27, <1>20, <1>24, <1>25, Network
    <2>20. Sender' /\ Receiver'
      BY <2>19 DEF Retransmit, appVars, callVars, streamVars, Sender, SenderAt, Held, Waiting,
         Receiver, Owed, Reached
    <2>21. Kept'
      <3>1. AllAt(e, retransQueue[e]) /\ AllAt(e, expired[e])
        BY <2>19 DEF Kept
      <3>2. AllAt(e, retransQueue'[e]) /\ AllAt(e, expired'[e])
        BY <1>2, <1>3, <1>4, <3>1, WithKeeps, WithoutKeeps DEF QueueShape
      <3>. QED
        BY <1>3, <2>19, <3>2 DEF QueueShape, Kept
    <2>22. Honest'
      <3>1. \A d \in End : Owed(d, sendAck[d])
        BY <2>19 DEF Honest
      <3>2. \A d \in End : \A ack : Owed(d, ack) => Owed(d, ack)'
        BY <1>20, <1>24, OwedStays
      <3>. QED
        BY <2>19, <3>1, <3>2 DEF Retransmit, Honest
    <2>23. Handshake'
      <3>1. Early /\ e = "client" => OnlySyn(retransQueue[e]) /\ OnlySyn(expired[e])
        BY <2>19 DEF Handshake
      <3>2. Early /\ e = "client" => OnlySyn(retransQueue'[e]) /\ OnlySyn(expired'[e])
        BY <1>2, <1>3, <1>4, <3>1, WithKeeps, WithoutKeeps DEF QueueShape
      <3>3. Early => OnlySyn(retransQueue'["client"]) /\ OnlySyn(expired'["client"])
        BY <1>3, <2>19, <3>2, Ends DEF QueueShape, Handshake
      <3>. QED
        BY <2>19, <3>3 DEF Retransmit, streamVars, Handshake, Early
    <2>. QED
      BY <2>19, <2>20, <2>21, <2>22, <2>23
  <1>. QED
    BY <1>20, <1>21, <1>22, <1>23, <1>26, <1>27

LEMMA RetransmitKeeps ==
  ASSUME IInv, NEW e \in End, NEW s, Retransmit(e, s)
  PROVE  IInv'
  <1>1. CASE Over(retransQueue[e], expired[e])[s].attempts >= MaxRetransmissions
    <2>1. CanClose(e) /\ Closed(e, {}) /\ CallEnds(e) /\ AllSound({})
      BY <1>1 DEF Retransmit, CallEnds, AllSound
    <2>. QED
      BY <2>1, ClosedKeeps
  <1>. QED
    BY <1>1, RetriesKeeps

LEMMA SynAnsweredKeeps ==
  ASSUME IInv, NEW e \in End, NEW p \in net, HandleSyn(e, p), state[e] = "listening"
  PROVE  IInv'
  <1>. USE DEF IInv, Shape
  <1>1. e = "server" /\ state[e] = "listening" /\ accepted[e] = 0 /\ p.seq = ISN["client"]
    BY Ends DEF HandleSyn, Deliver, NetShape, Fits, FlagShape, Phases, End
  <1>2. /\ sendSeq' = [sendSeq EXCEPT ![e] = ISN[e]]
        /\ receiveSeq' = [receiveSeq EXCEPT ![e] = ISN["client"] + 1]
        /\ listenChan' = [listenChan EXCEPT ![e] = TRUE]
        /\ net' \in UnderWay(net \ {p}, {Ack(e, ISN[e], ISN["client"] + 1)})
        /\ mishaps' = mishaps \cup (IF received[e] # <<>> THEN {"sequence reset"} ELSE {})
    BY <1>1 DEF HandleSyn, Answer
  <1>3. ISN["client"] + 1 \in Seqs /\ FirstSeq("client") = ISN["client"] + 1 /\ ISN[e] \in Seqs
    <2>1. /\ ISN["client"] \in Nat /\ Bytes["client"] \in Nat /\ ISN[e] \in Nat /\ Bytes[e] \in Nat
          /\ Top("client") = ISN["client"] + 1 + Bytes["client"] /\ Top(e) = ISN[e] + 1 + Bytes[e]
      BY Consts, Ends
    <2>2. ISN["client"] + 1 <= Top("client") /\ ISN["client"] + 1 \in Nat /\ ISN[e] <= Top(e)
      BY <2>1
    <2>. QED
      BY <2>1, <2>2, SeqsBound, Ends DEF FirstSeq
  <1>4. Untouched(e)
    BY <1>2 DEF HandleSyn, appVars, callVars, workerVars, Untouched, SeqShape
  <1>20. WindowShape' /\ SendShape' /\ WorkerShape' /\ QueueShape' /\ Phases'
    BY DEF HandleSyn, appVars, callVars, workerVars, WindowShape, SendShape, WorkerShape,
       QueueShape, Phases
  <1>21. FlagShape'
    BY <1>2 DEF HandleSyn, callVars, streamVars, FlagShape
  <1>22. SeqShape'
    BY <1>2, Consts DEF HandleSyn, signalVars, SeqShape
  <1>23. StreamShape'
    BY <1>2, <1>3 DEF HandleSyn, appVars, StreamShape
  <1>24. Calls'
    <2>1. sendSeq'["client"] = sendSeq["client"] /\ sendSeq'["server"] = ISN["server"]
      BY <1>1, <1>2, Ends DEF SeqShape
    <2>2. UNCHANGED <<calling, state, accepted>>
      BY DEF HandleSyn, appVars, callVars
    <2>. QED
      BY <1>1, <2>1, <2>2 DEF Calls
  <1>25. Bounded'
    <2>1. /\ worker'[e].seq = worker[e].seq /\ accepted'[e] = accepted[e]
          /\ Held(e)' = Held(e) /\ Waiting(e)' = Waiting(e) /\ sendSeq'[e] = ISN[e]
      BY <1>2 DEF HandleSyn, appVars, workerVars, Held, Waiting, SeqShape
    <2>2. Held(e) = 0 /\ Waiting(e) = 0 /\ BoundedAt(e) /\ ISN[e] \in Nat /\ accepted[e] = 0
      BY <1>1, NothingYet, Consts DEF Phases, Bounded
    <2>3. BoundedAt(e)'
      BY <2>1, <2>2 DEF BoundedAt
    <2>. QED
      BY <1>4, <2>3, BoundedKept
  <1>26. Grows
    <2>1. UNCHANGED <<received, state, done>> /\ mishaps \subseteq mishaps'
      BY <1>2 DEF HandleSyn, callVars
    <2>. QED
      BY <2>1, Streams DEF Grows, Early
  <1>27. \A r \in net' : r \in net \/ Sound(r)
    <2>1. Owed(Peer(e), ISN["client"] + 1)'
      <3>1. /\ Peer(e) = "client" /\ Peer("client") = e /\ Len(received'[e]) \in Nat
            /\ FirstSeq("client") \in Nat
        BY <1>1, <1>23, Ends, Consts, LenProperties DEF StreamShape
      <3>. QED
        BY <1>3, <3>1 DEF Owed, Reached
    <2>2. \A r : r = Ack(e, ISN[e], ISN["client"] + 1) => Sound(r)
      BY <1>1, <1>3, <2>1, SoundAck
    <2>. DEFINE reply == Ack(e, ISN[e], ISN["client"] + 1)
    <2>3. net' \in UnderWay(net \ {p}, {reply})
      BY <1>2
    <2>. HIDE DEF reply
    <2>4. \A r \in net' : r \in net \/ r = reply
      BY <2>3, Arrives
    <2>. QED
      BY <2>2, <2>4 DEF reply
  <1>28. NetShape'
    BY <1>23, <1>26, <1>27, Network
  <1>29. ASSUME mishaps' = {} PROVE Aligned'
    <2>. USE DEF Aligned
    <2>19. /\ mishaps = {} /\ Aligned /\ Carried'
           /\ \A r \in net' : Says(r)' /\ (Early' => Opens(r))
      BY <1>29, <1>23, <1>26, <1>27, Network
    <2>20. Kept'
      BY <2>19 DEF HandleSyn, workerVars, Kept
    <2>21. Sender'
      <3>1. SenderAt(e)'
        BY <1>1 DEF HandleSyn, SenderAt
      <3>. QED
        BY <1>4, <2>19, <3>1, SenderKept
    <2>22. Receiver'
      <3>1. received[e] = <<>> /\ UNCHANGED <<received, pendingAck>>
        BY <1>29, <1>2 DEF HandleSyn
      <3>2. receiveSeq'[e] = Reached(e)'
        BY <1>1, <1>2, <1>3, <3>1, Ends, Consts, SMTT(30) DEF StreamShape, Reached, FirstSeq
      <3>3. \A d \in End : d # e => receiveSeq'[d] = receiveSeq[d]
        BY <1>2 DEF StreamShape
      <3>4. \A d \in End : Reached(d)' = Reached(d) /\ \A x : Owed(d, x)' = Owed(d, x)
        BY <3>1 DEF Reached, Owed
      <3>. QED
        <4>1. ASSUME NEW d \in End
              PROVE  /\ \/ receiveSeq'[d] = 0 /\ received'[d] = <<>>
                        \/ receiveSeq'[d] = Reached(d)'
                     /\ \A i \in DOMAIN received'[d] : received'[d][i] = i
          BY <2>19, <3>1, <3>2, <3>3, <3>4 DEF Receiver
        <4>2. \A d \in End : \A x : x = pendingAck'[d] => Owed(Peer(d), x)'
          BY <2>19, <3>1, <3>4, Ends DEF Receiver
        <4>3. \A d \in End : \A x : x = pendingAck'[d] /\ Owed(Peer(d), x)' => (Owed(Peer(d), pendingAck[d]))'
          BY DEF Owed, Reached
        <4>. QED
          BY <4>1, <4>2, <4>3 DEF Receiver
    <2>23. Honest'
      <3>1. \A d \in End : Owed(d, sendAck[d])
        BY <2>19 DEF Honest
      <3>2. \A d \in End : \A ack : Owed(d, ack) => Owed(d, ack)'
        BY <1>23, <1>26, OwedStays
      <3>. QED
        BY <2>19, <3>1, <3>2 DEF HandleSyn, Honest
    <2>24. Handshake'
      BY <2>19 DEF HandleSyn, workerVars, Handshake, Early
    <2>. QED
      BY <2>19, <2>20, <2>21, <2>22, <2>23, <2>24
  <1>. QED
    BY <1>20, <1>21, <1>22, <1>23, <1>24, <1>25, <1>28, <1>29

LEMMA HandleSynKeeps ==
  ASSUME IInv, NEW e \in End, NEW p \in net, HandleSyn(e, p)
  PROVE  IInv'
  <1>1. CASE state[e] # "listening"
    <2>1. Answer(p, {}) /\ OnlyNet
      BY <1>1 DEF HandleSyn, OnlyNet, windowVars, streamVars, signalVars
    <2>2. \A r \in net' : r \in net
      BY <2>1, Arrives DEF Answer
    <2>. QED
      BY <2>1, <2>2, OnlyNetKeeps
  <1>. QED
    BY <1>1, SynAnsweredKeeps

(* A FIN comes from an end that is done: its acknowledgement, by a number  *)
(* that says nothing of what was received, reaches nobody.                 *)
LEMMA HandleFinKeeps ==
  ASSUME IInv, NEW e \in End, NEW p \in net, HandleFin(e, p)
  PROVE  IInv'
  <1>. DEFINE packets == {Ack(e, sendSeq[e], p.seq)}
  <1>1. p.to = e /\ p.type = "fin" /\ p.seq \in Seqs /\ mishaps' = mishaps
    BY DEF HandleFin, Deliver, Closed, IInv, Shape, NetShape, Fits
  <1>2. AllSound(packets)
    <2>. SUFFICES ASSUME NEW r, r = Ack(e, sendSeq[e], p.seq), Open(r.to) PROVE Sound(r)
      BY DEF AllSound
    <2>1. Fits(r) /\ r.to = Peer(e)
      BY <1>1, AckPacket, Numbers DEF IInv
    <2>2. mishaps = {} => done[Peer(e)]
      BY <1>1 DEF IInv, Aligned, Honest, Says
    <2>3. mishaps' # {}
      BY <1>1, <2>1, <2>2 DEF Open
    <2>. QED
      BY <2>1, <2>3 DEF Sound
  <1>. HIDE DEF packets
  <1>3. CASE CanClose(e)
    <2>1. Closed(e, packets) /\ CallEnds(e)
      BY <1>3 DEF HandleFin, CallEnds, packets
    <2>. QED
      BY <1>2, <1>3, <2>1, ClosedKeeps
  <1>4. CASE ~CanClose(e)
    <2>1. net' \in UnderWay(net \ {p}, packets) /\ OnlyNet
      BY <1>4 DEF HandleFin, Answer, OnlyNet, packets
    <2>2. \A r \in net' : r \in net \/ Sound(r)
      BY <1>2, <2>1, New DEF AllSound
    <2>. QED
      BY <2>1, <2>2, OnlyNetKeeps
  <1>. QED
    BY <1>3, <1>4

(* An acknowledgement.  What it does to the sending side: it fills the     *)
(* window with the first n bytes that wait, and leaves a table of entries. *)
Filled(e, n) ==
    /\ n \in Nat /\ n <= Waiting(e) /\ (n > 0 => state[e] = "connected")
    /\ sendSeq' = [sendSeq EXCEPT ![e] = @ + n]
    /\ sendBuffer' = [sendBuffer EXCEPT ![e] = SubSeq(@, n + 1, Len(@))]
Requeued(e, q) ==
    /\ retransQueue' = [retransQueue EXCEPT ![e] = q] /\ Table(e, q)
    /\ mishaps' = {} => AllAt(e, q) /\ (Early /\ e = "client" => OnlySyn(q))

LEMMA NothingFilled ==
  ASSUME Shape, NEW e \in End, UNCHANGED <<sendSeq, sendBuffer>>
  PROVE  Filled(e, 0)
  <1>1. sendSeq[e] \in Nat /\ Waiting(e) \in Nat
    BY Numbers
  <1>2. SubSeq(sendBuffer[e], 0 + 1, Len(sendBuffer[e])) = sendBuffer[e]
    BY Streams, SubSeqFull
  <1>3. sendSeq[e] + 0 = sendSeq[e]
    BY <1>1
  <1>4. sendSeq' = [sendSeq EXCEPT ![e] = @ + 0]
    BY <1>3 DEF Shape, SeqShape
  <1>5. sendBuffer' = [sendBuffer EXCEPT ![e] = SubSeq(@, 0 + 1, Len(@))]
    BY <1>2 DEF Shape, SendShape
  <1>6. 0 \in Nat /\ 0 <= Waiting(e) /\ ~(0 > 0)
    BY <1>1
  <1>. QED
    BY <1>4, <1>5, <1>6, Zenon DEF Filled

LEMMA FollowedKeeps ==
  ASSUME Shape, NEW e \in End, NEW ack \in Nat
  PROVE  LET q == retransQueue[e]
             followed == Followed(e, ack, TrimUpTo(q, ack)) IN
         /\ Table(e, followed)
         /\ AllAt(e, q) /\ AllAt(e, expired[e]) => AllAt(e, followed)
         /\ OnlySyn(q) /\ OnlySyn(expired[e]) => OnlySyn(followed)
  <1>. DEFINE q == retransQueue[e]
              trimmed == TrimUpTo(q, ack)
              all == Over(trimmed, Over(q, expired[e]))
              S == {IF s \in Split(q, ack) THEN ack ELSE s : s \in DOMAIN expired[e]}
  <1>1. Table(e, q) /\ Table(e, expired[e])
    BY DEF Shape, QueueShape
  <1>2. Split(q, ack) # {} => ack \in DOMAIN trimmed
    BY DEF TrimUpTo, Over
  <1>3. Followed(e, ack, trimmed) = [s \in S |-> all[s]]
    BY DEF Followed
  <1>. HIDE DEF q
  <1>4. /\ Table(e, trimmed) /\ (AllAt(e, q) => AllAt(e, trimmed))
        /\ OnlySyn(q) => OnlySyn(trimmed)
    BY <1>1, TrimKeeps
  <1>. HIDE DEF trimmed
  <1>5. /\ Table(e, all)
        /\ AllAt(e, q) /\ AllAt(e, expired[e]) => AllAt(e, all)
        /\ OnlySyn(q) /\ OnlySyn(expired[e]) => OnlySyn(all)
    <2>. DEFINE rest == Over(q, expired[e])
    <2>1. /\ Table(e, rest)
          /\ AllAt(e, q) /\ AllAt(e, expired[e]) => AllAt(e, rest)
          /\ OnlySyn(q) /\ OnlySyn(expired[e]) => OnlySyn(rest)
      BY <1>1, OverKeeps
    <2>. HIDE DEF rest
    <2>2. /\ Table(e, Over(trimmed, rest))
          /\ AllAt(e, trimmed) /\ AllAt(e, rest) => AllAt(e, Over(trimmed, rest))
          /\ OnlySyn(trimmed) /\ OnlySyn(rest) => OnlySyn(Over(trimmed, rest))
      BY <1>4, <2>1, OverKeeps
    <2>. QED
      BY <1>4, <2>1, <2>2 DEF rest
  <1>6. S \in SUBSET DOMAIN all
    BY <1>2 DEF Over
  <1>. HIDE DEF all, S
  <1>. QED
    BY <1>3, <1>5, <1>6, PartKeeps DEF q, trimmed

(* The window after an ACK that advances. *)
LEMMA GrownFits ==
  ASSUME Shape, NEW e \in End
  PROVE  Grown(e) \in 2 * MTU..Window /\ Grown(e) \in Nat
  <1>1. /\ cwnd[e] \in Nat /\ cwnd[e] > 0 /\ cwnd[e] <= Window /\ cwnd[e] >= 2 * MTU
        /\ MTU \in Nat /\ Window \in Nat
    BY Consts DEF Shape, WindowShape
  <1>2. \A a \in Nat, b \in Nat : b > 0 => a \div b \in Nat
    OBVIOUS
  <1>3. MTU * MTU \in Nat
    BY <1>1
  <1>. DEFINE more == (MTU * MTU) \div cwnd[e]
              wnd == IF cwnd[e] < ssthresh[e] THEN cwnd[e] + MTU ELSE cwnd[e] + more
  <1>4. more \in Nat
    BY <1>1, <1>2, <1>3
  <1>5. Grown(e) = Smaller(Window, wnd)
    BY DEF Grown
  <1>. HIDE DEF more
  <1>6. wnd \in Nat /\ wnd >= 2 * MTU
    BY <1>1, <1>4
  <1>. HIDE DEF wnd
  <1>. QED
    BY <1>1, <1>5, <1>6, Consts DEF Smaller

LEMMA ChunkAt ==
  ASSUME Shape, NEW e \in End, NEW n \in Nat, n <= Waiting(e), NEW i \in DOMAIN Chunks(e, n)
  PROVE  /\ i \in Nat /\ i < n /\ Chunks(e, n)[i] \in Seq(Stream(e))
         /\ sendSeq[e] + i \in Nat /\ sendSeq[e] + i + Len(Chunks(e, n)[i]) <= Top(e)
         /\ At(e, sendSeq[e], sendBuffer[e]) => At(e, sendSeq[e] + i, Chunks(e, n)[i])
  <1>. DEFINE last == Smaller(i + MTU, n)
              part == SubSeq(sendBuffer[e], i + 1, last)
  <1>1. i \in 0..n - 1 /\ Chunks(e, n)[i] = part
    BY DEF Chunks
  <1>2. last \in Nat /\ i <= last /\ last <= n
    BY <1>1, Consts DEF Smaller
  <1>3. /\ Waiting(e) \in Nat /\ Waiting(e) = Len(sendBuffer[e]) /\ sendSeq[e] \in Nat
        /\ sendSeq[e] + Waiting(e) <= Top(e) /\ Top(e) \in Nat
        /\ sendBuffer[e] \in Seq(Stream(e))
    BY Numbers, Streams, Consts DEF Waiting
  <1>. HIDE DEF last
  <1>4. part \in Seq(Stream(e)) /\ Len(part) = last - i
    BY <1>1, <1>2, <1>3, Part
  <1>5. At(e, sendSeq[e], sendBuffer[e]) => At(e, sendSeq[e] + i, part)
    BY <1>1, <1>2, <1>3, AtPart
  <1>. HIDE DEF part
  <1>6. sendSeq[e] + i + (last - i) <= Top(e)
    BY <1>1, <1>2, <1>3
  <1>. QED
    BY <1>1, <1>3, <1>4, <1>5, <1>6

LEMMA AckSettlesKeeps ==
  ASSUME IInv, NEW e \in End, NEW p \in net, HandleAck(e, p), NEW n, Filled(e, n), NEW q,
     Requeued(e, q), WindowShape', \E ack \in {sendAck[e], p.ack} : sendAck' = [sendAck EXCEPT
     ![e] = ack], \A r \in net' : r \in net \/ Sound(r)
  PROVE  IInv'
  <1>. USE DEF IInv, Shape
  <1>1. /\ p.to = e /\ p.type = "ack" /\ p.seq \in Seqs /\ p.ack \in Seqs /\ p.ack \in Nat
        /\ \E ack \in {sendAck[e], p.ack} : sendAck' = [sendAck EXCEPT ![e] = ack]
    <2>1. p.to = e /\ p.type = "ack" /\ p.seq \in Seqs /\ p.ack \in Seqs
      BY DEF HandleAck, Deliver, NetShape, Fits
    <2>2. p.ack \in Nat
      BY <2>1 DEF Seqs
    <2>. QED
      BY <2>1, <2>2
  <1>2. /\ sendSeq' = [sendSeq EXCEPT ![e] = @ + n]
        /\ sendBuffer' = [sendBuffer EXCEPT ![e] = SubSeq(@, n + 1, Len(@))]
    BY DEF Filled
  <1>3. /\ n \in Nat /\ n <= Waiting(e) /\ (n > 0 => state[e] = "connected")
        /\ sendBuffer'[e] = SubSeq(sendBuffer[e], n + 1, Len(sendBuffer[e]))
        /\ sendBuffer'[e] \in Seq(Stream(e)) /\ Len(sendBuffer'[e]) = Waiting(e) - n
        /\ (n = 0 => sendSeq' = sendSeq)
    <2>1. n \in Nat /\ n <= Waiting(e) /\ (n > 0 => state[e] = "connected")
      BY DEF Filled
    <2>2. sendBuffer'[e] = SubSeq(sendBuffer[e], n + 1, Len(sendBuffer[e]))
      BY <1>2 DEF SendShape
    <2>3. n = 0 => sendSeq' = sendSeq
      <3>1. \A d \in End : sendSeq[d] + 0 = sendSeq[d]
        BY DEF SeqShape
      <3>. QED
        BY <1>2, <3>1 DEF SeqShape
    <2>4. sendBuffer[e] \in Seq(Stream(e)) /\ Len(sendBuffer[e]) \in Nat
      BY Streams
    <2>5. SubSeq(sendBuffer[e], n + 1, Len(sendBuffer[e])) \in Seq(Stream(e))
          /\ Len(SubSeq(sendBuffer[e], n + 1, Len(sendBuffer[e]))) = Len(sendBuffer[e]) - n
      BY <2>1, <2>4, Part DEF Waiting
    <2>. QED
      BY <2>1, <2>2, <2>3, <2>5 DEF Waiting
  <1>4. /\ retransQueue' = [retransQueue EXCEPT ![e] = q] /\ Table(e, q)
        /\ mishaps' = {} => AllAt(e, q) /\ (Early /\ e = "client" => OnlySyn(q))
    BY DEF Requeued
  <1>. DEFINE followed == Followed(e, p.ack, TrimUpTo(retransQueue[e], p.ack))
  <1>5. /\ expired' = [expired EXCEPT ![e] = followed] /\ Table(e, followed)
        /\ AllAt(e, retransQueue[e]) /\ AllAt(e, expired[e]) => AllAt(e, followed)
        /\ OnlySyn(retransQueue[e]) /\ OnlySyn(expired[e]) => OnlySyn(followed)
    <2>1. expired' = [expired EXCEPT ![e] = followed]
      BY DEF HandleAck
    <2>. QED
      BY <1>1, <2>1, FollowedKeeps
  <1>. HIDE DEF followed
  <1>6. Untouched(e)
    BY <1>2 DEF HandleAck, appVars, callVars, Untouched, SeqShape, SendShape
  <1>20. WorkerShape'
    BY DEF HandleAck, WorkerShape
  <1>21. FlagShape'
    BY DEF HandleAck, appVars, callVars, FlagShape
  <1>22. SeqShape'
    <2>1. sendSeq' \in [End -> Nat]
      BY <1>2, <1>3 DEF SeqShape
    <2>2. ackChan' \in [End -> Seqs]
      BY <1>1 DEF HandleAck, SeqShape
    <2>3. sendAck' \in [End -> Seqs]
      BY <1>1 DEF SeqShape
    <2>. QED
      BY <2>1, <2>2, <2>3 DEF SeqShape
  <1>23. WindowShape'
    OBVIOUS
  <1>24. StreamShape'
    <2>1. receiveSeq' \in [End -> Seqs]
      BY <1>1 DEF HandleAck, StreamShape
    <2>. QED
      BY <2>1 DEF HandleAck, appVars, StreamShape
  <1>25. SendShape'
    <2>1. sendBuffer'[e] \in Seq(Stream(e)) /\ Len(sendBuffer'[e]) <= BufferSize
      <3>1. Len(sendBuffer[e]) <= BufferSize /\ Len(sendBuffer[e]) \in Nat /\ BufferSize \in Nat
        BY Streams, Consts DEF SendShape
      <3>. QED
        BY <1>3, <3>1 DEF Waiting
    <2>2. \A d \in End : d # e => sendBuffer'[d] = sendBuffer[d]
      BY <1>2 DEF SendShape
    <2>. QED
      BY <1>2, <2>1, <2>2 DEF HandleAck, appVars, SendShape
  <1>26. QueueShape'
    BY <1>4, <1>5 DEF QueueShape
  <1>27. Phases'
    <2>1. ~done[e]
      BY DEF HandleAck, Deliver, Open
    <2>. QED
      BY <1>5, <2>1 DEF HandleAck, appVars, callVars, QueueShape, Phases
  <1>28. Calls'
    <2>1. state[e] # "connected" => sendSeq' = sendSeq
      BY <1>2, <1>3 DEF SeqShape
    <2>2. \A d \in End : d # e => sendSeq'[d] = sendSeq[d]
      BY <1>2 DEF SeqShape
    <2>3. UNCHANGED <<calling, state, accepted, listenChan>>
      BY DEF HandleAck, appVars, callVars
    <2>. QED
      BY <2>1, <2>2, <2>3, Ends DEF Calls
  <1>29. Bounded'
    <2>1. BoundedAt(e)
      BY DEF Bounded
    <2>2. /\ Held(e)' = Held(e) /\ Waiting(e)' = Waiting(e) - n /\ accepted'[e] = accepted[e]
          /\ worker'[e].seq = worker[e].seq /\ sendSeq'[e] = sendSeq[e] + n
      BY <1>2, <1>3 DEF HandleAck, appVars, Held, Waiting, SeqShape
    <2>3. /\ Held(e) \in Nat /\ Waiting(e) \in Nat /\ sendSeq[e] \in Nat /\ ISN[e] \in Nat
          /\ worker[e].seq \in Nat /\ accepted[e] \in Nat
      BY Numbers, Consts
    <2>5. /\ Held(e) + Waiting(e) <= accepted[e]
          /\ sendSeq[e] + (Held(e) + Waiting(e)) <= ISN[e] + 1 + accepted[e]
          /\ worker[e].seq + (Held(e) + Waiting(e)) <= ISN[e] + 1 + accepted[e]
      BY <2>1 DEF BoundedAt
    <2>6. /\ Held(e) + (Waiting(e) - n) <= accepted[e]
          /\ (sendSeq[e] + n) + (Held(e) + (Waiting(e) - n)) <= ISN[e] + 1 + accepted[e]
          /\ worker[e].seq + (Held(e) + (Waiting(e) - n)) <= ISN[e] + 1 + accepted[e]
      <3>1. n \in Nat
        BY <1>3
      <3>. QED
        BY <2>3, <2>5, <3>1
    <2>4. BoundedAt(e)'
      BY <2>2, <2>6 DEF BoundedAt
    <2>. QED
      BY <1>6, <2>4, BoundedKept
  <1>30. Grows
    <2>1. UNCHANGED <<received, state, done>> /\ mishaps \subseteq mishaps'
      BY DEF HandleAck, callVars
    <2>. QED
      BY <2>1, Streams DEF Grows, Early
  <1>31. \A r \in net' : r \in net \/ Sound(r)
    OBVIOUS
  <1>32. NetShape'
    BY <1>24, <1>30, <1>31, Network
  <1>33. ASSUME mishaps' = {} PROVE Aligned'
    <2>. USE DEF Aligned
    <2>19. /\ mishaps = {} /\ Aligned /\ Carried'
           /\ \A r \in net' : Says(r)' /\ (Early' => Opens(r))
      BY <1>33, <1>24, <1>30, <1>31, Network
    <2>20. Sender'
      <3>1. SenderAt(e)
        BY <2>19 DEF Sender
      <3>2. /\ Held(e)' = Held(e) /\ Waiting(e)' = Waiting(e) - n /\ sendSeq'[e] = sendSeq[e] + n
            /\ UNCHANGED <<worker, state, done, accepted>>
        BY <1>2, <1>3 DEF HandleAck, appVars, callVars, Held, Waiting, SeqShape
      <3>3. /\ Held(e) \in Nat /\ Waiting(e) \in Nat /\ sendSeq[e] \in Nat /\ FirstSeq(e) \in Nat
            /\ accepted[e] \in Nat
        BY Numbers, Consts
      <3>4. n = 0 \/ worker[e].pc \notin {"read", "written"}
        <4>1. n > 0 => sendSeq'[e] # sendSeq[e]
          BY <1>3, <3>2, <3>3
        <4>2. sendSeq'[e] # sendSeq[e] => worker[e].pc \notin {"read", "written"}
          BY <1>33 DEF HandleAck
        <4>3. n \in Nat
          BY <1>3
        <4>. QED
          BY <4>1, <4>2, <4>3
      <3>5. n = 0 \/ worker[e].data = <<>>
        BY <3>4, HoldsNothing
      <3>6. CASE ~(state[e] = "connected" /\ ~done[e])
        <4>1. SenderAt(e)'
          BY <3>2, <3>6 DEF SenderAt
        <4>. QED
          BY <1>6, <2>19, <4>1, SenderKept
      <3>7. CASE state[e] = "connected" /\ ~done[e]
        <4>1. /\ worker[e].pc \in {"read", "written"} => worker[e].seq = sendSeq[e]
              /\ sendSeq[e] + (Held(e) + Waiting(e)) = FirstSeq(e) + accepted[e]
              /\ At(e, sendSeq[e], worker[e].data)
              /\ At(e, sendSeq[e] + Held(e), sendBuffer[e])
          BY <3>1, <3>7 DEF SenderAt
        <4>2. sendSeq'[e] + (Held(e) + (Waiting(e) - n)) = FirstSeq(e) + accepted[e]
          BY <1>3, <3>2, <3>3, <4>1
        <4>3. worker[e].pc \in {"read", "written"} => worker[e].seq = sendSeq'[e]
          BY <3>2, <3>3, <3>4, <4>1
        <4>4. At(e, sendSeq'[e], worker[e].data)
          <5>1. CASE n = 0
            <6>1. sendSeq'[e] = sendSeq[e]
              BY <3>2, <3>3, <5>1
            <6>. QED
              BY <4>1, <6>1
          <5>2. CASE worker[e].data = <<>>
            BY <5>2 DEF At
          <5>. QED
            BY <3>5, <5>1, <5>2
        <4>5. At(e, sendSeq'[e] + Held(e), sendBuffer'[e])
          <5>1. sendSeq[e] + Held(e) \in Nat /\ (sendSeq[e] + Held(e)) + n = sendSeq'[e] + Held(e)
            BY <1>3, <3>2, <3>3, SMTT(30)
          <5>2. n <= Len(sendBuffer[e]) /\ Len(sendBuffer[e]) \in Nat
            BY <1>3, Streams DEF Waiting
          <5>3. At(e, (sendSeq[e] + Held(e)) + n, SubSeq(sendBuffer[e], n + 1, Len(sendBuffer[e])))
            <6>1. sendBuffer[e] \in Seq(Stream(e)) /\ n \in Nat
              BY <1>3, Streams
            <6>2. At(e, sendSeq[e] + Held(e), sendBuffer[e])
              BY <4>1
            <6>. QED
              BY <5>1, <5>2, <6>1, <6>2, AtPart
          <5>. QED
            BY <1>3, <5>1, <5>3
        <4>6. SenderAt(e)'
          BY <3>2, <4>2, <4>3, <4>4, <4>5 DEF SenderAt
        <4>. QED
          BY <1>6, <2>19, <4>6, SenderKept
      <3>. QED
        BY <3>6, <3>7
    <2>21. Kept'
      <3>1. AllAt(e, retransQueue[e]) /\ AllAt(e, expired[e])
        BY <2>19 DEF Kept
      <3>2. AllAt(e, q) /\ AllAt(e, followed)
        BY <1>33, <1>4, <1>5, <3>1
      <3>. QED
        BY <1>4, <1>5, <2>19, <3>2 DEF QueueShape, Kept
    <2>22. Receiver'
      <3>1. UNCHANGED <<received, pendingAck>>
        BY DEF HandleAck
      <3>2. \/ receiveSeq' = receiveSeq
            \/ /\ state[e] = "connecting" /\ received[e] = <<>>
               /\ receiveSeq' = [receiveSeq EXCEPT ![e] = p.seq]
        BY <1>33 DEF HandleAck
      <3>3. state[e] = "connecting" /\ received[e] = <<>> => p.seq = Reached(e)
        <4>. SUFFICES ASSUME state[e] = "connecting", received[e] = <<>> PROVE p.seq = Reached(e)
          OBVIOUS
        <4>1. e = "client"
          BY Ends DEF FlagShape, End
        <4>2. p.seq = ISN["server"]
          BY <1>1, <2>19, <4>1 DEF Handshake, Early, Opens
        <4>. QED
          BY <4>1, <4>2, Ends, Consts DEF Reached, FirstSeq
      <3>4. \A d \in End : Reached(d)' = Reached(d) /\ \A x : Owed(d, x)' = Owed(d, x)
        BY <3>1 DEF Reached, Owed
      <3>5. ASSUME NEW d \in End
            PROVE  /\ \/ receiveSeq'[d] = 0 /\ received'[d] = <<>>
                      \/ receiveSeq'[d] = Reached(d)'
                   /\ \A i \in DOMAIN received'[d] : received'[d][i] = i
        <4>1. receiveSeq'[d] = receiveSeq[d] \/ receiveSeq'[d] = Reached(d)
          BY <3>2, <3>3 DEF StreamShape
        <4>. QED
          BY <2>19, <3>1, <3>4, <4>1 DEF Receiver
      <3>6. \A d \in End : \A x : x = pendingAck'[d] => Owed(Peer(d), x)'
        BY <2>19, <3>1, <3>4, Ends DEF Receiver
      <3>7. \A d \in End : \A x : x = pendingAck'[d] /\ Owed(Peer(d), x)' => (Owed(Peer(d), pendingAck[d]))'
        BY DEF Owed, Reached
      <3>. QED
        BY <3>5, <3>6, <3>7 DEF Receiver
    <2>23. Honest'
      <3>1. \A d \in End : Owed(d, sendAck'[d])
        <4>1. Owed(e, p.ack) /\ \A d \in End : Owed(d, sendAck[d])
          BY <1>1, <2>19 DEF Honest, Says
        <4>2. \A d \in End : sendAck'[d] = sendAck[d] \/ (d = e /\ sendAck'[d] = p.ack)
          BY <1>1 DEF SeqShape
        <4>. QED
          BY <4>1, <4>2
      <3>2. \A d \in End : \A ack : Owed(d, ack) => Owed(d, ack)'
        BY <1>24, <1>30, OwedStays
      <3>3. \A d \in End : \A x : x = sendAck'[d] => Owed(d, x)'
        BY <3>1, <3>2
      <3>4. \A d \in End : \A x : x = sendAck'[d] /\ Owed(d, x)' => (Owed(d, sendAck[d]))'
        BY DEF Owed, Reached
      <3>. QED
        BY <2>19, <3>3, <3>4 DEF Honest
    <2>24. Handshake'
      <3>1. Early' = Early /\ pendingAck' = pendingAck
        BY DEF HandleAck, Early
      <3>2. Early /\ e = "client" => OnlySyn(q) /\ OnlySyn(followed)
        BY <1>33, <1>4, <1>5, <2>19 DEF Handshake
      <3>3. Early => OnlySyn(retransQueue'["client"]) /\ OnlySyn(expired'["client"])
        BY <1>4, <1>5, <2>19, <3>2, Ends DEF QueueShape, Handshake
      <3>. QED
        BY <2>19, <3>1, <3>3 DEF Handshake
    <2>. QED
      BY <2>19, <2>20, <2>21, <2>22, <2>23, <2>24
  <1>. QED
    BY <1>20, <1>21, <1>22, <1>23, <1>24, <1>25, <1>26, <1>27, <1>28, <1>29, <1>32, <1>33

(* The three ways an acknowledgement may compare to the last. *)
LEMMA AckNumber ==
  ASSUME IInv, NEW e \in End, NEW p \in net
  PROVE  p.ack \in Nat /\ p.ack \in Int /\ Table(e, retransQueue[e])
  <1>1. p.ack \in Seqs /\ Table(e, retransQueue[e])
    BY DEF IInv, Shape, NetShape, Fits, QueueShape
  <1>2. p.ack \in Nat
    BY <1>1 DEF Seqs
  <1>3. \A k \in Nat : k \in Int
    OBVIOUS
  <1>. QED
    BY <1>1, <1>2, <1>3

LEMMA AdvancesKeeps ==
  ASSUME IInv, NEW e \in End, NEW p \in net, HandleAck(e, p),
         Advances(e, p, TrimUpTo(retransQueue[e], p.ack))
  PROVE  IInv'
  <1>. DEFINE trimmed == TrimUpTo(retransQueue[e], p.ack)
              n == ToFill(e, p.ack)
              q == Over(Pending(e, n), trimmed)
  <1>. USE DEF IInv
  <1>1. p.ack \in Nat /\ p.ack \in Int
    BY AckNumber
  <1>2. n \in Nat /\ n <= Waiting(e) /\ (n > 0 => state[e] = "connected")
    <2>1. /\ Allowance(e, p.ack, Grown(e)) \in Nat /\ Allowance(e, p.ack, Grown(e)) <= Waiting(e)
          /\ Waiting(e) \in Nat
      BY <1>1, AllowanceFits, GrownFits, Numbers
    <2>. QED
      BY <2>1 DEF ToFill
  <1>3. /\ sendAck' = [sendAck EXCEPT ![e] = p.ack]
        /\ cwnd' = [cwnd EXCEPT ![e] = Grown(e)] /\ ssthresh' = ssthresh
        /\ dupAckCount' = [dupAckCount EXCEPT ![e] = 0]
        /\ retransQueue' = [retransQueue EXCEPT ![e] = q]
        /\ sendSeq' = [sendSeq EXCEPT ![e] = @ + n]
        /\ sendBuffer' = [sendBuffer EXCEPT ![e] = SubSeq(@, n + 1, Len(@))]
        /\ net' \in UnderWay(net \ {p}, Data(e, n))
    BY DEF Advances, Answer
  <1>4. Table(e, retransQueue[e])
    BY DEF Shape, QueueShape
  <1>. HIDE DEF n
  <1>5. Filled(e, n)
    BY <1>2, <1>3 DEF Filled
  <1>6. /\ Table(e, trimmed) /\ (AllAt(e, retransQueue[e]) => AllAt(e, trimmed))
        /\ OnlySyn(retransQueue[e]) => OnlySyn(trimmed)
    BY <1>1, <1>4, TrimKeeps
  <1>. HIDE DEF trimmed
  <1>7. mishaps' = {} => mishaps = {} /\ Aligned
    BY DEF HandleAck
  <1>8. mishaps' = {} /\ n > 0 => At(e, sendSeq[e], sendBuffer[e])
    <2>. SUFFICES ASSUME mishaps' = {}, n > 0 PROVE At(e, sendSeq[e], sendBuffer[e])
      OBVIOUS
    <2>1. sendSeq[e] \in Nat /\ sendSeq'[e] = sendSeq[e] + n
      BY <1>3, Numbers DEF Shape, SeqShape
    <2>2. sendSeq'[e] # sendSeq[e]
      BY <1>2, <2>1
    <2>3. worker[e].pc \notin {"read", "written"}
      BY <2>2 DEF HandleAck
    <2>4. Held(e) = 0
      BY <2>3, HoldsNothing
    <2>5. state[e] = "connected" /\ ~done[e]
      BY <1>2 DEF HandleAck, Deliver, Open
    <2>6. At(e, sendSeq[e] + Held(e), sendBuffer[e])
      BY <1>7, <2>5 DEF Aligned, Sender, SenderAt
    <2>7. sendSeq[e] + Held(e) = sendSeq[e]
      BY <2>1, <2>4
    <2>. QED
      BY <2>6, <2>7
  <1>9. \A i \in DOMAIN Chunks(e, n) :
           /\ n > 0 /\ Chunks(e, n)[i] \in Seq(Stream(e))
           /\ sendSeq[e] + i \in Nat /\ sendSeq[e] + i + Len(Chunks(e, n)[i]) <= Top(e)
           /\ i = sendSeq[e] + i - sendSeq[e]
           /\ mishaps' = {} => At(e, sendSeq[e] + i, Chunks(e, n)[i])
    <2>. SUFFICES ASSUME NEW i \in DOMAIN Chunks(e, n)
                  PROVE  /\ n > 0 /\ Chunks(e, n)[i] \in Seq(Stream(e))
                         /\ sendSeq[e] + i \in Nat
                         /\ sendSeq[e] + i + Len(Chunks(e, n)[i]) <= Top(e)
                         /\ i = sendSeq[e] + i - sendSeq[e]
                         /\ mishaps' = {} => At(e, sendSeq[e] + i, Chunks(e, n)[i])
      OBVIOUS
    <2>1. /\ i \in Nat /\ i < n /\ Chunks(e, n)[i] \in Seq(Stream(e))
          /\ sendSeq[e] + i \in Nat /\ sendSeq[e] + i + Len(Chunks(e, n)[i]) <= Top(e)
          /\ At(e, sendSeq[e], sendBuffer[e]) => At(e, sendSeq[e] + i, Chunks(e, n)[i])
      BY <1>2, ChunkAt
    <2>2. n > 0 /\ sendSeq[e] \in Nat
      BY <1>2, <2>1, Numbers
    <2>3. i = sendSeq[e] + i - sendSeq[e]
      BY <2>1, <2>2
    <2>. QED
      BY <1>8, <2>1, <2>2, <2>3
  <1>10. /\ Table(e, Pending(e, n)) /\ (mishaps' = {} => AllAt(e, Pending(e, n)))
         /\ (state[e] # "connected" => OnlySyn(Pending(e, n)))
    <2>1. /\ Pending(e, n) = [s \in DOMAIN Pending(e, n) |-> Pending(e, n)[s]]
          /\ \A s \in DOMAIN Pending(e, n) : \E i \in DOMAIN Chunks(e, n) :
                /\ s = sendSeq[e] + i
                /\ Pending(e, n)[s] = Entry("data", Chunks(e, n)[s - sendSeq[e]])
      BY DEF Pending
    <2>2. \A s \in DOMAIN Pending(e, n) : \E i \in DOMAIN Chunks(e, n) :
             s = sendSeq[e] + i /\ Pending(e, n)[s] = Entry("data", Chunks(e, n)[i])
      <3>. SUFFICES ASSUME NEW s \in DOMAIN Pending(e, n)
                    PROVE  \E i \in DOMAIN Chunks(e, n) :
                              s = sendSeq[e] + i /\ Pending(e, n)[s] = Entry("data", Chunks(e, n)[i])
        OBVIOUS
      <3>1. PICK i \in DOMAIN Chunks(e, n) :
               /\ s = sendSeq[e] + i
               /\ Pending(e, n)[s] = Entry("data", Chunks(e, n)[s - sendSeq[e]])
        BY <2>1
      <3>2. s - sendSeq[e] = i
        <4>1. i \in Nat /\ sendSeq[e] \in Nat
          BY <1>2, ChunkAt, Numbers
        <4>2. s = sendSeq[e] + i
          BY <3>1
        <4>. QED
          BY <4>1, <4>2
      <3>. QED
        BY <3>1, <3>2
    <2>3. ASSUME NEW s \in DOMAIN Pending(e, n)
          PROVE  /\ Entries(e, s, Pending(e, n)[s])
                 /\ mishaps' = {} => At(e, s, Pending(e, n)[s].data)
                 /\ state[e] = "connected"
      <3>1. PICK i \in DOMAIN Chunks(e, n) :
               s = sendSeq[e] + i /\ Pending(e, n)[s] = Entry("data", Chunks(e, n)[i])
        BY <2>2
      <3>. DEFINE data == Chunks(e, n)[i]
      <3>2. /\ s \in Nat /\ data \in Seq(Stream(e)) /\ s + Len(data) <= Top(e) /\ n > 0
            /\ mishaps' = {} => At(e, s, data)
        BY <1>9, <3>1
      <3>3. Pending(e, n)[s] = Entry("data", data)
        BY <3>1
      <3>. HIDE DEF data
      <3>. QED
        BY <1>2, <3>2, <3>3, DataEntry
    <2>. HIDE DEF IInv
    <2>. QED
      BY <2>1, <2>3 DEF Table, AllAt, OnlySyn
  <1>11. Requeued(e, q)
    <2>1. mishaps' = {} => AllAt(e, retransQueue[e]) /\ (Early /\ e = "client" => OnlySyn(retransQueue[e]))
      BY <1>7 DEF Aligned, Kept, Handshake
    <2>2. Early /\ e = "client" => state[e] # "connected"
      BY DEF Early
    <2>3. /\ Table(e, q)
          /\ AllAt(e, Pending(e, n)) /\ AllAt(e, trimmed) => AllAt(e, q)
          /\ OnlySyn(Pending(e, n)) /\ OnlySyn(trimmed) => OnlySyn(q)
      BY <1>6, <1>10, OverKeeps
    <2>. HIDE DEF q
    <2>. QED
      BY <1>3, <1>6, <1>10, <2>1, <2>2, <2>3 DEF Requeued
  <1>12. WindowShape'
    BY <1>3, GrownFits, Consts DEF Shape, WindowShape
  <1>13. \A r \in net' : r \in net \/ Sound(r)
    <2>1. ASSUME NEW r \in Data(e, n) PROVE Sound(r)
      <3>1. PICK i \in DOMAIN Chunks(e, n) :
               r = Packet(e, "data", sendSeq[e] + i, 0, Chunks(e, n)[i])
        BY <2>1 DEF Data
      <3>2. /\ Fits(r) /\ r.to = Peer(e) /\ r.type = "data"
            /\ At(e, sendSeq[e] + i, Chunks(e, n)[i]) => Carries(r)
        BY <1>9, <3>1, DataPacket
      <3>3. Early' => e # "client"
        BY <1>2, <1>9, <3>1 DEF HandleAck, Early
      <3>4. Early' => Opens(r)
        BY <3>2, <3>3, Ends DEF Opens, End
      <3>5. Says(r)'
        BY <3>2 DEF Says
      <3>. QED
        BY <1>9, <3>1, <3>2, <3>4, <3>5 DEF Sound
    <2>. QED
      BY <1>3, <2>1, Arrives
  <1>14. \E ack \in {sendAck[e], p.ack} : sendAck' = [sendAck EXCEPT ![e] = ack]
    BY <1>3
  <1>. HIDE DEF q, IInv
  <1>. QED
    BY <1>5, <1>11, <1>12, <1>13, <1>14, AckSettlesKeeps

LEMMA RepeatsKeeps ==
  ASSUME IInv, NEW e \in End, NEW p \in net, HandleAck(e, p),
         Repeats(e, p, TrimUpTo(retransQueue[e], p.ack))
  PROVE  IInv'
  <1>. DEFINE trimmed == TrimUpTo(retransQueue[e], p.ack)
              last == dupAckCount[e] + 1 >= DupAcks
              s == CHOOSE t \in DOMAIN trimmed : \A u \in DOMAIN trimmed : t <= u
              fast == last /\ trimmed # NoEntries /\ s >= p.ack
              x == trimmed[s]
              q == IF fast THEN With(trimmed, s, Retried(x)) ELSE trimmed
  <1>. USE DEF IInv
  <1>1. p.ack \in Nat
    BY AckNumber
  <1>2. /\ dupAckCount' = [dupAckCount EXCEPT ![e] = IF last THEN 0 ELSE @ + 1]
        /\ retransQueue' = [retransQueue EXCEPT ![e] = q]
        /\ Shrink(e) \/ UNCHANGED <<cwnd, ssthresh>>
        /\ fast => net' \in UnderWay(net \ {p}, {Resent(e, s, x)})
        /\ ~fast => net' \in UnderWay(net \ {p}, {})
        /\ UNCHANGED <<sendAck, sendSeq, sendBuffer>>
    BY DEF Repeats, Answer
  <1>3. Table(e, retransQueue[e])
    BY DEF Shape, QueueShape
  <1>4. /\ Table(e, trimmed) /\ (AllAt(e, retransQueue[e]) => AllAt(e, trimmed))
        /\ OnlySyn(retransQueue[e]) => OnlySyn(trimmed)
    BY <1>1, <1>3, TrimKeeps
  <1>. HIDE DEF trimmed
  <1>5. fast => s \in DOMAIN trimmed
    <2>1. trimmed # NoEntries => DOMAIN trimmed # {}
      BY <1>4 DEF Table, NoEntries
    <2>2. DOMAIN trimmed \subseteq Nat
      BY <1>4 DEF Table, Entries
    <2>. QED
      BY <2>1, <2>2, Least
  <1>. HIDE DEF s, fast, last
  <1>6. fast => /\ Entries(e, s, x) /\ (AllAt(e, retransQueue[e]) => At(e, s, x.data))
                /\ OnlySyn(retransQueue[e]) => x.type = "syn"
    BY <1>4, <1>5 DEF Table, AllAt, OnlySyn
  <1>. HIDE DEF x
  <1>7. /\ Table(e, q) /\ (AllAt(e, retransQueue[e]) => AllAt(e, q))
        /\ OnlySyn(retransQueue[e]) => OnlySyn(q)
    <2>1. CASE fast
      <3>1. /\ Entries(e, s, Retried(x)) /\ Retried(x).data = x.data /\ Retried(x).type = x.type
        BY <1>6, <2>1, RetriedKeeps
      <3>. QED
        BY <1>4, <1>6, <2>1, <3>1, WithKeeps
    <2>2. CASE ~fast
      BY <1>4, <2>2
    <2>. QED
      BY <2>1, <2>2
  <1>. HIDE DEF q
  <1>8. mishaps' = {} => Aligned
    BY DEF HandleAck
  <1>9. Requeued(e, q)
    <2>1. mishaps' = {} => AllAt(e, retransQueue[e]) /\ (Early /\ e = "client" => OnlySyn(retransQueue[e]))
      BY <1>8 DEF Aligned, Kept, Handshake
    <2>. QED
      BY <1>2, <1>7, <2>1 DEF Requeued
  <1>10. WindowShape'
    <2>1. cwnd' \in [End -> 2 * MTU..Window] /\ ssthresh' \in [End -> 2 * MTU..Window]
      BY <1>2, Shrinks DEF Shape, WindowShape
    <2>2. (IF last THEN 0 ELSE dupAckCount[e] + 1) \in 0..DupAcks - 1
      BY Consts DEF last, Shape, WindowShape
    <2>3. dupAckCount' \in [End -> 0..DupAcks - 1]
      BY <1>2, <2>2 DEF Shape, WindowShape
    <2>. QED
      BY <2>1, <2>3 DEF WindowShape
  <1>11. \A r \in net' : r \in net \/ Sound(r)
    <2>1. CASE fast
      <3>1. Grows
        <4>1. UNCHANGED <<received, state, done>> /\ mishaps \subseteq mishaps'
          BY DEF HandleAck, callVars
        <4>. QED
          BY <4>1, Streams DEF Grows, Early
      <3>2. \A r : r = Resent(e, s, x) => Sound(r)
        BY <1>6, <2>1, <3>1, ResentIsSound
      <3>. QED
        BY <1>2, <2>1, <3>2, Arrives
    <2>2. CASE ~fast
      BY <1>2, <2>2, Arrives
    <2>. QED
      BY <2>1, <2>2
  <1>12. \E ack \in {sendAck[e], p.ack} : sendAck' = [sendAck EXCEPT ![e] = ack]
    BY <1>2 DEF Shape, SeqShape
  <1>13. Filled(e, 0)
    BY <1>2, NothingFilled
  <1>. HIDE DEF IInv
  <1>. QED
    BY <1>9, <1>10, <1>11, <1>12, <1>13, AckSettlesKeeps

LEMMA HandleAckKeeps ==
  ASSUME IInv, NEW e \in End, NEW p \in net, HandleAck(e, p)
  PROVE  IInv'
  <1>. DEFINE trimmed == TrimUpTo(retransQueue[e], p.ack)
  <1>1. CASE Advances(e, p, trimmed)
    BY <1>1, AdvancesKeeps
  <1>2. CASE Repeats(e, p, trimmed)
    BY <1>2, RepeatsKeeps
  <1>3. CASE /\ net' \in UnderWay(net \ {p}, {}) /\ retransQueue' = [retransQueue EXCEPT ![e] = trimmed]
             /\ UNCHANGED <<sendAck, sendSeq, cwnd, ssthresh, dupAckCount, sendBuffer>>
    <2>. USE DEF IInv
    <2>1. p.ack \in Nat /\ Table(e, retransQueue[e])
      BY AckNumber
    <2>2. /\ Table(e, trimmed) /\ (AllAt(e, retransQueue[e]) => AllAt(e, trimmed))
          /\ OnlySyn(retransQueue[e]) => OnlySyn(trimmed)
      BY <2>1, TrimKeeps
    <2>. HIDE DEF trimmed
    <2>3. mishaps' = {} => AllAt(e, retransQueue[e]) /\ (Early /\ e = "client" => OnlySyn(retransQueue[e]))
      BY DEF HandleAck, Aligned, Kept, Handshake
    <2>4. Requeued(e, trimmed)
      BY <1>3, <2>2, <2>3 DEF Requeued
    <2>5. WindowShape'
      BY <1>3 DEF Shape, WindowShape
    <2>6. \A r \in net' : r \in net \/ Sound(r)
      BY <1>3, Arrives
    <2>7. \E ack \in {sendAck[e], p.ack} : sendAck' = [sendAck EXCEPT ![e] = ack]
      BY <1>3 DEF Shape, SeqShape
    <2>8. Filled(e, 0)
      BY <1>3, NothingFilled
    <2>. HIDE DEF IInv
    <2>. QED
      BY <2>4, <2>5, <2>6, <2>7, <2>8, AckSettlesKeeps
  <1>. QED
    BY <1>1, <1>2, <1>3 DEF HandleAck, Answer

------------------------------------------------------------------------------
(* Every step keeps the invariant. *)
LEMMA NextKeeps ==
  ASSUME IInv, Next
  PROVE  IInv'
  <1>1. CASE Connect \/ ConnectReturns \/ Listen \/ ListenReturns
    BY <1>1, ConnectKeeps, ConnectReturnsKeeps, ListenKeeps, ListenReturnsKeeps
  <1>2. CASE \E e \in End : \/ CallFails(e) \/ Close(e) \/ Send(e) \/ Receive(e)
                            \/ AckTimer(e) \/ KeepAlive(e)
    BY <1>2, CallFailsKeeps, CloseKeeps, SendKeeps, ReceiveKeeps, AckTimerKeeps, KeepAliveKeeps
  <1>3. CASE \E e \in End : SendWorker(e)
    BY <1>3, SendReadsKeeps, SendStopsKeeps, SendWritesKeeps, SendAdvancesKeeps DEF SendWorker
  <1>4. CASE \E e \in End : RetransmissionWorker(e)
    BY <1>4, GetExpiredKeeps, RetransmitKeeps DEF RetransmissionWorker
  <1>5. CASE \E e \in End : ReceiveWorker(e)
    BY <1>5, HandleDataKeeps, HandleAckKeeps, HandleSynKeeps, HandleFinKeeps,
       HandleKeepAliveKeeps DEF ReceiveWorker
  <1>6. CASE \E p \in net : Lose(p)
    BY <1>6, LoseKeeps
  <1>. QED
    BY <1>1, <1>2, <1>3, <1>4, <1>5, <1>6 DEF Next

LEMMA StutterKeeps ==
  ASSUME IInv, UNCHANGED vars
  PROVE  IInv'
  <1>1. OnlyNet /\ net' = net
    BY DEF vars, OnlyNet
  <1>. QED
    BY <1>1, OnlyNetKeeps

LEMMA Invariant == Spec => []IInv
  <1>1. IInv /\ [Next]_vars => IInv'
    BY NextKeeps, StutterKeeps
  <1>. QED
    BY <1>1, InitIInv, PTL DEF Spec

(* What an application reads is the beginning of what the other one sent,  *)
(* with every byte in its place, whatever the network loses or reorders    *)
(* and whatever is sent again, as long as neither two senders of one end   *)
(* used one number nor a second SYN or SYN-ACK reset receiveSeq            *)
(* (handleDataPacket, sendPendingData, retransmissionWorker).              *)
THEOREM FillpStream == Spec => []StreamIntact
  BY Invariant, IInvImplies, PTL

(* Under the same condition no acknowledgement an open end has taken in    *)
(* runs ahead of what its peer has stored in its receive buffer            *)
(* (handleAckPacket, sendAck, processPendingAck).                          *)
THEOREM FillpAcked == Spec => []AckedIsReceived
  BY Invariant, IInvImplies, PTL

------------------------------------------------------------------------------
(* What has been sent and not acknowledged is kept.  The entries of an end *)
(* do not overlap, also those which its retransmission worker holds; they  *)
(* end below its next number; and together they cover every number from    *)
(* the last acknowledgement on.                                            *)
Size(q, s) == Len(q[s].data)
Unacked(e) == Over(retransQueue[e], expired[e])
Apart(q) == \A s, t \in DOMAIN q : s < t => s + Size(q, s) <= t
Below(q, n) == \A s \in DOMAIN q : s + Size(q, s) <= n
Covers(q, b) == \E s \in DOMAIN q : s <= b /\ b < s + Size(q, s)
Settled(e) == IF sendAck[e] = 0 THEN FirstSeq(e) ELSE sendAck[e]
Fresh(e) == state[e] \in {"idle", "connecting", "listening"}
Works(e) == state[e] = "connected" /\ ~done[e]
HoldsAt(e) ==
    /\ Apart(Unacked(e)) /\ Below(Unacked(e), sendSeq[e])
    /\ Fresh(e) => OnlySyn(retransQueue[e]) /\ OnlySyn(expired[e])
    /\ Works(e) => \A b \in Settled(e)..sendSeq[e] - 1 : Covers(retransQueue[e], b)

(* Tables of entries. *)
LEMMA TableSizes ==
  ASSUME NEW e \in End, NEW q, Table(e, q), NEW s \in DOMAIN q
  PROVE  s \in Nat /\ Size(q, s) \in Nat /\ Entries(e, s, q[s])
  BY LenProperties DEF Table, Entries, EntryRecords, Size

LEMMA OverSizes ==
  ASSUME NEW q, NEW r
  PROVE  /\ DOMAIN Over(q, r) = DOMAIN q \cup DOMAIN r
         /\ \A s \in DOMAIN q : Over(q, r)[s] = q[s] /\ Size(Over(q, r), s) = Size(q, s)
         /\ \A s \in DOMAIN r \ DOMAIN q : Over(q, r)[s] = r[s] /\ Size(Over(q, r), s) = Size(r, s)
  BY DEF Over, Size

Alike(q, r) == DOMAIN q = DOMAIN r /\ \A s \in DOMAIN q : q[s].data = r[s].data
LEMMA AlikeHolds ==
  ASSUME NEW q, NEW r, Alike(q, r)
  PROVE  /\ Apart(q) => Apart(r)
         /\ \A n : Below(q, n) => Below(r, n)
         /\ \A b : Covers(q, b) => Covers(r, b)
  BY DEF Alike, Apart, Below, Covers, Size

(* New entries, from the next number on. *)
LEMMA AddedHolds ==
  ASSUME NEW e \in End, NEW new, Table(e, new), NEW old, Table(e, old), NEW m \in Nat, NEW n \in Nat,
         Apart(old), Below(old, m), Apart(new), Below(new, n), m <= n,
         \A s \in DOMAIN new : m <= s
  PROVE  Apart(Over(new, old)) /\ Below(Over(new, old), n)
  <1>. DEFINE all == Over(new, old)
  <1>1. \A s \in DOMAIN new : s \in Nat /\ Size(new, s) \in Nat
    BY TableSizes
  <1>2. \A s \in DOMAIN old : s \in Nat /\ Size(old, s) \in Nat
    BY TableSizes
  <1>3. \A s \in DOMAIN all :
           \/ s \in DOMAIN new /\ Size(all, s) = Size(new, s)
           \/ s \in DOMAIN old \ DOMAIN new /\ Size(all, s) = Size(old, s)
    BY DEF Over, Size
  <1>. HIDE DEF all
  <1>4. Below(all, n)
    BY <1>1, <1>2, <1>3 DEF Below
  <1>5. Apart(all)
    <2>. SUFFICES ASSUME NEW s \in DOMAIN all, NEW t \in DOMAIN all, s < t
                  PROVE  s + Size(all, s) <= t
      BY DEF Apart
    <2>1. CASE s \in DOMAIN new /\ Size(all, s) = Size(new, s) /\ t \in DOMAIN new
      BY <2>1 DEF Apart
    <2>2. CASE s \in DOMAIN new /\ t \in DOMAIN old \ DOMAIN new
      <3>1. t + Size(old, t) <= m /\ m <= s
        BY <2>2 DEF Below
      <3>. QED
        BY <2>2, <3>1, <1>1, <1>2
    <2>3. CASE s \in DOMAIN old \ DOMAIN new /\ Size(all, s) = Size(old, s) /\ t \in DOMAIN new
      <3>1. s + Size(old, s) <= m /\ m <= t
        BY <2>3 DEF Below
      <3>. QED
        BY <2>3, <3>1, <1>1, <1>2
    <2>4. CASE s \in DOMAIN old /\ Size(all, s) = Size(old, s) /\ t \in DOMAIN old
      BY <2>4 DEF Apart
    <2>. QED
      BY <1>3, <2>1, <2>2, <2>3, <2>4
  <1>. QED
    BY <1>4, <1>5 DEF all

(* What TrimUpTo leaves, entry by entry: a part of one, and of those that  *)
(* are not covered all the others.                                         *)
LEMMA TrimLeaves ==
  ASSUME NEW e \in End, NEW q, Table(e, q), NEW ack \in Nat
  PROVE  LET trimmed == TrimUpTo(q, ack) IN
         /\ \A t \in Split(q, ack) :
               t \notin DOMAIN trimmed /\ ack \in DOMAIN trimmed
         /\ \A s \in DOMAIN q \ Split(q, ack) : ~Covered(q, s, ack) =>
               s \in DOMAIN trimmed /\ (s # ack \/ Split(q, ack) = {} => trimmed[s] = q[s])
         /\ \A s \in DOMAIN trimmed : s # ack \/ Split(q, ack) = {} =>
               s \in DOMAIN q /\ trimmed[s] = q[s]
         /\ \A t \in Split(q, ack) :
               Size(trimmed, ack) = t + Size(q, t) - ack
  <1>. DEFINE Rest(s) == SubSeq(q[s].data, ack - s + 1, Len(q[s].data))
              one == CHOOSE s \in Split(q, ack) : TRUE
              tails == [a \in {ack : s \in Split(q, ack)} |-> Entry("data", Rest(one))]
              gone == {s \in DOMAIN q : Covered(q, s, ack) /\ \A t \in Uncovered(q, ack) : s < t}
              kept == Without(Without(q, gone), Split(q, ack))
              trimmed == Over(tails, kept)
  <1>1. TrimUpTo(q, ack) = trimmed
    BY DEF TrimUpTo
  <1>2. DOMAIN kept = DOMAIN q \ (gone \cup Split(q, ack)) /\ \A s \in DOMAIN kept : kept[s] = q[s]
    BY DEF Without
  <1>3. /\ \A a \in DOMAIN tails : a = ack /\ Split(q, ack) # {} /\ tails[a] = Entry("data", Rest(one))
        /\ Split(q, ack) # {} => ack \in DOMAIN tails /\ one \in Split(q, ack)
    OBVIOUS
  <1>4. \A s \in gone : Covered(q, s, ack)
    OBVIOUS
  <1>5. \A s, t \in Split(q, ack) : s = t
    <2>1. \A s \in Split(q, ack) : s \in Nat /\ s \in Uncovered(q, ack)
      BY TableSizes DEF Split, Uncovered
    <2>. QED
      BY <2>1 DEF Split
  <1>. HIDE DEF tails, kept, gone, one
  <1>6. /\ DOMAIN trimmed = DOMAIN tails \cup DOMAIN kept
        /\ \A s \in DOMAIN tails : trimmed[s] = tails[s]
        /\ \A s \in DOMAIN kept \ DOMAIN tails : trimmed[s] = kept[s]
    BY DEF Over
  <1>. HIDE DEF trimmed
  <1>7. \A t \in Split(q, ack) : /\ t \in DOMAIN q /\ t < ack /\ ack < t + Len(q[t].data) /\ t \in Nat
                                 /\ Entries(e, t, q[t])
    BY SplitEntry, TableSizes
  <1>8. \A t \in Split(q, ack) : t \notin DOMAIN trimmed /\ ack \in DOMAIN trimmed
    BY <1>2, <1>3, <1>6, <1>7
  <1>9. ASSUME NEW t \in Split(q, ack)
        PROVE  Size(trimmed, ack) = t + Size(q, t) - ack
    <2>1. one = t /\ trimmed[ack] = Entry("data", Rest(t))
      BY <1>3, <1>5, <1>6
    <2>2. Len(Rest(t)) = t + Len(q[t].data) - ack
      BY <1>7, TailKeeps
    <2>. HIDE DEF Rest
    <2>3. trimmed[ack].data = Rest(t)
      BY <2>1, EntryFields
    <2>. QED
      BY <2>2, <2>3 DEF Size
  <1>. HIDE DEF Rest
  <1>10. \A s \in DOMAIN q \ Split(q, ack) : ~Covered(q, s, ack) =>
            s \in DOMAIN trimmed /\ (s # ack \/ Split(q, ack) = {} => trimmed[s] = q[s])
    BY <1>2, <1>3, <1>4, <1>6
  <1>11. \A s \in DOMAIN trimmed : s # ack \/ Split(q, ack) = {} =>
            s \in DOMAIN q /\ trimmed[s] = q[s]
    BY <1>2, <1>3, <1>6
  <1>. QED
    BY <1>1, <1>8, <1>9, <1>10, <1>11

(* An acknowledgement keeps the entries apart, and what it does not cover  *)
(* covered.                                                                *)
LEMMA TrimHolds ==
  ASSUME NEW e \in End, NEW q, Table(e, q), NEW x, Table(e, x), NEW ack \in Nat, NEW m \in Nat,
         Apart(Over(q, x)), Below(Over(q, x), m)
  PROVE  LET trimmed == TrimUpTo(q, ack)
             S == {IF s \in Split(q, ack) THEN ack ELSE s : s \in DOMAIN x}
             followed == [s \in S |-> Over(trimmed, Over(q, x))[s]] IN
         /\ Apart(Over(trimmed, followed)) /\ Below(Over(trimmed, followed), m)
         /\ \A b \in Nat : ack <= b /\ Covers(q, b) => Covers(trimmed, b)
  <1>. DEFINE trimmed == TrimUpTo(q, ack)
              S == {IF s \in Split(q, ack) THEN ack ELSE s : s \in DOMAIN x}
              old == Over(q, x)
              followed == [s \in S |-> Over(trimmed, old)[s]]
              all == Over(trimmed, followed)
  <1>1. /\ \A s \in DOMAIN q : /\ s \in Nat /\ Size(q, s) \in Nat /\ Entries(e, s, q[s])
                               /\ s \in DOMAIN old /\ old[s] = q[s] /\ Size(old, s) = Size(q, s)
        /\ \A s \in DOMAIN x : s \in DOMAIN old
    BY TableSizes DEF Over, Size
  <1>2. \A s \in DOMAIN old : s \in Nat /\ Size(old, s) \in Nat
    BY OverKeeps, TableSizes
  <1>3. /\ \A t \in Split(q, ack) :
              /\ t \in DOMAIN q /\ t < ack /\ ack < t + Size(q, t)
              /\ t \notin DOMAIN trimmed /\ ack \in DOMAIN trimmed
              /\ Size(trimmed, ack) = t + Size(q, t) - ack
        /\ \A s \in DOMAIN q \ Split(q, ack) : ~Covered(q, s, ack) =>
               s \in DOMAIN trimmed /\ (s # ack \/ Split(q, ack) = {} => trimmed[s] = q[s])
        /\ \A s \in DOMAIN trimmed : s # ack \/ Split(q, ack) = {} =>
               s \in DOMAIN q /\ trimmed[s] = q[s]
    BY TrimLeaves, SplitEntry DEF Size
  <1>. HIDE DEF trimmed
  <1>4. \A s \in S : s \notin DOMAIN trimmed =>
           s \in DOMAIN x /\ s \notin Split(q, ack) /\ Over(trimmed, old)[s] = old[s]
    <2>. SUFFICES ASSUME NEW s \in DOMAIN x, NEW v, v = IF s \in Split(q, ack) THEN ack ELSE s,
                         v \notin DOMAIN trimmed
                  PROVE  v \in DOMAIN x /\ v \notin Split(q, ack) /\ Over(trimmed, old)[v] = old[v]
      OBVIOUS
    <2>1. s \notin Split(q, ack) /\ v = s /\ s \in DOMAIN old
      BY <1>1, <1>3
    <2>. HIDE DEF old
    <2>. QED
      BY <2>1 DEF Over
  <1>. HIDE DEF S, old
  <1>5. \A s \in DOMAIN all :
           \/ s \in DOMAIN trimmed /\ all[s] = trimmed[s]
           \/ s \in S \ DOMAIN trimmed /\ all[s] = old[s]
    BY <1>4 DEF Over
  <1>. HIDE DEF followed, all
  <1>6. CASE Split(q, ack) = {}
    <2>1. \A s \in DOMAIN all : s \in DOMAIN old /\ Size(all, s) = Size(old, s)
      BY <1>1, <1>3, <1>4, <1>5, <1>6 DEF Size
    <2>2. Apart(all) /\ Below(all, m)
      BY <2>1 DEF Apart, Below, old
    <2>3. ASSUME NEW b \in Nat, ack <= b, NEW s \in DOMAIN q, s <= b, b < s + Size(q, s)
          PROVE  Covers(trimmed, b)
      <3>1. ~Covered(q, s, ack)
        <4>1. q[s].type # "syn"
          <5>1. Len(<<>>) = 0
            OBVIOUS
          <5>. QED
            BY <1>1, <2>3, <5>1 DEF Entries, Size
        <4>2. q[s].type = "data"
          BY <1>1, <4>1 DEF Entries, EntryRecords
        <4>. QED
          BY <1>1, <2>3, <4>2 DEF Covered, Size
      <3>2. s \in DOMAIN trimmed /\ Size(trimmed, s) = Size(q, s)
        BY <1>3, <1>6, <3>1 DEF Size
      <3>. QED
        BY <2>3, <3>2 DEF Covers
    <2>. QED
      BY <2>2, <2>3 DEF Covers, all, trimmed, followed, S, old
  <1>7. CASE Split(q, ack) # {}
    <2>1. PICK t \in Split(q, ack) : TRUE
      BY <1>7
    <2>2. /\ t \in DOMAIN q /\ t \in DOMAIN old /\ t < ack /\ ack < t + Size(q, t) /\ t \in Nat
          /\ Size(q, t) \in Nat /\ Size(old, t) = Size(q, t)
          /\ t \notin DOMAIN trimmed /\ ack \in DOMAIN trimmed
          /\ Size(trimmed, ack) = t + Size(q, t) - ack
      BY <1>1, <1>3
    <2>3. ack \notin DOMAIN old
      BY <2>2 DEF Apart, old
    <2>4. t \notin DOMAIN all
      BY <1>4, <1>5, <2>2
    <2>5. /\ \A s \in DOMAIN all \ {ack} : s \in DOMAIN old /\ Size(all, s) = Size(old, s) /\ s # t
          /\ Size(all, ack) = t + Size(q, t) - ack
      <3>1. \A s \in DOMAIN all \ {ack} : s \in DOMAIN old /\ all[s] = old[s]
        BY <1>1, <1>3, <1>4, <1>5
      <3>2. all[ack] = trimmed[ack]
        BY <2>2 DEF all, Over
      <3>. QED
        BY <3>1, <3>2, <2>2, <2>4 DEF Size
    <2>6. Below(all, m)
      <3>1. t + Size(old, t) <= m /\ \A s \in DOMAIN old : s + Size(old, s) <= m
        BY <2>2 DEF Below, old
      <3>. QED
        BY <2>2, <2>5, <3>1 DEF Below
    <2>7. Apart(all)
      <3>. SUFFICES ASSUME NEW r \in DOMAIN all, NEW s \in DOMAIN all, r < s
                    PROVE  r + Size(all, r) <= s
        BY DEF Apart
      <3>1. \A v, w \in DOMAIN old : v < w => v + Size(old, v) <= w
        BY DEF Apart, old
      <3>2. CASE r # ack /\ s # ack
        BY <2>5, <3>1, <3>2
      <3>3. CASE r = ack /\ s # ack
        <4>1. s \in DOMAIN old /\ t < s
          BY <2>2, <2>5, <3>3, <1>2
        <4>2. t + Size(old, t) <= s /\ s \in Nat
          BY <4>1, <2>2, <3>1, <1>2
        <4>. QED
          BY <4>2, <2>2, <2>5, <3>3
      <3>4. CASE r # ack /\ s = ack
        <4>1. r \in DOMAIN old /\ Size(all, r) = Size(old, r) /\ r # t /\ r \in Nat
              /\ Size(old, r) \in Nat
          BY <2>5, <3>4, <1>2
        <4>2. CASE r < t
          <5>1. r + Size(old, r) <= t
            BY <4>1, <4>2, <3>1, <2>2
          <5>. QED
            BY <5>1, <4>1, <2>2, <3>4
        <4>3. CASE t < r
          <5>1. t + Size(old, t) <= r
            BY <4>1, <4>3, <3>1, <2>2
          <5>. QED
            BY <5>1, <4>1, <2>2, <3>4
        <4>. QED
          BY <4>1, <4>2, <4>3, <2>2
      <3>. QED
        BY <3>2, <3>3, <3>4
    <2>8. ASSUME NEW b \in Nat, ack <= b, NEW s \in DOMAIN q, s <= b, b < s + Size(q, s)
          PROVE  Covers(trimmed, b)
      <3>1. ~Covered(q, s, ack)
        <4>1. q[s].type # "syn"
          <5>1. Len(<<>>) = 0
            OBVIOUS
          <5>. QED
            BY <1>1, <2>8, <5>1 DEF Entries, Size
        <4>2. q[s].type = "data"
          BY <1>1, <4>1 DEF Entries, EntryRecords
        <4>. QED
          BY <1>1, <2>8, <4>2 DEF Covered, Size
      <3>2. CASE s \in Split(q, ack)
        <4>1. Size(trimmed, ack) = s + Size(q, s) - ack /\ s \in Nat /\ Size(q, s) \in Nat
          BY <1>1, <1>3, <3>2
        <4>. QED
          BY <4>1, <2>2, <2>8 DEF Covers
      <3>3. CASE s \notin Split(q, ack)
        <4>1. s # ack
          BY <1>1, <2>3
        <4>2. s \in DOMAIN trimmed /\ Size(trimmed, s) = Size(q, s)
          BY <1>3, <3>1, <3>3, <4>1 DEF Size
        <4>. QED
          BY <2>8, <4>2 DEF Covers
      <3>. QED
        BY <3>2, <3>3
    <2>. QED
      BY <2>6, <2>7, <2>8 DEF Covers, all, trimmed, followed, S, old
  <1>. QED
    BY <1>6, <1>7

(* The chunks begin at the multiples of MTU. *)
LEMMA Multiples ==
  /\ \A b \in Nat : \E i \in Nat : i % MTU = 0 /\ i <= b /\ b < i + MTU
  /\ \A i, j \in Nat : i % MTU = 0 /\ j % MTU = 0 /\ i < j => i + MTU <= j
  <1>1. MTU \in Nat \ {0}
    BY Consts
  <1>2. ASSUME NEW b \in Nat
        PROVE  \E k, r \in Nat : r = b % MTU /\ r < MTU /\ b = MTU * k + r
    <2>. DEFINE k == b \div MTU
                r == b % MTU
    <2>1. k \in Nat /\ r \in Nat /\ r < MTU /\ b = MTU * k + r
      BY <1>1
    <2>. QED
      BY <2>1
  <1>3. \A k \in Nat : MTU * k \in Nat /\ (MTU * k) % MTU = 0
    BY <1>1
  <1>4. \A j, k \in Nat : j < k => MTU * j + MTU <= MTU * k
    <2>1. \A j, k \in Nat : j < k => MTU * (j + 1) <= MTU * k
      BY <1>1
    <2>2. \A j \in Nat : MTU * (j + 1) = MTU * j + MTU
      BY <1>1
    <2>. QED
      BY <2>1, <2>2
  <1>5. ASSUME NEW b \in Nat
        PROVE  \E i \in Nat : i % MTU = 0 /\ i <= b /\ b < i + MTU
    <2>1. PICK k \in Nat, r \in Nat : r < MTU /\ b = MTU * k + r
      BY <1>2
    <2>. DEFINE i == MTU * k
    <2>2. i \in Nat /\ i % MTU = 0 /\ b = i + r
      BY <1>3, <2>1
    <2>. HIDE DEF i
    <2>3. i <= b /\ b < i + MTU
      BY <2>1, <2>2, <1>1
    <2>. QED
      BY <2>2, <2>3
  <1>6. ASSUME NEW i \in Nat, NEW j \in Nat, i % MTU = 0, j % MTU = 0, i < j
        PROVE  i + MTU <= j
    <2>1. PICK k \in Nat : i = MTU * k
      <3>1. PICK k \in Nat, r \in Nat : r = i % MTU /\ i = MTU * k + r
        BY <1>2
      <3>. DEFINE a == MTU * k
      <3>2. r = 0 /\ i = a + r /\ a \in Nat
        BY <3>1, <1>3, <1>6
      <3>. HIDE DEF a
      <3>3. i = a
        BY <3>2
      <3>. QED
        BY <3>3 DEF a
    <2>2. PICK l \in Nat : j = MTU * l
      <3>1. PICK l \in Nat, r \in Nat : r = j % MTU /\ j = MTU * l + r
        BY <1>2
      <3>. DEFINE a == MTU * l
      <3>2. r = 0 /\ j = a + r /\ a \in Nat
        BY <3>1, <1>3, <1>6
      <3>. HIDE DEF a
      <3>3. j = a
        BY <3>2
      <3>. QED
        BY <3>3 DEF a
    <2>3. k < l
      <3>1. CASE k = l
        BY <2>1, <2>2, <3>1, <1>6
      <3>2. CASE l < k
        <4>1. j + MTU <= i
          BY <1>4, <2>1, <2>2, <3>2
        <4>. QED
          BY <4>1, <1>1, <1>6
      <3>. QED
        BY <2>1, <2>2, <3>1, <3>2
    <2>. QED
      BY <1>4, <2>1, <2>2, <2>3
  <1>. QED
    BY <1>5, <1>6

(* What sendPendingData adds to the queue: one entry next to the other,    *)
(* from the next number on.                                                *)
LEMMA PendingHolds ==
  ASSUME Shape, NEW e \in End, NEW n \in Nat, n <= Waiting(e)
  PROVE  /\ sendSeq[e] + n \in Nat /\ sendSeq[e] <= sendSeq[e] + n
         /\ Table(e, Pending(e, n)) /\ Apart(Pending(e, n)) /\ Below(Pending(e, n), sendSeq[e] + n)
         /\ \A s \in DOMAIN Pending(e, n) : sendSeq[e] <= s
         /\ \A b \in sendSeq[e]..sendSeq[e] + n - 1 : Covers(Pending(e, n), b)
         /\ n = 0 => DOMAIN Pending(e, n) = {}
  <1>. DEFINE new == Pending(e, n)
              m == sendSeq[e]
              ends(i) == Smaller(i + MTU, n)
              begins == {j \in 0..n - 1 : j % MTU = 0}
  <1>1. /\ m \in Nat /\ Waiting(e) \in Nat /\ Waiting(e) = Len(sendBuffer[e])
        /\ sendBuffer[e] \in Seq(Stream(e)) /\ MTU \in Nat /\ MTU > 0
    BY Numbers, Streams, Consts DEF Waiting
  <1>2. /\ begins \subseteq Nat /\ \A i \in begins : i < n
        /\ \A i, j \in begins : i < j => i + MTU <= j
    BY Multiples
  <1>3. \A i \in begins : ends(i) \in Nat /\ i <= ends(i) /\ ends(i) <= n /\ ends(i) <= i + MTU
    BY <1>1, <1>2 DEF Smaller
  <1>4. /\ DOMAIN Chunks(e, n) = begins
        /\ \A i \in begins : Chunks(e, n)[i] = SubSeq(sendBuffer[e], i + 1, ends(i))
    BY DEF Chunks
  <1>5. /\ DOMAIN new = {m + i : i \in begins}
        /\ \A s \in DOMAIN new : new[s] = Entry("data", Chunks(e, n)[s - m])
        /\ new = [s \in DOMAIN new |-> new[s]]
    <2>. HIDE DEF begins
    <2>. QED
      BY <1>4 DEF Pending
  <1>. HIDE DEF new, m, begins, ends
  <1>6. ASSUME NEW i \in begins
        PROVE  /\ m + i \in DOMAIN new /\ Size(new, m + i) = ends(i) - i
               /\ Entries(e, m + i, new[m + i])
    <2>. DEFINE chunk == Chunks(e, n)[i]
    <2>1. i \in DOMAIN Chunks(e, n) /\ (m + i) - m = i
      BY <1>1, <1>2, <1>4
    <2>2. new[m + i] = Entry("data", chunk) /\ m + i \in DOMAIN new
      BY <2>1, <1>5
    <2>3. Len(chunk) = ends(i) - i
      BY <1>1, <1>2, <1>3, <1>4, Part
    <2>4. chunk \in Seq(Stream(e)) /\ m + i \in Nat /\ m + i + Len(chunk) <= Top(e)
      BY <2>1, ChunkAt DEF m
    <2>. HIDE DEF chunk
    <2>5. new[m + i].data = chunk /\ Entries(e, m + i, new[m + i])
      BY <2>2, <2>4, DataEntry
    <2>. QED
      BY <2>2, <2>3, <2>5 DEF Size
  <1>7. \A s \in DOMAIN new : \E i \in begins : s = m + i
    BY <1>5
  <1>8. Table(e, new)
    BY <1>5, <1>6, <1>7 DEF Table
  <1>9. /\ m + n \in Nat /\ m <= m + n /\ \A s \in DOMAIN new : m <= s
        /\ Below(new, m + n)
    BY <1>1, <1>2, <1>3, <1>6, <1>7 DEF Below
  <1>10. Apart(new)
    <2>. SUFFICES ASSUME NEW i \in begins, NEW j \in begins, m + i < m + j
                  PROVE  m + i + Size(new, m + i) <= m + j
      BY <1>7 DEF Apart
    <2>1. i \in Nat /\ j \in Nat /\ i + MTU <= j
      BY <1>1, <1>2
    <2>. QED
      BY <2>1, <1>1, <1>3, <1>6
  <1>11. ASSUME NEW b \in m..m + n - 1
         PROVE  Covers(new, b)
    <2>. DEFINE c == b - m
    <2>1. c \in Nat /\ c < n
      BY <1>1
    <2>2. PICK i \in Nat : i % MTU = 0 /\ i <= c /\ c < i + MTU
      BY <2>1, Multiples
    <2>3. i \in begins
      BY <2>1, <2>2 DEF begins
    <2>4. c < ends(i)
      BY <2>1, <2>2, <1>1 DEF ends, Smaller
    <2>5. m + i <= b /\ b < m + i + Size(new, m + i)
      BY <2>1, <2>2, <2>3, <2>4, <1>1, <1>3, <1>6
    <2>. QED
      BY <2>3, <2>5, <1>6 DEF Covers
  <1>12. n = 0 => DOMAIN new = {}
    BY <1>2, <1>7
  <1>. QED
    <2>1. \A b \in m..m + n - 1 : Covers(new, b)
      BY <1>11
    <2>. QED
      BY <1>8, <1>9, <1>10, <1>12, <2>1 DEF new, m

Holds == \A e \in End : HoldsAt(e)

(* A part of a table. *)
Within(r, q) == \A s \in DOMAIN r : s \in DOMAIN q /\ r[s].data = q[s].data
LEMMA WithinHolds ==
  ASSUME NEW q, NEW r, Within(r, q)
  PROVE  (Apart(q) => Apart(r)) /\ \A n : Below(q, n) => Below(r, n)
  BY DEF Within, Apart, Below, Size

LEMMA SynTable ==
  ASSUME NEW e \in End, NEW q, Table(e, q), OnlySyn(q), NEW s \in DOMAIN q
  PROVE  e = "client" /\ s = ISN[e] /\ Size(q, s) = 0
  <1>1. Entries(e, s, q[s]) /\ q[s].type = "syn"
    BY DEF Table, OnlySyn
  <1>2. Len(<<>>) = 0
    OBVIOUS
  <1>. QED
    BY <1>1, <1>2 DEF Entries, Size

LEMMA Queues ==
  ASSUME Shape, NEW e \in End
  PROVE  /\ Table(e, retransQueue[e]) /\ Table(e, expired[e]) /\ Table(e, Unacked(e))
         /\ sendSeq[e] \in Nat /\ Settled(e) \in Nat
         /\ Unacked(e) = Over(retransQueue[e], expired[e])
         /\ mishaps = {} => FirstSeq(e) <= Settled(e) \/ ~Aligned
  <1>1. Table(e, retransQueue[e]) /\ Table(e, expired[e])
    BY DEF Shape, QueueShape
  <1>2. sendSeq[e] \in Nat /\ Settled(e) \in Nat
    BY Consts, Numbers DEF Shape, SeqShape, Seqs, Settled
  <1>3. mishaps = {} => FirstSeq(e) <= Settled(e) \/ ~Aligned
    BY Consts DEF Aligned, Honest, Owed, Settled
  <1>. QED
    BY <1>1, <1>2, <1>3, OverKeeps DEF Unacked

(* An end whose queues, numbers and state are as they were. *)
SameEnd(d) ==
    /\ state'[d] = state[d] /\ done'[d] = done[d] /\ sendAck'[d] = sendAck[d]
    /\ sendSeq'[d] = sendSeq[d] /\ retransQueue'[d] = retransQueue[d] /\ expired'[d] = expired[d]
LEMMA SameEndHolds ==
  ASSUME NEW d \in End, HoldsAt(d), SameEnd(d)
  PROVE  HoldsAt(d)'
  <1>1. Unacked(d)' = Unacked(d) /\ (Fresh(d)' <=> Fresh(d)) /\ (Works(d)' <=> Works(d))
        /\ Settled(d)' = Settled(d)
    BY DEF SameEnd, Unacked, Fresh, Works, Settled
  <1>. QED
    BY <1>1 DEF HoldsAt, SameEnd

LEMMA OneHolds ==
  ASSUME Holds, NEW e \in End, \A d \in End : d # e => SameEnd(d), HoldsAt(e)'
  PROVE  Holds'
  BY SameEndHolds DEF Holds

LEMMA QuietHolds ==
  ASSUME Holds, UNCHANGED <<state, done, sendAck, sendSeq, retransQueue, expired>>
  PROVE  Holds'
  BY SameEndHolds DEF Holds, SameEnd

(* The actions of the calls. *)
LEMMA ConnectHolds ==
  ASSUME IInv, Holds, Connect
  PROVE  Holds'
  <1>. DEFINE e == "client"
              q == With(retransQueue[e], ISN[e], Entry("syn", <<>>))
  <1>1. /\ e \in End /\ state[e] = "idle" /\ state' = [state EXCEPT ![e] = "connecting"]
        /\ sendSeq' = [sendSeq EXCEPT ![e] = ISN[e]]
        /\ retransQueue' = [retransQueue EXCEPT ![e] = q]
        /\ UNCHANGED <<done, sendAck, expired>>
    BY Ends DEF Connect, workerVars
  <1>. HIDE DEF q
  <1>2. /\ \A d \in End : d # e => SameEnd(d)
        /\ state'[e] = "connecting" /\ sendSeq'[e] = ISN[e] /\ retransQueue'[e] = q
        /\ expired'[e] = expired[e]
    BY <1>1 DEF SameEnd, IInv, Shape, FlagShape, SeqShape, QueueShape
  <1>3. OnlySyn(retransQueue[e]) /\ OnlySyn(expired[e])
    BY <1>1 DEF Holds, HoldsAt, Fresh
  <1>4. Table(e, retransQueue[e]) /\ Table(e, expired[e])
    BY <1>1, Queues DEF IInv
  <1>5. Table(e, q) /\ OnlySyn(q)
    <2>1. Entry("syn", <<>>).type = "syn"
      BY DEF Entry
    <2>2. QueueShape'
      BY ConnectKeeps DEF IInv, Shape
    <2>3. Table(e, retransQueue'[e])
      BY <1>1, <2>2 DEF QueueShape
    <2>4. OnlySyn(q)
      BY <1>3, <2>1 DEF q, With, OnlySyn
    <2>. QED
      BY <1>2, <2>3, <2>4
  <1>6. HoldsAt(e)'
    <2>. DEFINE all == Over(q, expired[e])
    <2>1. Table(e, all) /\ OnlySyn(all)
      BY <1>1, <1>3, <1>4, <1>5, OverKeeps
    <2>. HIDE DEF all
    <2>2. ISN[e] \in Nat /\ \A s \in DOMAIN all : s = ISN[e] /\ Size(all, s) = 0
      BY <1>1, <2>1, SynTable, Consts
    <2>3. Apart(all) /\ Below(all, ISN[e])
      BY <2>2 DEF Apart, Below
    <2>4. Unacked(e)' = all
      BY <1>2 DEF Unacked, all
    <2>. QED
      BY <1>2, <1>3, <1>5, <2>3, <2>4 DEF HoldsAt, Works
  <1>. QED
    BY <1>1, <1>2, <1>6, OneHolds

LEMMA ConnectReturnsHolds ==
  ASSUME IInv, mishaps = {}, Holds, ConnectReturns
  PROVE  Holds'
  <1>. DEFINE e == "client"
  <1>1. /\ e \in End /\ calling[e] /\ state' = [state EXCEPT ![e] = "connected"]
        /\ sendSeq' = [sendSeq EXCEPT ![e] = @ + 1]
        /\ UNCHANGED <<done, sendAck, expired, retransQueue>>
    BY Ends DEF ConnectReturns, workerVars
  <1>2. /\ \A d \in End : d # e => SameEnd(d)
        /\ state'[e] = "connected" /\ sendSeq'[e] = sendSeq[e] + 1
        /\ Unacked(e)' = Unacked(e) /\ Settled(e)' = Settled(e)
    BY <1>1 DEF SameEnd, IInv, Shape, FlagShape, SeqShape, Unacked, Settled
  <1>3. /\ sendSeq[e] \in Nat /\ sendSeq[e] + 1 = FirstSeq(e) /\ Settled(e) \in Nat
        /\ FirstSeq(e) <= Settled(e) /\ Table(e, Unacked(e)) /\ FirstSeq(e) \in Nat
    BY <1>1, Queues, Consts DEF IInv, Shape, Calls, FirstSeq
  <1>4. Below(Unacked(e), sendSeq[e] + 1)
    <2>1. \A s \in DOMAIN Unacked(e) : s \in Nat /\ Size(Unacked(e), s) \in Nat
      BY <1>1, <1>3, TableSizes
    <2>2. Below(Unacked(e), sendSeq[e])
      BY <1>1 DEF Holds, HoldsAt
    <2>. QED
      BY <1>3, <2>1, <2>2 DEF Below
  <1>5. \A b \in Settled(e)..sendSeq[e] + 1 - 1 : FALSE
    BY <1>3
  <1>6. HoldsAt(e)'
    <2>1. Apart(Unacked(e)') /\ Below(Unacked(e)', sendSeq'[e])
      BY <1>1, <1>2, <1>4 DEF Holds, HoldsAt
    <2>2. ~Fresh(e)'
      BY <1>2 DEF Fresh
    <2>3. \A b \in Settled(e)'..sendSeq'[e] - 1 : FALSE
      BY <1>2, <1>3
    <2>. QED
      BY <2>1, <2>2, <2>3 DEF HoldsAt
  <1>. QED
    BY <1>1, <1>2, <1>6, OneHolds

LEMMA ListenHolds ==
  ASSUME IInv, Holds, Listen
  PROVE  Holds'
  <1>1. /\ "server" \in End /\ state["server"] = "idle"
        /\ state' = [state EXCEPT !["server"] = "listening"]
        /\ UNCHANGED <<done, sendAck, sendSeq, expired, retransQueue>>
    BY Ends DEF Listen, workerVars, windowVars
  <1>2. /\ \A d \in End : d # "server" => SameEnd(d)
        /\ state'["server"] = "listening"
        /\ Unacked("server")' = Unacked("server")
    BY <1>1 DEF SameEnd, IInv, Shape, FlagShape, Unacked
  <1>3. HoldsAt("server")'
    BY <1>1, <1>2 DEF Holds, HoldsAt, Fresh, Works
  <1>. QED
    BY <1>1, <1>2, <1>3, OneHolds

LEMMA ListenReturnsHolds ==
  ASSUME IInv, mishaps = {}, Holds, ListenReturns
  PROVE  Holds'
  <1>. DEFINE e == "server"
  <1>1. /\ e \in End /\ calling[e] /\ listenChan[e] /\ state' = [state EXCEPT ![e] = "connected"]
        /\ UNCHANGED <<done, sendAck, sendSeq, expired, retransQueue>>
    BY Ends DEF ListenReturns, workerVars, windowVars
  <1>2. /\ \A d \in End : d # e => SameEnd(d)
        /\ state'[e] = "connected"
        /\ Unacked(e)' = Unacked(e) /\ Settled(e)' = Settled(e)
    BY <1>1 DEF SameEnd, IInv, Shape, FlagShape, Unacked, Settled
  <1>3. /\ sendSeq[e] \in Nat /\ sendSeq[e] = FirstSeq(e) /\ Settled(e) \in Nat
        /\ FirstSeq(e) <= Settled(e)
    BY <1>1, Queues, Consts DEF IInv, Shape, Calls, FirstSeq
  <1>4. \A b \in Settled(e)..sendSeq[e] - 1 : FALSE
    BY <1>3
  <1>5. HoldsAt(e)'
    BY <1>1, <1>2, <1>4 DEF Holds, HoldsAt, Fresh
  <1>. QED
    BY <1>1, <1>2, <1>5, OneHolds

LEMMA ClosedHolds ==
  ASSUME IInv, Holds, NEW e \in End, NEW packets, Closed(e, packets)
  PROVE  Holds'
  <1>1. /\ state' = [state EXCEPT ![e] = "closed"] /\ done' = [done EXCEPT ![e] = TRUE]
        /\ expired' = [expired EXCEPT ![e] = NoEntries]
        /\ UNCHANGED <<sendAck, sendSeq, retransQueue>>
    BY DEF Closed, windowVars
  <1>2. /\ \A d \in End : d # e => SameEnd(d)
        /\ state'[e] = "closed" /\ expired'[e] = NoEntries
    BY <1>1 DEF SameEnd, IInv, Shape, FlagShape, QueueShape
  <1>3. Within(Unacked(e)', Unacked(e))
    BY <1>1, <1>2 DEF Within, Unacked, Over, NoEntries
  <1>4. Apart(Unacked(e)') /\ Below(Unacked(e)', sendSeq[e])
    BY <1>3, WithinHolds DEF Holds, HoldsAt
  <1>5. HoldsAt(e)'
    BY <1>1, <1>2, <1>4 DEF HoldsAt, Fresh, Works
  <1>. QED
    BY <1>2, <1>5, OneHolds

LEMMA CallFailsHolds ==
  ASSUME IInv, Holds, NEW e \in End, CallFails(e)
  PROVE  Holds'
  <1>1. CASE CanClose(e) /\ Closed(e, {})
    BY <1>1, ClosedHolds
  <1>2. CASE ~CanClose(e)
    BY <1>2, QuietHolds DEF CallFails, windowVars, workerVars
  <1>. QED
    BY <1>1, <1>2 DEF CallFails

LEMMA HandleFinHolds ==
  ASSUME IInv, Holds, NEW e \in End, NEW p \in net, HandleFin(e, p)
  PROVE  Holds'
  <1>1. CASE CanClose(e)
    BY <1>1, ClosedHolds DEF HandleFin
  <1>2. CASE ~CanClose(e)
    BY <1>2, QuietHolds DEF HandleFin, windowVars, workerVars, callVars
  <1>. QED
    BY <1>1, <1>2

(* The server has sent nothing when it answers a SYN. *)
LEMMA HandleSynHolds ==
  ASSUME IInv, Holds, NEW e \in End, NEW p \in net, HandleSyn(e, p)
  PROVE  Holds'
  <1>1. CASE state[e] # "listening"
    BY <1>1, QuietHolds DEF HandleSyn, windowVars, workerVars, callVars
  <1>2. CASE state[e] = "listening"
    <2>1. /\ sendSeq' = [sendSeq EXCEPT ![e] = ISN[e]]
          /\ UNCHANGED <<state, done, sendAck, retransQueue, expired>>
      BY <1>2 DEF HandleSyn, workerVars, callVars
    <2>2. /\ \A d \in End : d # e => SameEnd(d)
          /\ Unacked(e)' = Unacked(e)
      BY <2>1 DEF SameEnd, IInv, Shape, SeqShape, Unacked
    <2>3. Fresh(e) /\ e # "client"
      BY <1>2 DEF Fresh, IInv, Shape, FlagShape
    <2>4. OnlySyn(retransQueue[e]) /\ OnlySyn(expired[e])
      BY <2>3 DEF Holds, HoldsAt
    <2>5. Table(e, Unacked(e)) /\ OnlySyn(Unacked(e))
      <3>1. Table(e, retransQueue[e]) /\ Table(e, expired[e])
        BY Queues DEF IInv
      <3>. QED
        BY <2>4, <3>1, OverKeeps DEF Unacked
    <2>6. DOMAIN Unacked(e) = {}
      BY <2>3, <2>5, SynTable
    <2>7. Apart(Unacked(e)') /\ Below(Unacked(e)', sendSeq'[e])
      BY <2>2, <2>6 DEF Apart, Below
    <2>8. HoldsAt(e)'
      BY <1>2, <2>1, <2>4, <2>7 DEF HoldsAt, Works
    <2>. QED
      BY <2>2, <2>8, OneHolds
  <1>. QED
    BY <1>1, <1>2

LEMMA GetExpiredHolds ==
  ASSUME IInv, Holds, NEW e \in End, GetExpired(e)
  PROVE  Holds'
  <1>1. PICK S \in SUBSET DOMAIN retransQueue[e] :
           expired' = [expired EXCEPT ![e] = [s \in S |-> retransQueue[e][s]]]
    BY DEF GetExpired
  <1>. DEFINE part == [s \in S |-> retransQueue[e][s]]
  <1>2. /\ \A d \in End : d # e => SameEnd(d)
        /\ expired'[e] = part
        /\ UNCHANGED <<state, done, sendAck, sendSeq, retransQueue>>
    BY <1>1 DEF GetExpired, windowVars, callVars, SameEnd, IInv, Shape, QueueShape
  <1>3. Within(Unacked(e)', Unacked(e))
    <2>1. Unacked(e)' = Over(retransQueue[e], part)
      BY <1>2 DEF Unacked
    <2>. QED
      BY <2>1 DEF Unacked, Over, Within
  <1>4. Apart(Unacked(e)') /\ Below(Unacked(e)', sendSeq[e])
    BY <1>3, WithinHolds DEF Holds, HoldsAt
  <1>5. OnlySyn(retransQueue[e]) => OnlySyn(part)
    BY DEF OnlySyn
  <1>. HIDE DEF part
  <1>6. (Fresh(e)' <=> Fresh(e)) /\ (Works(e)' <=> Works(e)) /\ Settled(e)' = Settled(e)
    BY <1>2 DEF Fresh, Works, Settled
  <1>7. HoldsAt(e)'
    BY <1>2, <1>4, <1>5, <1>6 DEF HoldsAt, Holds
  <1>. QED
    BY <1>2, <1>7, OneHolds

(* An entry that is sent again stays in the queue, or comes back to it. *)
LEMMA RetransmitHolds ==
  ASSUME IInv, Holds, NEW e \in End, NEW s, Retransmit(e, s)
  PROVE  Holds'
  <1>. DEFINE entry == Unacked(e)[s]
  <1>1. CASE entry.attempts >= MaxRetransmissions
    BY <1>1, ClosedHolds DEF Retransmit, Unacked
  <1>2. CASE ~(entry.attempts >= MaxRetransmissions)
    <2>1. /\ s \in DOMAIN expired[e]
          /\ retransQueue' = [retransQueue EXCEPT ![e] = With(@, s, Retried(entry))]
          /\ expired' = [expired EXCEPT ![e] = Without(@, {s})]
          /\ UNCHANGED <<state, done, sendAck, sendSeq>>
      BY <1>2 DEF Retransmit, Unacked, callVars
    <2>2. Table(e, retransQueue[e]) /\ Table(e, expired[e]) /\ Table(e, Unacked(e))
      BY Queues DEF IInv
    <2>3. s \in DOMAIN Unacked(e) /\ Entries(e, s, entry)
      BY <2>1, <2>2 DEF Unacked, Over, Table
    <2>4. Retried(entry).data = entry.data /\ Retried(entry).type = entry.type
      BY <2>3, RetriedKeeps
    <2>5. /\ OnlySyn(retransQueue[e]) /\ OnlySyn(expired[e]) => entry.type = "syn"
          /\ s \in DOMAIN retransQueue[e] => entry = retransQueue[e][s]
      BY <2>1 DEF Unacked, Over, OnlySyn
    <2>. HIDE DEF entry
    <2>. DEFINE q == With(retransQueue[e], s, Retried(entry))
                rest == Without(expired[e], {s})
    <2>6. /\ \A d \in End : d # e => SameEnd(d)
          /\ retransQueue'[e] = q /\ expired'[e] = rest
      BY <2>1 DEF SameEnd, IInv, Shape, QueueShape
    <2>7. Within(Over(q, rest), Unacked(e))
      <3>1. entry = Unacked(e)[s]
        BY DEF entry
      <3>. QED
        BY <2>1, <2>3, <2>4, <3>1 DEF Within, Unacked, Over, With, Without
    <2>8. Unacked(e)' = Over(q, rest)
      BY <2>6 DEF Unacked
    <2>9. Apart(Unacked(e)') /\ Below(Unacked(e)', sendSeq[e])
      BY <2>7, <2>8, WithinHolds DEF Holds, HoldsAt
    <2>10. OnlySyn(retransQueue[e]) /\ OnlySyn(expired[e]) => OnlySyn(q) /\ OnlySyn(rest)
      BY <2>4, <2>5 DEF With, Without, OnlySyn
    <2>11. \A b : Covers(retransQueue[e], b) => Covers(q, b)
      BY <2>4, <2>5 DEF Covers, Size, With
    <2>. HIDE DEF q, rest
    <2>12. (Fresh(e)' <=> Fresh(e)) /\ (Works(e)' <=> Works(e)) /\ Settled(e)' = Settled(e)
      BY <2>1 DEF Fresh, Works, Settled
    <2>13. HoldsAt(e)'
      BY <2>1, <2>6, <2>9, <2>10, <2>11, <2>12 DEF HoldsAt, Holds
    <2>. QED
      BY <2>6, <2>13, OneHolds
  <1>. QED
    BY <1>1, <1>2

(* The send worker adds the entry it has written.                          *)
LEMMA SendAdvancesHolds ==
  ASSUME IInv, mishaps = {}, Holds, NEW e \in End, SendAdvances(e)
  PROVE  Holds'
  <1>. DEFINE m == sendSeq[e]
              x == Entry("data", worker[e].data)
              q == With(retransQueue[e], m, x)
              one == [t \in {m} |-> x]
              n == m + Held(e)
  <1>1. state[e] = "connected" /\ ~done[e] /\ worker[e].pc = "written"
    BY Connected DEF SendAdvances, IInv
  <1>2. worker[e].seq = m
    BY <1>1 DEF IInv, Aligned, Sender, SenderAt
  <1>3. /\ m \in Nat /\ Held(e) \in Nat /\ n \in Nat /\ n <= Top(e) /\ n % SeqSpace = n
    <2>1. m \in Nat /\ Held(e) \in Nat /\ n <= Top(e)
      BY Numbers DEF IInv
    <2>. QED
      BY <2>1, Consts, ModSmall
  <1>4. /\ retransQueue' = [retransQueue EXCEPT ![e] = q]
        /\ sendSeq' = [sendSeq EXCEPT ![e] = n]
        /\ UNCHANGED <<state, done, sendAck, expired>>
    <2>1. sendSeq' = [sendSeq EXCEPT ![e] = n % SeqSpace]
      BY <1>2 DEF SendAdvances, Held
    <2>. QED
      BY <1>2, <1>3, <2>1, Zenon DEF SendAdvances, callVars
  <1>5. /\ \A d \in End : d # e => SameEnd(d)
        /\ retransQueue'[e] = q /\ sendSeq'[e] = n /\ expired'[e] = expired[e]
    BY <1>4 DEF SameEnd, IInv, Shape, SeqShape, QueueShape
  <1>6. Entries(e, m, x) /\ x.data = worker[e].data
    BY <1>3, Streams, DataEntry DEF Held, IInv
  <1>7. Table(e, retransQueue[e]) /\ Table(e, expired[e]) /\ Table(e, Unacked(e))
    BY Queues DEF IInv
  <1>8. /\ Table(e, one) /\ Apart(one) /\ Below(one, n) /\ \A s \in DOMAIN one : m <= s
        /\ Size(one, m) = Held(e)
    <2>1. Size(one, m) = Held(e)
      BY <1>6 DEF Size, Held
    <2>2. Table(e, one)
      BY <1>6 DEF Table
    <2>. HIDE DEF x
    <2>3. DOMAIN one = {m}
      OBVIOUS
    <2>. HIDE DEF one
    <2>. QED
      BY <1>3, <2>1, <2>2, <2>3 DEF Apart, Below
  <1>. HIDE DEF x
  <1>9. Apart(Over(one, Unacked(e))) /\ Below(Over(one, Unacked(e)), n)
    <2>. HIDE DEF one
    <2>1. m <= n
      BY <1>3
    <2>. HIDE DEF m, n
    <2>2. m \in Nat /\ n \in Nat
      BY <1>3
    <2>3. Apart(Unacked(e)) /\ Below(Unacked(e), m)
      BY DEF Holds, HoldsAt, m
    <2>. QED
      BY <1>7, <1>8, <2>1, <2>2, <2>3, AddedHolds
  <1>10. Alike(Over(one, Unacked(e)), Over(q, expired[e]))
    BY DEF Alike, Over, Unacked, With
  <1>11. Apart(Over(q, expired[e])) /\ Below(Over(q, expired[e]), n)
    <2>. HIDE DEF one, q, n
    <2>. QED
      BY <1>9, <1>10, AlikeHolds
  <1>12. \A b \in Settled(e)..n - 1 : Covers(q, b)
    <2>. SUFFICES ASSUME NEW b \in Settled(e)..n - 1 PROVE Covers(q, b)
      OBVIOUS
    <2>1. Settled(e) \in Nat /\ b \in Nat /\ b < n
      <3>1. Settled(e) \in Nat /\ n \in Nat
        BY <1>3, Queues DEF IInv
      <3>. HIDE DEF n
      <3>. QED
        BY <3>1
    <2>2. CASE b < m
      <3>1. b \in Settled(e)..m - 1
        BY <1>3, <2>1, <2>2
      <3>2. Works(e)
        BY <1>1 DEF Works
      <3>3. PICK s \in DOMAIN retransQueue[e] : s <= b /\ b < s + Size(retransQueue[e], s)
        BY <3>1, <3>2 DEF Holds, HoldsAt, Covers
      <3>4. s \in Nat
        BY <1>7, TableSizes
      <3>5. s # m
        BY <1>3, <2>1, <2>2, <3>3, <3>4
      <3>6. s \in DOMAIN q /\ Size(q, s) = Size(retransQueue[e], s)
        BY <3>3, <3>5 DEF With, Size
      <3>. QED
        BY <3>3, <3>6 DEF Covers
    <2>3. CASE m <= b
      <3>1. m \in DOMAIN q /\ Size(q, m) = Held(e)
        BY <1>6 DEF With, Size, Held
      <3>. QED
        BY <2>1, <2>3, <3>1 DEF Covers
    <2>. QED
      BY <1>3, <2>1, <2>2, <2>3
  <1>13. HoldsAt(e)'
    <2>1. Unacked(e)' = Over(q, expired[e]) /\ Settled(e)' = Settled(e)
      BY <1>4, <1>5 DEF Unacked, Settled
    <2>2. ~Fresh(e)'
      BY <1>1, <1>4 DEF Fresh
    <2>. HIDE DEF q, n
    <2>. QED
      BY <1>5, <1>11, <1>12, <2>1, <2>2 DEF HoldsAt
  <1>. QED
    BY <1>5, <1>13, OneHolds

(* What an acknowledgement leaves: of the entries, what it does not cover, *)
(* with the first n bytes that wait beside them.                           *)
Trimmed(e, ack) == TrimUpTo(retransQueue[e], ack)
Left(e, ack) == Over(Trimmed(e, ack), Followed(e, ack, Trimmed(e, ack)))
LEMMA TrimmedHolds ==
  ASSUME IInv, NEW e \in End, HoldsAt(e), NEW ack \in Nat
  PROVE  /\ Table(e, Trimmed(e, ack)) /\ Table(e, Followed(e, ack, Trimmed(e, ack)))
         /\ Apart(Left(e, ack)) /\ Below(Left(e, ack), sendSeq[e])
         /\ \A b \in Nat : ack <= b /\ Covers(retransQueue[e], b) => Covers(Trimmed(e, ack), b)
         /\ Fresh(e) => OnlySyn(Trimmed(e, ack)) /\ OnlySyn(Followed(e, ack, Trimmed(e, ack)))
  <1>. DEFINE q == retransQueue[e]
              x == expired[e]
              trimmed == TrimUpTo(q, ack)
              S == {IF s \in Split(q, ack) THEN ack ELSE s : s \in DOMAIN x}
              followed == [s \in S |-> Over(trimmed, Over(q, x))[s]]
  <1>1. Table(e, q) /\ Table(e, x) /\ Unacked(e) = Over(q, x) /\ sendSeq[e] \in Nat
    BY Queues DEF IInv
  <1>2. Trimmed(e, ack) = trimmed /\ Followed(e, ack, trimmed) = followed
    BY DEF Trimmed, Followed
  <1>3. Apart(Over(q, x)) /\ Below(Over(q, x), sendSeq[e])
    BY <1>1 DEF HoldsAt
  <1>4. /\ Apart(Over(trimmed, followed)) /\ Below(Over(trimmed, followed), sendSeq[e])
        /\ \A b \in Nat : ack <= b /\ Covers(q, b) => Covers(trimmed, b)
    <2>. HIDE DEF q, x
    <2>. QED
      BY <1>1, <1>3, TrimHolds
  <1>5. Table(e, trimmed) /\ (OnlySyn(q) => OnlySyn(trimmed))
    BY <1>1, TrimKeeps
  <1>6. /\ Table(e, Followed(e, ack, trimmed))
        /\ OnlySyn(q) /\ OnlySyn(x) => OnlySyn(Followed(e, ack, trimmed))
    BY FollowedKeeps DEF IInv
  <1>7. Fresh(e) => OnlySyn(q) /\ OnlySyn(x)
    BY DEF HoldsAt
  <1>. HIDE DEF trimmed, followed
  <1>. QED
    BY <1>2, <1>4, <1>5, <1>6, <1>7 DEF Left

(* The first number that is not acknowledged only advances. *)
LEMMA SettledAdvances ==
  ASSUME IInv, mishaps = {}, NEW e \in End, NEW p \in net, HandleAck(e, p)
  PROVE  /\ p.ack \in Nat /\ Settled(e) \in Nat
         /\ sendAck[e] < p.ack => Settled(e) <= p.ack
         /\ p.ack <= sendAck[e] => p.ack <= Settled(e)
  <1>1. /\ p.ack \in Nat /\ Settled(e) \in Nat /\ sendAck[e] \in Nat
        /\ FirstSeq(e) \in Nat
    BY AckNumber, Queues, Consts DEF IInv, Shape, SeqShape, Seqs
  <1>2. Owed(e, p.ack)
    BY DEF HandleAck, Deliver, IInv, Aligned, Honest, Says
  <1>3. p.ack # 0 => FirstSeq(e) <= p.ack
    <2>1. Reached(Peer(e)) \in Nat
      BY Numbers, Ends DEF IInv
    <2>. QED
      BY <1>1, <1>2, <2>1 DEF Owed
  <1>. QED
    BY <1>1, <1>3 DEF Settled

(* The queue an acknowledgement leaves: new entries, from the next number  *)
(* on and one next to the other, over those of trimmed; the worker's       *)
(* entries followed.                                                       *)
LEMMA AckHolds ==
  ASSUME IInv, mishaps = {}, Holds, NEW e \in End, NEW p \in net, HandleAck(e, p),
         NEW n \in Nat, NEW new, NEW rest,
         n > 0 => state[e] = "connected",
         sendSeq' = [sendSeq EXCEPT ![e] = @ + n],
         retransQueue' = [retransQueue EXCEPT ![e] = Over(new, rest)],
         Table(e, new), Apart(new), Below(new, sendSeq[e] + n),
         \A s \in DOMAIN new : sendSeq[e] <= s,
         n = 0 => DOMAIN new = {},
         \A b \in sendSeq[e]..sendSeq[e] + n - 1 : Covers(new, b),
         Alike(Trimmed(e, p.ack), rest), OnlySyn(Trimmed(e, p.ack)) => OnlySyn(rest),
         \E ack \in {sendAck[e], p.ack} :
            sendAck' = [sendAck EXCEPT ![e] = ack] /\ sendAck[e] <= ack
            /\ (ack = sendAck[e] => p.ack <= sendAck[e])
  PROVE  Holds'
  <1>. DEFINE m == sendSeq[e]
              followed == Followed(e, p.ack, Trimmed(e, p.ack))
              left == Left(e, p.ack)
  <1>1. /\ p.ack \in Nat /\ Settled(e) \in Nat
        /\ sendAck[e] < p.ack => Settled(e) <= p.ack
        /\ p.ack <= sendAck[e] => p.ack <= Settled(e)
    BY SettledAdvances
  <1>2. /\ Table(e, Trimmed(e, p.ack)) /\ Table(e, followed)
        /\ Apart(left) /\ Below(left, m)
        /\ \A b \in Nat : p.ack <= b /\ Covers(retransQueue[e], b) => Covers(Trimmed(e, p.ack), b)
        /\ Fresh(e) => OnlySyn(Trimmed(e, p.ack)) /\ OnlySyn(followed)
    BY <1>1, TrimmedHolds DEF Holds
  <1>3. left = Over(Trimmed(e, p.ack), followed)
    BY DEF Left
  <1>4. expired' = [expired EXCEPT ![e] = followed] /\ UNCHANGED <<state, done>>
    BY DEF HandleAck, Trimmed, callVars
  <1>. HIDE DEF followed, left
  <1>5. PICK ack \in {sendAck[e], p.ack} :
           /\ sendAck' = [sendAck EXCEPT ![e] = ack] /\ sendAck[e] <= ack
           /\ ack = sendAck[e] => p.ack <= sendAck[e]
    OBVIOUS
  <1>6. m \in Nat /\ m + n \in Nat /\ m <= m + n /\ sendAck[e] \in Nat
    BY Queues DEF IInv, Shape, SeqShape, Seqs
  <1>7. /\ \A d \in End : d # e => SameEnd(d)
        /\ retransQueue'[e] = Over(new, rest) /\ sendSeq'[e] = m + n /\ expired'[e] = followed
        /\ sendAck'[e] = ack
    BY <1>4, <1>5 DEF SameEnd, IInv, Shape, SeqShape, QueueShape
  <1>8. ack \in Nat /\ Settled(e)' \in Nat /\ p.ack <= Settled(e)' /\ Settled(e) <= Settled(e)'
    <2>1. CASE ack = sendAck[e]
      BY <1>1, <1>5, <1>6, <1>7, <2>1 DEF Settled
    <2>2. CASE ack = p.ack /\ ack # sendAck[e]
      <3>1. sendAck[e] < p.ack /\ p.ack # 0
        BY <1>1, <1>5, <1>6, <2>2
      <3>. QED
        BY <1>1, <1>7, <2>2, <3>1 DEF Settled
    <2>. QED
      BY <1>5, <2>1, <2>2
  <1>9. Apart(Over(new, left)) /\ Below(Over(new, left), m + n)
    <2>1. Table(e, left)
      BY <1>2, <1>3, OverKeeps
    <2>. DEFINE k == m + n
    <2>2. k \in Nat /\ m <= k /\ Below(new, k) /\ \A s \in DOMAIN new : m <= s
      BY <1>6
    <2>. HIDE DEF k, m
    <2>3. Apart(Over(new, left)) /\ Below(Over(new, left), k)
      BY <1>2, <1>6, <2>1, <2>2, AddedHolds
    <2>. QED
      BY <2>3 DEF k
  <1>10. Alike(Over(new, left), Over(Over(new, rest), followed))
    BY <1>3 DEF Alike, Over
  <1>11. Unacked(e)' = Over(Over(new, rest), followed)
    BY <1>7 DEF Unacked
  <1>12. Apart(Unacked(e)') /\ Below(Unacked(e)', sendSeq'[e])
    BY <1>7, <1>9, <1>10, <1>11, AlikeHolds
  <1>13. Fresh(e)' => OnlySyn(retransQueue'[e]) /\ OnlySyn(expired'[e])
    <2>. SUFFICES ASSUME Fresh(e)' PROVE OnlySyn(retransQueue'[e]) /\ OnlySyn(expired'[e])
      OBVIOUS
    <2>1. Fresh(e) /\ state[e] # "connected"
      BY <1>4 DEF Fresh
    <2>2. DOMAIN new = {}
      BY <2>1
    <2>3. OnlySyn(Over(new, rest))
      BY <1>2, <2>1, <2>2 DEF Over, OnlySyn
    <2>. QED
      BY <1>2, <1>7, <2>1, <2>3
  <1>14. Works(e)' => \A b \in Settled(e)'..sendSeq'[e] - 1 : Covers(retransQueue'[e], b)
    <2>1. ASSUME Works(e)', NEW b \in Settled(e)'..sendSeq'[e] - 1
          PROVE  Covers(retransQueue'[e], b)
      <3>1. Works(e)
        BY <1>4, <2>1 DEF Works
      <3>2. b \in Nat /\ Settled(e)' <= b /\ b < m + n
        BY <1>6, <1>7, <1>8
      <3>3. CASE m <= b
        <4>1. Covers(new, b)
          BY <1>6, <3>2, <3>3
        <4>. QED
          BY <1>7, <4>1 DEF Covers, Over, Size
      <3>4. CASE b < m
        <4>1. b \in Settled(e)..m - 1 /\ p.ack <= b
          BY <1>1, <1>6, <1>8, <3>2, <3>4
        <4>2. Covers(retransQueue[e], b)
          BY <3>1, <4>1 DEF Holds, HoldsAt
        <4>3. Covers(rest, b)
          BY <1>2, <3>2, <4>1, <4>2, AlikeHolds
        <4>4. PICK s \in DOMAIN rest : s <= b /\ b < s + Size(rest, s)
          BY <4>3 DEF Covers
        <4>5. s \in Nat
          BY <1>2, <4>4, TableSizes DEF Alike
        <4>6. s \notin DOMAIN new
          BY <1>6, <3>2, <3>4, <4>4, <4>5
        <4>. QED
          BY <1>7, <4>4, <4>6 DEF Covers, Over, Size
      <3>. QED
        BY <1>6, <3>2, <3>3, <3>4
    <2>. QED
      BY <2>1
  <1>15. HoldsAt(e)'
    BY <1>12, <1>13, <1>14 DEF HoldsAt
  <1>. QED
    BY <1>7, <1>15, OneHolds

LEMMA AdvancesHolds ==
  ASSUME IInv, mishaps = {}, Holds, NEW e \in End, NEW p \in net, HandleAck(e, p),
         p.ack > sendAck[e], Advances(e, p, Trimmed(e, p.ack))
  PROVE  Holds'
  <1>. DEFINE n == ToFill(e, p.ack)
              trimmed == Trimmed(e, p.ack)
  <1>1. p.ack \in Nat /\ p.ack \in Int /\ sendAck[e] \in Nat
    BY AckNumber DEF IInv, Shape, SeqShape, Seqs
  <1>2. n \in Nat /\ n <= Waiting(e) /\ (n > 0 => state[e] = "connected")
    <2>1. /\ Allowance(e, p.ack, Grown(e)) \in Nat /\ Allowance(e, p.ack, Grown(e)) <= Waiting(e)
          /\ Waiting(e) \in Nat
      BY <1>1, AllowanceFits, GrownFits, Numbers DEF IInv
    <2>. QED
      BY <2>1 DEF ToFill
  <1>3. /\ sendAck' = [sendAck EXCEPT ![e] = p.ack]
        /\ retransQueue' = [retransQueue EXCEPT ![e] = Over(Pending(e, n), trimmed)]
        /\ sendSeq' = [sendSeq EXCEPT ![e] = @ + n]
    BY DEF Advances
  <1>. HIDE DEF n, trimmed
  <1>4. /\ Table(e, Pending(e, n)) /\ Apart(Pending(e, n)) /\ Below(Pending(e, n), sendSeq[e] + n)
        /\ \A s \in DOMAIN Pending(e, n) : sendSeq[e] <= s
        /\ \A b \in sendSeq[e]..sendSeq[e] + n - 1 : Covers(Pending(e, n), b)
        /\ n = 0 => DOMAIN Pending(e, n) = {}
    BY <1>2, PendingHolds DEF IInv
  <1>5. Alike(Trimmed(e, p.ack), trimmed) /\ (OnlySyn(Trimmed(e, p.ack)) => OnlySyn(trimmed))
    BY DEF Alike, trimmed
  <1>6. sendAck[e] <= p.ack /\ (p.ack = sendAck[e] => p.ack <= sendAck[e])
    BY <1>1
  <1>. QED
    BY <1>2, <1>3, <1>4, <1>5, <1>6, AckHolds

(* An acknowledgement that does not advance adds nothing. *)
LEMMA NoAdvanceHolds ==
  ASSUME IInv, mishaps = {}, Holds, NEW e \in End, NEW p \in net, HandleAck(e, p),
         p.ack <= sendAck[e], UNCHANGED <<sendSeq, sendAck>>, NEW q,
         retransQueue' = [retransQueue EXCEPT ![e] = q], q = [s \in DOMAIN q |-> q[s]],
         Alike(Trimmed(e, p.ack), q), OnlySyn(Trimmed(e, p.ack)) => OnlySyn(q)
  PROVE  Holds'
  <1>1. sendAck[e] \in Nat /\ sendSeq[e] \in Nat /\ 0 \in Nat /\ ~(0 > 0)
    BY DEF IInv, Shape, SeqShape, Seqs
  <1>2. sendSeq' = [sendSeq EXCEPT ![e] = @ + 0]
    <2>1. sendSeq[e] + 0 = sendSeq[e]
      BY <1>1
    <2>. QED
      BY <2>1 DEF IInv, Shape, SeqShape
  <1>3. Over(NoEntries, q) = q
    BY DEF Over, NoEntries
  <1>4. DOMAIN NoEntries = {} /\ Table(e, NoEntries)
    BY DEF NoEntries, Table
  <1>5. Apart(NoEntries) /\ Below(NoEntries, sendSeq[e] + 0)
    BY <1>4 DEF Apart, Below
  <1>6. \A b \in sendSeq[e]..sendSeq[e] + 0 - 1 : Covers(NoEntries, b)
    BY <1>1
  <1>7. \E ack \in {sendAck[e], p.ack} :
            sendAck' = [sendAck EXCEPT ![e] = ack] /\ sendAck[e] <= ack
            /\ (ack = sendAck[e] => p.ack <= sendAck[e])
    BY <1>1 DEF IInv, Shape, SeqShape
  <1>8. retransQueue' = [retransQueue EXCEPT ![e] = Over(NoEntries, q)]
    BY <1>3
  <1>. QED
    BY <1>1, <1>2, <1>4, <1>5, <1>6, <1>7, <1>8, AckHolds

LEMMA RepeatsHolds ==
  ASSUME IInv, mishaps = {}, Holds, NEW e \in End, NEW p \in net, HandleAck(e, p),
         p.ack = sendAck[e], Repeats(e, p, Trimmed(e, p.ack))
  PROVE  Holds'
  <1>. DEFINE trimmed == Trimmed(e, p.ack)
              last == dupAckCount[e] + 1 >= DupAcks
              s == CHOOSE t \in DOMAIN trimmed : \A u \in DOMAIN trimmed : t <= u
              fast == last /\ trimmed # NoEntries /\ s >= p.ack
              q == IF fast THEN With(trimmed, s, Retried(trimmed[s])) ELSE trimmed
  <1>1. retransQueue' = [retransQueue EXCEPT ![e] = q] /\ UNCHANGED <<sendAck, sendSeq>>
    BY DEF Repeats
  <1>2. p.ack \in Nat /\ Table(e, trimmed)
    BY AckNumber, TrimKeeps DEF Trimmed
  <1>. HIDE DEF trimmed
  <1>3. fast => s \in DOMAIN trimmed
    <2>1. trimmed # NoEntries => DOMAIN trimmed # {}
      BY <1>2 DEF Table, NoEntries
    <2>2. DOMAIN trimmed \subseteq Nat
      BY <1>2 DEF Table, Entries
    <2>. QED
      BY <2>1, <2>2, Least
  <1>. HIDE DEF s, fast, last
  <1>4. Alike(trimmed, q) /\ (OnlySyn(trimmed) => OnlySyn(q)) /\ q = [t \in DOMAIN q |-> q[t]]
    <2>1. CASE fast
      <3>1. Entries(e, s, trimmed[s])
        BY <1>2, <1>3, <2>1 DEF Table
      <3>2. Retried(trimmed[s]).data = trimmed[s].data /\ Retried(trimmed[s]).type = trimmed[s].type
        BY <3>1, RetriedKeeps
      <3>. QED
        BY <1>3, <2>1, <3>2 DEF Alike, With, OnlySyn
    <2>2. CASE ~fast
      BY <1>2, <2>2 DEF Alike, Table
    <2>. QED
      BY <2>1, <2>2
  <1>5. p.ack <= sendAck[e]
    BY <1>2
  <1>. HIDE DEF q
  <1>. QED
    BY <1>1, <1>4, <1>5, NoAdvanceHolds DEF trimmed

LEMMA HandleAckHolds ==
  ASSUME IInv, mishaps = {}, Holds, NEW e \in End, NEW p \in net, HandleAck(e, p)
  PROVE  Holds'
  <1>. DEFINE trimmed == Trimmed(e, p.ack)
  <1>1. CASE p.ack > sendAck[e] /\ Advances(e, p, trimmed)
    BY <1>1, AdvancesHolds
  <1>2. CASE p.ack = sendAck[e] /\ Repeats(e, p, trimmed)
    BY <1>2, RepeatsHolds
  <1>3. CASE /\ p.ack < sendAck[e]
             /\ retransQueue' = [retransQueue EXCEPT ![e] = trimmed]
             /\ UNCHANGED <<sendAck, sendSeq>>
    <2>1. p.ack <= sendAck[e] /\ Table(e, trimmed)
      <3>1. p.ack \in Nat /\ sendAck[e] \in Nat
        BY AckNumber DEF IInv, Shape, SeqShape, Seqs
      <3>. QED
        BY <1>3, <3>1, AckNumber, TrimKeeps DEF Trimmed
    <2>2. Alike(trimmed, trimmed) /\ trimmed = [s \in DOMAIN trimmed |-> trimmed[s]]
      BY <2>1 DEF Alike, Table
    <2>. HIDE DEF trimmed
    <2>. QED
      BY <1>3, <2>1, <2>2, NoAdvanceHolds DEF trimmed
  <1>. QED
    BY <1>1, <1>2, <1>3 DEF HandleAck, Trimmed

------------------------------------------------------------------------------
LEMMA InitHolds == Init => Holds
  <1>. SUFFICES ASSUME Init, NEW e \in End PROVE HoldsAt(e)
    BY DEF Holds
  <1>1. /\ retransQueue[e] = NoEntries /\ expired[e] = NoEntries /\ state[e] = "idle"
    BY DEF Init
  <1>2. DOMAIN NoEntries = {} /\ DOMAIN Unacked(e) = {}
    BY <1>1 DEF NoEntries, Unacked, Over
  <1>. QED
    BY <1>1, <1>2 DEF HoldsAt, Apart, Below, OnlySyn, Works

LEMMA NextHolds ==
  ASSUME IInv, mishaps = {}, Holds, Next
  PROVE  Holds'
  <1>1. CASE Connect \/ ConnectReturns \/ Listen \/ ListenReturns
    BY <1>1, ConnectHolds, ConnectReturnsHolds, ListenHolds, ListenReturnsHolds
  <1>2. ASSUME NEW e \in End, CallFails(e) \/ Close(e)
        PROVE  Holds'
    BY <1>2, CallFailsHolds, ClosedHolds DEF Close
  <1>3. ASSUME NEW e \in End, Send(e) \/ Receive(e) \/ AckTimer(e) \/ KeepAlive(e)
                              \/ SendReads(e) \/ SendStops(e) \/ SendWrites(e)
        PROVE  Holds'
    <2>1. UNCHANGED <<state, done, sendAck, sendSeq, retransQueue, expired>>
      BY <1>3 DEF Send, Receive, AckTimer, KeepAlive, SendReads, SendStops, SendWrites,
         windowVars, workerVars, callVars
    <2>. QED
      BY <2>1, QuietHolds
  <1>4. ASSUME NEW e \in End, SendAdvances(e)
        PROVE  Holds'
    BY <1>4, SendAdvancesHolds
  <1>5. ASSUME NEW e \in End, RetransmissionWorker(e)
        PROVE  Holds'
    BY <1>5, GetExpiredHolds, RetransmitHolds DEF RetransmissionWorker
  <1>6. ASSUME NEW e \in End, NEW p \in net, HandleData(e, p) \/ HandleKeepAlive(e, p)
        PROVE  Holds'
    <2>1. UNCHANGED <<state, done, sendAck, sendSeq, retransQueue, expired>>
      BY <1>6 DEF HandleData, HandleKeepAlive, windowVars, workerVars, callVars
    <2>. QED
      BY <2>1, QuietHolds
  <1>7. ASSUME NEW e \in End, ReceiveWorker(e)
        PROVE  Holds'
    BY <1>6, <1>7, HandleAckHolds, HandleSynHolds, HandleFinHolds DEF ReceiveWorker
  <1>8. ASSUME NEW p \in net, Lose(p)
        PROVE  Holds'
    BY <1>8, QuietHolds DEF Lose, windowVars, workerVars, callVars
  <1>. QED
    BY <1>1, <1>2, <1>3, <1>4, <1>5, <1>7, <1>8 DEF Next, SendWorker

(* What has gone wrong with the sequence numbers stays wrong. *)
LEMMA MishapsStay ==
  ASSUME Next \/ UNCHANGED vars
  PROVE  mishaps \subseteq mishaps'
  <1>1. CASE Connect \/ ConnectReturns \/ Listen \/ ListenReturns \/ UNCHANGED vars
    BY <1>1 DEF Connect, ConnectReturns, Listen, ListenReturns, vars
  <1>2. ASSUME NEW e \in End, CallFails(e) \/ Close(e) \/ Send(e) \/ Receive(e) \/ AckTimer(e)
                              \/ KeepAlive(e)
        PROVE  mishaps \subseteq mishaps'
    BY <1>2 DEF CallFails, Close, Closed, Send, Receive, AckTimer, KeepAlive
  <1>3. ASSUME NEW e \in End, SendWorker(e) \/ RetransmissionWorker(e)
        PROVE  mishaps \subseteq mishaps'
    BY <1>3 DEF SendWorker, SendReads, SendStops, SendWrites, SendAdvances, RetransmissionWorker,
       GetExpired, Retransmit, Closed
  <1>4. ASSUME NEW e \in End, ReceiveWorker(e)
        PROVE  mishaps \subseteq mishaps'
    BY <1>4 DEF ReceiveWorker, HandleData, HandleAck, HandleSyn, HandleFin, HandleKeepAlive, Closed
  <1>5. ASSUME NEW p \in net, Lose(p)
        PROVE  mishaps \subseteq mishaps'
    BY <1>5 DEF Lose
  <1>. QED
    BY <1>1, <1>2, <1>3, <1>4, <1>5 DEF Next

(* A byte whose number lies among those of a piece of the stream is in it. *)
LEMMA Found ==
  ASSUME NEW e \in End, NEW S, NEW data \in Seq(S), NEW s \in Nat, At(e, s, data), NEW b \in Nat,
         s <= FirstSeq(e) + b - 1, FirstSeq(e) + b - 1 < s + Len(data)
  PROVE  b \in ToSet(data)
  <1>. DEFINE i == FirstSeq(e) + b - s
  <1>1. i \in 1..Len(data) /\ s - FirstSeq(e) + i = b
    BY Consts, LenProperties
  <1>2. i \in DOMAIN data
    BY <1>1, LenProperties
  <1>. HIDE DEF i
  <1>3. data[i] = b
    BY <1>1, <1>2 DEF At
  <1>. QED
    BY <1>2, <1>3 DEF ToSet

LEMMA HoldsImplies == IInv /\ (mishaps = {} => Holds) => NoByteLost
  <1>. SUFFICES ASSUME IInv, mishaps = {}, Holds, NEW e \in End, Open(e),
                       NEW b \in Len(received[Peer(e)]) + 1..accepted[e],
                       b \notin ToSet(sendBuffer[e]), b \notin ToSet(worker[e].data)
                PROVE  \E s \in DOMAIN retransQueue[e] : b \in ToSet(retransQueue[e][s].data)
    BY DEF NoByteLost
  <1>1. /\ Len(received[Peer(e)]) \in Nat /\ accepted[e] \in Nat /\ b \in Nat /\ b >= 1
        /\ Len(received[Peer(e)]) < b /\ b <= accepted[e]
    <2>1. Len(received[Peer(e)]) \in Nat /\ accepted[e] \in Nat
      BY Streams, Numbers, Ends DEF IInv
    <2>. QED
      BY <2>1
  <1>2. state[e] = "connected" /\ ~done[e]
    <2>1. state[e] \in {"idle", "connecting", "listening", "connected", "closed"}
      BY DEF IInv, Shape, FlagShape
    <2>2. accepted[e] # 0
      BY <1>1
    <2>. QED
      BY <2>1, <2>2 DEF Open, IInv, Shape, Phases
  <1>. DEFINE c == FirstSeq(e) + b - 1
  <1>3. /\ sendSeq[e] \in Nat /\ Held(e) \in Nat /\ Waiting(e) \in Nat /\ FirstSeq(e) \in Nat
        /\ c \in Nat /\ Settled(e) \in Nat
    BY <1>1, Numbers, Consts, Queues DEF IInv
  <1>4. /\ At(e, sendSeq[e], worker[e].data) /\ At(e, sendSeq[e] + Held(e), sendBuffer[e])
        /\ sendSeq[e] + (Held(e) + Waiting(e)) = FirstSeq(e) + accepted[e]
        /\ AllAt(e, retransQueue[e])
    BY <1>2 DEF IInv, Aligned, Sender, SenderAt, Kept
  <1>5. Settled(e) <= c
    <2>1. Owed(e, sendAck[e]) /\ Reached(Peer(e)) = FirstSeq(e) + Len(received[Peer(e)])
      BY Ends DEF IInv, Aligned, Honest, Reached
    <2>2. CASE sendAck[e] = 0
      BY <1>1, <1>3, <2>2 DEF Settled
    <2>3. CASE sendAck[e] \in FirstSeq(e)..Reached(Peer(e))
      BY <1>1, <1>3, <2>1, <2>3 DEF Settled
    <2>. QED
      BY <2>1, <2>2, <2>3 DEF Owed
  <1>6. CASE c < sendSeq[e]
    <2>1. PICK s \in DOMAIN retransQueue[e] : s <= c /\ c < s + Size(retransQueue[e], s)
      <3>1. c \in Settled(e)..sendSeq[e] - 1
        BY <1>3, <1>5, <1>6
      <3>. HIDE DEF c
      <3>. QED
        BY <1>2, <3>1 DEF Holds, HoldsAt, Works, Covers
    <2>2. Entries(e, s, retransQueue[e][s]) /\ At(e, s, retransQueue[e][s].data)
      BY <1>4, Queues DEF IInv, Table, AllAt
    <2>3. retransQueue[e][s].data \in Seq(Stream(e)) /\ s \in Nat
      BY <2>2 DEF Entries, EntryRecords
    <2>4. b \in ToSet(retransQueue[e][s].data)
      BY <1>1, <2>1, <2>2, <2>3, Found DEF Size
    <2>. QED
      BY <2>4
  <1>7. CASE sendSeq[e] <= c /\ c < sendSeq[e] + Held(e)
    <2>1. b \in ToSet(worker[e].data)
      BY <1>1, <1>3, <1>4, <1>7, Streams, Found DEF Held, IInv
    <2>. QED
      BY <2>1
  <1>8. CASE sendSeq[e] + Held(e) <= c
    <2>1. c < (sendSeq[e] + Held(e)) + Waiting(e) /\ sendSeq[e] + Held(e) \in Nat
      <3>1. sendSeq[e] + (Held(e) + Waiting(e)) = FirstSeq(e) + accepted[e]
        BY <1>4
      <3>2. b \in Nat /\ accepted[e] \in Nat /\ b <= accepted[e]
        BY <1>1
      <3>3. \A s, h, w, f, a, k \in Nat : s + (h + w) = f + a /\ k <= a => f + k - 1 < (s + h) + w
        OBVIOUS
      <3>4. sendSeq[e] + Held(e) \in Nat
        BY <1>3
      <3>. QED
        BY <1>3, <3>1, <3>2, <3>3, <3>4
    <2>2. b \in ToSet(sendBuffer[e])
      BY <1>1, <1>4, <1>8, <2>1, Streams, Found DEF Waiting, IInv
    <2>. QED
      BY <2>2
  <1>. QED
    BY <1>3, <1>6, <1>7, <1>8

(* As long as neither two senders of one end used one number nor a second  *)
(* SYN or SYN-ACK reset receiveSeq, every byte that Send accepted and the  *)
(* peer of an open end has not stored is still with that end: in the send  *)
(* buffer, with the send worker, or in the retransmission queue, whatever  *)
(* was acknowledged, trimmed and sent again meanwhile (Send,               *)
(* sendPendingData, handleAckPacket, retransmissionWorker).                *)
THEOREM FillpKeeps == Spec => []NoByteLost
  <1>. DEFINE HInv == IInv /\ (mishaps = {} => Holds)
  <1>1. Init => HInv
    BY InitIInv, InitHolds
  <1>2. HInv /\ [Next]_vars => HInv'
    <2>. SUFFICES ASSUME HInv, [Next]_vars PROVE HInv'
      OBVIOUS
    <2>1. IInv'
      BY NextKeeps, StutterKeeps
    <2>2. mishaps' = {} => mishaps = {}
      BY MishapsStay
    <2>3. CASE Next
      BY <2>1, <2>2, <2>3, NextHolds
    <2>4. CASE UNCHANGED vars
      BY <2>1, <2>2, <2>4, QuietHolds DEF vars, windowVars, workerVars, callVars
    <2>. QED
      BY <2>3, <2>4
  <1>3. HInv => NoByteLost
    BY HoldsImplies
  <1>. QED
    BY <1>1, <1>2, <1>3, PTL DEF Spec

------------------------------------------------------------------------------
(* What has arrived and what is under way was sent: it ends at the number  *)
(* up to which the end has written.  From an end that is not connected     *)
(* nothing has.                                                            *)
Sent(e) == IF worker[e].pc = "written" THEN sendSeq[e] + Held(e) ELSE sendSeq[e]
Fair(e, p) ==
    p.type = "data" /\ p.to = Peer(e) =>
       ~Fresh(e) /\ (Works(e) => p.seq + Len(p.data) <= Sent(e))
LimitsAt(e) ==
    /\ Fresh(e) => received[Peer(e)] = <<>>
    /\ Works(e) => Reached(Peer(e)) <= Sent(e)
    /\ \A p \in net : Fair(e, p)
Limits == \A e \in End : LimitsAt(e)

(* What a step may do to an end. *)
Steady(e) ==
    /\ Fresh(e)' => Fresh(e)
    /\ Works(e)' => \/ Works(e) /\ Sent(e) <= Sent(e)'
                    \/ Fresh(e) /\ FirstSeq(e) <= Sent(e)'
Stores(e) ==
    \/ received'[e] = received[e]
    \/ \E p \in net : /\ p.type = "data" /\ p.to = e
                      /\ Reached(e)' \in {Reached(e), p.seq + Len(p.data)}

LEMMA SentNat ==
  ASSUME Shape, NEW e \in End
  PROVE  Sent(e) \in Nat /\ sendSeq[e] <= Sent(e) /\ sendSeq[e] \in Nat
  BY Numbers DEF Sent

LEMMA SentStaysNat ==
  ASSUME Shape', NEW e \in End
  PROVE  Sent(e)' \in Nat /\ Len(received'[e]) \in Nat
  <1>1. /\ sendSeq'[e] \in Nat /\ worker'[e].data \in Seq(Stream(e))
        /\ received'[e] \in Seq(Stream(Peer(e)))
    BY DEF Shape, SeqShape, WorkerShape, WorkerRecords, StreamShape
  <1>2. Len(worker'[e].data) \in Nat /\ Len(received'[e]) \in Nat
    BY <1>1, LenProperties
  <1>. QED
    BY <1>1, <1>2 DEF Sent, Held

LEMMA LimitsKept ==
  ASSUME IInv, IInv', Limits, \A d \in End : Steady(d) /\ Stores(d),
         \A r \in net' : r \in net \/ \A d \in End : Fair(d, r)'
  PROVE  Limits'
  <1>. SUFFICES ASSUME NEW e \in End PROVE LimitsAt(e)'
    BY DEF Limits
  <1>. DEFINE d == Peer(e)
  <1>1. /\ d \in End /\ Steady(e) /\ Stores(d) /\ LimitsAt(e) /\ Peer(d) = e
        /\ Sent(e) \in Nat /\ Sent(e)' \in Nat
    BY Ends, SentNat, SentStaysNat DEF IInv, Limits
  <1>2. /\ Reached(d) = FirstSeq(e) + Len(received[d])
        /\ Reached(d)' = FirstSeq(e) + Len(received'[d])
        /\ Reached(d) \in Nat /\ Reached(d)' \in Nat /\ FirstSeq(e) \in Nat
    <2>1. /\ Reached(d) = FirstSeq(e) + Len(received[d])
          /\ Reached(d)' = FirstSeq(e) + Len(received'[d])
      BY <1>1 DEF Reached
    <2>2. Len(received[d]) \in Nat /\ Len(received'[d]) \in Nat /\ FirstSeq(e) \in Nat
      BY <1>1, Streams, Consts, SentStaysNat DEF IInv
    <2>. QED
      BY <2>1, <2>2
  <1>3. \A p \in net : p.type = "data" => p.seq + Len(p.data) \in Nat
    <2>1. \A p \in net : p.type = "data" => p.seq \in Nat /\ p.data \in Seq(Stream(Peer(p.to)))
      BY DEF IInv, Shape, NetShape, Fits, Seqs
    <2>. QED
      BY <2>1, LenProperties
  <1>. HIDE DEF d
  <1>4. Fresh(e)' => received'[d] = <<>>
    BY <1>1 DEF Steady, Stores, LimitsAt, Fair, d
  <1>5. Works(e)' => Reached(d)' <= Sent(e)'
    <2>. SUFFICES ASSUME Works(e)' PROVE Reached(d)' <= Sent(e)'
      OBVIOUS
    <2>1. CASE Works(e) /\ Sent(e) <= Sent(e)'
      <3>1. Reached(d)' <= Sent(e)
        <4>1. CASE received'[d] = received[d]
          BY <1>1, <1>2, <2>1, <4>1 DEF LimitsAt, d
        <4>2. ASSUME NEW p \in net, p.type = "data", p.to = d,
                     Reached(d)' \in {Reached(d), p.seq + Len(p.data)}
              PROVE  Reached(d)' <= Sent(e)
          BY <1>1, <1>2, <2>1, <4>2 DEF LimitsAt, Fair, d
        <4>. QED
          BY <1>1, <4>1, <4>2 DEF Stores
      <3>. QED
        BY <1>1, <1>2, <2>1, <3>1
    <2>2. CASE Fresh(e) /\ FirstSeq(e) <= Sent(e)'
      <3>1. received'[d] = received[d] /\ received[d] = <<>>
        BY <1>1, <2>2 DEF Stores, LimitsAt, Fair, d
      <3>2. Len(<<>>) = 0
        OBVIOUS
      <3>. QED
        BY <1>2, <2>2, <3>1, <3>2
    <2>. QED
      BY <1>1, <2>1, <2>2 DEF Steady
  <1>6. ASSUME NEW r \in net' PROVE Fair(e, r)'
    <2>1. CASE r \in net
      BY <1>1, <1>3, <2>1 DEF Steady, LimitsAt, Fair
    <2>. QED
      BY <2>1
  <1>. QED
    BY <1>4, <1>5, <1>6 DEF LimitsAt, d

(* Packets without data are always fair. *)
LEMMA NoDataIsFair ==
  ASSUME NEW r, r.type # "data"
  PROVE  \A d \in End : Fair(d, r)'
  BY DEF Fair

LEMMA AckHasNoData ==
  ASSUME NEW e, NEW a, NEW b
  PROVE  /\ Ack(e, a, b).type # "data"
         /\ \A t : Packet(e, t, a, b, <<>>).type = t
  BY DEF Ack, Packet

LEMMA SteadyStays ==
  ASSUME Shape, NEW d \in End, state'[d] = state[d], done'[d] = done[d], sendSeq'[d] = sendSeq[d],
         worker'[d] = worker[d]
  PROVE  Steady(d)
  <1>1. Sent(d)' = Sent(d) /\ (Fresh(d)' <=> Fresh(d)) /\ (Works(d)' <=> Works(d))
    BY DEF Sent, Held, Fresh, Works
  <1>2. Sent(d) <= Sent(d)
    BY SentNat
  <1>. QED
    BY <1>1, <1>2 DEF Steady

LEMMA SteadyEnds ==
  ASSUME NEW d \in End, ~Works(d)', Fresh(d)' => Fresh(d)
  PROVE  Steady(d)
  BY DEF Steady

(* Steps that send no data and store nothing. *)
LEMMA DullLimits ==
  ASSUME IInv, IInv', Limits, \A d \in End : Steady(d), received' = received,
         \A r \in net' : r \in net \/ r.type # "data"
  PROVE  Limits'
  <1>1. \A d \in End : Stores(d)
    BY DEF Stores
  <1>2. \A r \in net' : r \in net \/ \A d \in End : Fair(d, r)'
    BY NoDataIsFair
  <1>. QED
    BY <1>1, <1>2, LimitsKept

LEMMA QuietLimits ==
  ASSUME IInv, IInv', Limits, UNCHANGED <<state, done, sendSeq, worker, received>>,
         \A r \in net' : r \in net \/ r.type # "data"
  PROVE  Limits'
  BY SteadyStays, DullLimits DEF IInv

LEMMA ClosedLimits ==
  ASSUME IInv, IInv', Limits, NEW e \in End, NEW packets, Closed(e, packets),
         \A p \in packets : p.type # "data"
  PROVE  Limits'
  <1>1. /\ \A d \in End : d # e => /\ state'[d] = state[d] /\ done'[d] = done[d]
                                   /\ sendSeq'[d] = sendSeq[d] /\ worker'[d] = worker[d]
        /\ state'[e] = "closed" /\ done'[e] = TRUE /\ received' = received
    BY DEF Closed, windowVars, streamVars, IInv, Shape, FlagShape, WorkerShape
  <1>2. Steady(e)
    BY <1>1, SteadyEnds DEF Works, Fresh
  <1>3. \A d \in End : Steady(d)
    BY <1>1, <1>2, SteadyStays DEF IInv
  <1>4. \A r \in net' : r \in net \/ r.type # "data"
    <2>1. net' \in UnderWay({p \in net : p.to # e},
                            packets \cup {Packet(e, "fin", sendSeq[e], 0, <<>>)})
      BY DEF Closed
    <2>2. \A r \in net' : r \in net \/ r \in packets \/ r = Packet(e, "fin", sendSeq[e], 0, <<>>)
      BY <2>1, Arrives
    <2>3. Packet(e, "fin", sendSeq[e], 0, <<>>).type # "data"
      BY DEF Packet
    <2>. QED
      BY <2>2, <2>3
  <1>. QED
    BY <1>1, <1>3, <1>4, DullLimits

LEMMA CallsLimits ==
  ASSUME IInv, IInv', mishaps = {}, Limits, Connect \/ ConnectReturns \/ Listen \/ ListenReturns
  PROVE  Limits'
  <1>1. received' = received
    BY DEF Connect, ConnectReturns, Listen, ListenReturns, streamVars
  <1>2. \A r \in net' : r \in net \/ r.type # "data"
    <2>1. CASE Connect
      <3>1. net' \in UnderWay(net, {Packet("client", "syn", ISN["client"], 0, <<>>)})
        BY <2>1 DEF Connect, Transmit
      <3>2. Packet("client", "syn", ISN["client"], 0, <<>>).type # "data"
        BY DEF Packet
      <3>. QED
        BY <3>1, <3>2, Arrives
    <2>. QED
      BY <2>1 DEF ConnectReturns, Listen, ListenReturns
  <1>3. CASE Connect \/ ConnectReturns
    <2>. DEFINE e == "client"
    <2>1. /\ e \in End /\ \A d \in End : d # e => /\ state'[d] = state[d] /\ done'[d] = done[d]
                                   /\ sendSeq'[d] = sendSeq[d] /\ worker'[d] = worker[d]
      <3>1. CASE Connect
        BY <3>1, Ends DEF Connect, workerVars, IInv, Shape, FlagShape, SeqShape
      <3>2. CASE ConnectReturns
        BY <3>2, Ends DEF ConnectReturns, workerVars, IInv, Shape, FlagShape, SeqShape
      <3>. QED
        BY <1>3, <3>1, <3>2
    <2>2. ASSUME Connect PROVE Steady(e)
      <3>1. state[e] = "idle" /\ state'[e] = "connecting"
        BY <2>1, <2>2 DEF Connect, IInv, Shape, FlagShape
      <3>. QED
        BY <3>1 DEF Steady, Works, Fresh
    <2>3. ASSUME ConnectReturns PROVE Steady(e)
      <3>1. /\ calling[e] /\ state'[e] = "connected" /\ done'[e] = done[e]
            /\ sendSeq'[e] = sendSeq[e] + 1 /\ worker'[e] = worker[e]
        BY <2>1, <2>3 DEF ConnectReturns, workerVars, IInv, Shape, FlagShape, SeqShape
      <3>2. /\ state[e] \in {"connecting", "closed"} /\ sendSeq[e] = ISN[e]
            /\ state[e] = "closed" => done[e]
            /\ FirstSeq(e) = ISN[e] + 1
        BY <2>1, <3>1 DEF IInv, Shape, Calls, Phases, FirstSeq
      <3>3. Works(e)' => Fresh(e) /\ worker[e] = Idle
        BY <2>1, <3>1, <3>2 DEF Works, Fresh, IInv, Shape, Phases
      <3>4. worker[e] = Idle => Sent(e)' = sendSeq[e] + 1
        BY <3>1 DEF Sent, Idle
      <3>5. FirstSeq(e) \in Nat /\ sendSeq[e] + 1 = FirstSeq(e)
        BY <2>1, <3>2, Consts
      <3>6. ~Fresh(e)'
        BY <3>1 DEF Fresh
      <3>7. Works(e)' => Fresh(e) /\ FirstSeq(e) <= Sent(e)'
        BY <3>3, <3>4, <3>5
      <3>8. Steady(e)
        BY <3>6, <3>7 DEF Steady
      <3>. QED
        BY <2>1, <3>8
    <2>4. Steady(e)
      BY <1>3, <2>2, <2>3
    <2>5. \A d \in End : Steady(d)
      BY <2>1, <2>4, SteadyStays DEF IInv
    <2>. QED
      BY <1>1, <1>2, <2>5, DullLimits
  <1>4. CASE Listen \/ ListenReturns
    <2>. DEFINE e == "server"
    <2>1. /\ e \in End /\ \A d \in End : d # e => /\ state'[d] = state[d] /\ done'[d] = done[d]
                                   /\ sendSeq'[d] = sendSeq[d] /\ worker'[d] = worker[d]
      <3>1. CASE Listen
        BY <3>1, Ends DEF Listen, workerVars, windowVars, IInv, Shape, FlagShape
      <3>2. CASE ListenReturns
        BY <3>2, Ends DEF ListenReturns, workerVars, windowVars, IInv, Shape, FlagShape
      <3>. QED
        BY <1>4, <3>1, <3>2
    <2>2. ASSUME Listen PROVE Steady(e)
      <3>1. state[e] = "idle" /\ state'[e] = "listening"
        BY <2>1, <2>2 DEF Listen, IInv, Shape, FlagShape
      <3>. QED
        BY <3>1 DEF Steady, Works, Fresh
    <2>3. ASSUME ListenReturns PROVE Steady(e)
      <3>1. /\ calling[e] /\ listenChan[e] /\ state'[e] = "connected"
            /\ sendSeq'[e] = sendSeq[e] /\ worker'[e] = worker[e]
        BY <2>1, <2>3 DEF ListenReturns, workerVars, windowVars, IInv, Shape, FlagShape
      <3>2. state[e] = "listening" /\ sendSeq[e] = ISN[e] /\ FirstSeq(e) = ISN[e]
        BY <2>1, <3>1 DEF IInv, Shape, Calls, FirstSeq
      <3>3. Fresh(e) /\ worker[e] = Idle
        BY <2>1, <3>2 DEF Fresh, IInv, Shape, Phases
      <3>4. Sent(e)' = sendSeq[e]
        BY <3>1, <3>3 DEF Sent, Idle
      <3>5. FirstSeq(e) \in Nat
        BY <2>1, Consts
      <3>6. ~Fresh(e)'
        BY <3>1 DEF Fresh
      <3>7. Steady(e)
        BY <3>2, <3>3, <3>4, <3>5, <3>6 DEF Steady
      <3>. QED
        BY <3>7
    <2>4. Steady(e)
      BY <1>4, <2>2, <2>3
    <2>5. \A d \in End : Steady(d)
      BY <2>1, <2>4, SteadyStays DEF IInv
    <2>. QED
      BY <1>1, <1>2, <2>5, DullLimits
  <1>. QED
    BY <1>3, <1>4

(* The send worker. *)
LEMMA ReadsLimits ==
  ASSUME IInv, IInv', Limits, NEW e \in End, SendReads(e) \/ SendStops(e)
  PROVE  Limits'
  <1>1. /\ worker[e].pc \in {"idle", "loop"}
        /\ UNCHANGED <<state, done, sendSeq, received, net>>
        /\ \A d \in End : d # e => worker'[d] = worker[d]
        /\ worker'[e].pc \in {"read", "idle"}
    BY DEF SendReads, SendStops, Sending, callVars, windowVars, streamVars, IInv, Shape, WorkerShape, Idle
  <1>2. Steady(e)
    <2>1. Sent(e) = sendSeq[e] /\ Sent(e)' = sendSeq[e] /\ sendSeq[e] <= sendSeq[e]
      BY <1>1, Numbers DEF Sent, IInv
    <2>. QED
      BY <1>1, <2>1 DEF Steady, Fresh, Works
  <1>3. \A d \in End : Steady(d)
    BY <1>1, <1>2, SteadyStays DEF IInv
  <1>. QED
    BY <1>1, <1>3, DullLimits

LEMMA WritesLimits ==
  ASSUME IInv, IInv', mishaps = {}, Limits, NEW e \in End, SendWrites(e)
  PROVE  Limits'
  <1>. DEFINE x == Packet(e, "data", worker[e].seq, 0, worker[e].data)
  <1>1. state[e] = "connected" /\ ~done[e] /\ worker[e].pc = "read"
    BY Connected DEF SendWrites, IInv
  <1>2. /\ UNCHANGED <<state, done, sendSeq, received>>
        /\ \A d \in End : d # e => worker'[d] = worker[d]
        /\ worker'[e].pc = "written" /\ worker'[e].data = worker[e].data
        /\ net' \in UnderWay(net, {x})
    BY DEF SendWrites, Transmit, callVars, windowVars, streamVars, IInv, Shape, WorkerShape,
       WorkerRecords
  <1>3. worker[e].seq = sendSeq[e]
    BY <1>1 DEF IInv, Aligned, Sender, SenderAt
  <1>4. Sent(e) = sendSeq[e] /\ Sent(e)' = sendSeq[e] + Held(e) /\ sendSeq[e] <= sendSeq[e] + Held(e)
    BY <1>1, <1>2, Numbers DEF Sent, Held, IInv
  <1>5. Steady(e)
    BY <1>2, <1>4 DEF Steady, Fresh, Works
  <1>6. \A d \in End : Steady(d) /\ Stores(d)
    BY <1>2, <1>5, SteadyStays DEF IInv, Stores
  <1>7. ASSUME NEW r, r = x, NEW d \in End
        PROVE  Fair(d, r)'
    <2>1. r.type = "data" /\ r.to = Peer(e) /\ r.seq = sendSeq[e] /\ r.data = worker[e].data
      BY <1>3, <1>7 DEF Packet
    <2>2. r.to = Peer(d) => d = e
      BY <2>1 DEF Peer, End
    <2>3. r.seq + Len(r.data) <= Sent(e)'
      <3>1. sendSeq[e] + Held(e) \in Nat
        BY Numbers DEF IInv
      <3>. QED
        BY <1>4, <2>1, <3>1 DEF Held
    <2>4. ~Fresh(e)'
      BY <1>1, <1>2 DEF Fresh
    <2>. QED
      BY <2>2, <2>3, <2>4 DEF Fair
  <1>8. \A r \in net' : r \in net \/ r = x
    BY <1>2, Arrives
  <1>. HIDE DEF x
  <1>9. \A r \in net' : r \in net \/ \A d \in End : Fair(d, r)'
    BY <1>7, <1>8
  <1>. QED
    BY <1>6, <1>9, LimitsKept

LEMMA SendAdvancesLimits ==
  ASSUME IInv, IInv', mishaps = {}, Limits, NEW e \in End, SendAdvances(e)
  PROVE  Limits'
  <1>. DEFINE n == sendSeq[e] + Held(e)
  <1>1. state[e] = "connected" /\ ~done[e] /\ worker[e].pc = "written"
    BY Connected DEF SendAdvances, IInv
  <1>2. worker[e].seq = sendSeq[e]
    BY <1>1 DEF IInv, Aligned, Sender, SenderAt
  <1>3. n \in Nat /\ n % SeqSpace = n
    <2>1. n \in Nat /\ n <= Top(e)
      BY Numbers DEF IInv
    <2>. QED
      BY <2>1, Consts, ModSmall
  <1>4. /\ sendSeq' = [sendSeq EXCEPT ![e] = n]
        /\ UNCHANGED <<state, done, received, net>>
    <2>1. sendSeq' = [sendSeq EXCEPT ![e] = n % SeqSpace]
      BY <1>2 DEF SendAdvances, Held
    <2>. QED
      BY <1>3, <2>1, Zenon DEF SendAdvances, callVars, streamVars
  <1>5. /\ \A d \in End : d # e => worker'[d] = worker[d] /\ sendSeq'[d] = sendSeq[d]
        /\ worker'[e].pc = "loop" /\ sendSeq'[e] = n
    BY <1>4 DEF SendAdvances, IInv, Shape, WorkerShape, SeqShape, Idle
  <1>6. Sent(e) = n /\ Sent(e)' = n /\ n <= n
    BY <1>1, <1>3, <1>5 DEF Sent
  <1>7. Steady(e)
    BY <1>4, <1>6 DEF Steady, Fresh, Works
  <1>8. \A d \in End : Steady(d)
    BY <1>4, <1>5, <1>7, SteadyStays DEF IInv
  <1>. QED
    BY <1>4, <1>8, DullLimits

(* A data packet made of an entry ends below the next number, and only an  *)
(* end that is connected has one.                                          *)
LEMMA EntryIsFair ==
  ASSUME IInv, Holds, NEW e \in End, NEW q, Table(e, q), Below(q, sendSeq[e]),
         Fresh(e) => OnlySyn(q), NEW s \in DOMAIN q, NEW r, r = Resent(e, s, q[s]),
         Steady(e), state' = state, done' = done, sendSeq[e] <= Sent(e)', Sent(e)' \in Nat,
         NEW d \in End
  PROVE  Fair(d, r)'
  <1>1. r.type = q[s].type /\ r.to = Peer(e) /\ r.seq = s /\ r.data = q[s].data
    BY DEF Resent, Packet
  <1>2. r.to = Peer(d) => d = e
    BY <1>1 DEF Peer, End
  <1>3. s + Len(q[s].data) <= sendSeq[e] /\ s + Len(q[s].data) \in Nat /\ sendSeq[e] \in Nat
    BY TableSizes, SentNat DEF Below, Size, IInv
  <1>4. r.type = "data" => ~Fresh(e)'
    BY <1>1 DEF Fresh, OnlySyn
  <1>. QED
    BY <1>1, <1>2, <1>3, <1>4 DEF Fair

LEMMA RetransmitLimits ==
  ASSUME IInv, IInv', Holds, Limits, NEW e \in End, NEW s, Retransmit(e, s)
  PROVE  Limits'
  <1>. DEFINE entry == Unacked(e)[s]
  <1>1. CASE entry.attempts >= MaxRetransmissions
    BY <1>1, ClosedLimits DEF Retransmit, Unacked
  <1>2. CASE ~(entry.attempts >= MaxRetransmissions)
    <2>1. /\ s \in DOMAIN expired[e] /\ net' \in UnderWay(net, {Resent(e, s, entry)})
          /\ UNCHANGED <<state, done, sendSeq, worker, received>>
      BY <1>2 DEF Retransmit, Transmit, Unacked, callVars, streamVars
    <2>2. Table(e, retransQueue[e]) /\ Table(e, expired[e]) /\ Table(e, Unacked(e))
      BY Queues DEF IInv
    <2>3. s \in DOMAIN Unacked(e)
      BY <2>1 DEF Unacked, Over
    <2>4. Fresh(e) => OnlySyn(Unacked(e))
      BY <2>2, OverKeeps DEF Holds, HoldsAt, Unacked
    <2>5. \A d \in End : Steady(d) /\ Stores(d)
      BY <2>1, SteadyStays DEF IInv, Stores
    <2>6. Sent(e)' = Sent(e) /\ Sent(e) \in Nat /\ sendSeq[e] <= Sent(e)
      BY <2>1, SentNat DEF Sent, Held, IInv
    <2>7. \A r \in net' : r \in net \/ r = Resent(e, s, entry)
      BY <2>1, Arrives
    <2>8. Below(Unacked(e), sendSeq[e])
      BY DEF Holds, HoldsAt
    <2>9. \A r \in net' : r \in net \/ \A d \in End : Fair(d, r)'
      BY <2>1, <2>2, <2>3, <2>4, <2>5, <2>6, <2>7, <2>8, EntryIsFair
    <2>. QED
      BY <2>5, <2>9, LimitsKept
  <1>. QED
    BY <1>1, <1>2

LEMMA HandleDataLimits ==
  ASSUME IInv, IInv', mishaps = {}, Limits, NEW e \in End, NEW p \in net, HandleData(e, p)
  PROVE  Limits'
  <1>1. /\ UNCHANGED <<state, done, sendSeq, worker>> /\ p.type = "data" /\ p.to = e
        /\ mishaps' = {}
    BY DEF HandleData, Deliver, callVars, windowVars, workerVars
  <1>2. \A d \in End : Steady(d)
    BY <1>1, SteadyStays DEF IInv
  <1>3. \A r \in net' : r \in net \/ r.type # "data"
    <2>1. \E packets \in {{}, {RepeatedAck(e, p)}, {Ack(e, sendSeq[e], receiveSeq[e] + Len(p.data))}} :
             net' \in UnderWay(net \ {p}, packets)
      BY DEF HandleData, Answer
    <2>2. RepeatedAck(e, p).type # "data" /\ Ack(e, sendSeq[e], receiveSeq[e] + Len(p.data)).type # "data"
      BY DEF RepeatedAck, Ack, Packet
    <2>. QED
      BY <2>1, <2>2, Arrives
  <1>4. \A d \in End : Stores(d)
    <2>1. CASE received' = received
      BY <2>1 DEF Stores
    <2>2. CASE received' # received
      <3>1. /\ p.seq = receiveSeq[e] /\ received' = [received EXCEPT ![e] = @ \o p.data]
            /\ receiveSeq' = [receiveSeq EXCEPT ![e] = p.seq + Len(p.data)]
        BY <2>2 DEF HandleData, streamVars, InSequence
      <3>2. /\ \A d \in End : d # e => received'[d] = received[d]
            /\ received'[e] = received[e] \o p.data
            /\ receiveSeq'[e] = p.seq + Len(p.data)
        BY <3>1 DEF IInv, Shape, StreamShape
      <3>3. \/ receiveSeq'[e] = 0 /\ received'[e] = <<>>
            \/ receiveSeq'[e] = Reached(e)'
        BY <1>1 DEF IInv, Aligned, Receiver
      <3>4. CASE receiveSeq'[e] = Reached(e)'
        BY <1>1, <3>2, <3>4 DEF Stores
      <3>5. CASE received'[e] = <<>>
        <4>1. received[e] = <<>>
          <5>1. received[e] \in Seq(Stream(Peer(e))) /\ p.data \in Seq(Stream(Peer(e)))
            BY <1>1, Streams DEF IInv, Shape, NetShape, Fits
          <5>2. Len(received'[e]) = Len(received[e]) + Len(p.data)
            BY <3>2, <5>1, ConcatProperties
          <5>3. Len(received[e]) = 0
            <6>. DEFINE had == Len(received[e])
                        adds == Len(p.data)
            <6>1. had \in Nat /\ adds \in Nat
              BY <5>1, LenProperties
            <6>2. had + adds = 0
              BY <3>5, <5>2
            <6>. HIDE DEF had, adds
            <6>3. had = 0
              BY <6>1, <6>2
            <6>. QED
              BY <6>3 DEF had
          <5>. QED
            BY <5>1, <5>3
        <4>. QED
          BY <3>2, <3>5, <4>1 DEF Stores
      <3>. QED
        BY <3>3, <3>4, <3>5
    <2>. QED
      BY <2>1, <2>2
  <1>5. \A r \in net' : r \in net \/ \A d \in End : Fair(d, r)'
    BY <1>3, NoDataIsFair
  <1>. QED
    BY <1>2, <1>4, <1>5, LimitsKept

(* The part of an acknowledgement that sends: n bytes are added to what is *)
(* sent, and only while the worker holds none.                             *)
LEMMA AckSteady ==
  ASSUME IInv, mishaps' = {}, NEW e \in End, NEW p \in net, HandleAck(e, p), NEW n \in Nat,
         sendSeq' = [sendSeq EXCEPT ![e] = @ + n]
  PROVE  /\ UNCHANGED <<state, done, worker, received>>
         /\ \A d \in End : Steady(d)
         /\ Sent(e)' \in Nat /\ sendSeq[e] <= Sent(e)'
         /\ n > 0 => Sent(e)' = sendSeq[e] + n /\ worker[e].pc \notin {"read", "written"}
  <1>1. UNCHANGED <<state, done, worker, received>>
    BY DEF HandleAck, callVars
  <1>2. /\ \A d \in End : d # e => sendSeq'[d] = sendSeq[d]
        /\ sendSeq'[e] = sendSeq[e] + n /\ sendSeq[e] \in Nat /\ Held(e) \in Nat
    BY Numbers DEF IInv, Shape, SeqShape
  <1>3. n > 0 => worker[e].pc \notin {"read", "written"}
    <2>. SUFFICES ASSUME n > 0 PROVE worker[e].pc \notin {"read", "written"}
      OBVIOUS
    <2>1. sendSeq'[e] # sendSeq[e]
      BY <1>2
    <2>. QED
      BY <2>1 DEF HandleAck
  <1>4. Sent(e)' = IF worker[e].pc = "written" THEN sendSeq[e] + n + Held(e) ELSE sendSeq[e] + n
    BY <1>1, <1>2 DEF Sent, Held
  <1>5. Sent(e)' \in Nat /\ sendSeq[e] <= Sent(e)' /\ Sent(e) <= Sent(e)'
    BY <1>2, <1>4 DEF Sent
  <1>6. Steady(e)
    BY <1>1, <1>5 DEF Steady, Works, Fresh
  <1>7. \A d \in End : Steady(d)
    BY <1>1, <1>2, <1>6, SteadyStays DEF IInv
  <1>. QED
    BY <1>1, <1>3, <1>4, <1>5, <1>7

LEMMA AdvancesLimits ==
  ASSUME IInv, IInv', mishaps' = {}, Holds, Limits, NEW e \in End, NEW p \in net,
         HandleAck(e, p), Advances(e, p, Trimmed(e, p.ack))
  PROVE  Limits'
  <1>. DEFINE n == ToFill(e, p.ack)
  <1>1. n \in Nat /\ n <= Waiting(e) /\ (n > 0 => state[e] = "connected")
    <2>1. /\ Allowance(e, p.ack, Grown(e)) \in Nat /\ Allowance(e, p.ack, Grown(e)) <= Waiting(e)
          /\ Waiting(e) \in Nat
      BY AckNumber, AllowanceFits, GrownFits, Numbers DEF IInv
    <2>. QED
      BY <2>1 DEF ToFill
  <1>2. sendSeq' = [sendSeq EXCEPT ![e] = @ + n] /\ net' \in UnderWay(net \ {p}, Data(e, n))
    BY DEF Advances, Answer
  <1>. HIDE DEF n
  <1>3. /\ UNCHANGED <<state, done, worker, received>>
        /\ \A d \in End : Steady(d)
        /\ n > 0 => Sent(e)' = sendSeq[e] + n
    BY <1>1, <1>2, AckSteady
  <1>4. Below(Pending(e, n), sendSeq[e] + n) /\ (n = 0 => DOMAIN Pending(e, n) = {})
    BY <1>1, PendingHolds DEF IInv
  <1>5. ASSUME NEW r \in Data(e, n), NEW d \in End
        PROVE  Fair(d, r)'
    <2>1. PICK i \in DOMAIN Chunks(e, n) :
             r = Packet(e, "data", sendSeq[e] + i, 0, Chunks(e, n)[i])
      BY DEF Data
    <2>. DEFINE s == sendSeq[e] + i
    <2>2. r.type = "data" /\ r.to = Peer(e) /\ r.seq = s /\ r.data = Chunks(e, n)[i]
      BY <2>1 DEF Packet
    <2>3. s \in DOMAIN Pending(e, n) /\ Pending(e, n)[s] = Entry("data", Chunks(e, n)[s - sendSeq[e]])
      BY DEF Pending
    <2>4. s - sendSeq[e] = i
      BY <1>1, ChunkAt, SentNat DEF IInv
    <2>. HIDE DEF s
    <2>5. Size(Pending(e, n), s) = Len(r.data)
      BY <2>2, <2>3, <2>4, EntryFields DEF Size
    <2>6. r.seq + Len(r.data) <= sendSeq[e] + n
      BY <1>4, <2>2, <2>3, <2>5 DEF Below
    <2>7. n > 0
      BY <1>1, <1>4, <2>3
    <2>8. ~Fresh(e)' /\ Sent(e)' = sendSeq[e] + n
      BY <1>1, <1>3, <2>7 DEF Fresh
    <2>9. r.to = Peer(d) => d = e
      BY <2>2 DEF Peer, End
    <2>. QED
      BY <2>6, <2>8, <2>9 DEF Fair
  <1>6. \A r \in net' : r \in net \/ r \in Data(e, n)
    BY <1>2, Arrives
  <1>7. \A r \in net' : r \in net \/ \A d \in End : Fair(d, r)'
    BY <1>5, <1>6
  <1>8. \A d \in End : Stores(d)
    BY <1>3 DEF Stores
  <1>. QED
    BY <1>3, <1>7, <1>8, LimitsKept

LEMMA RepeatsLimits ==
  ASSUME IInv, IInv', mishaps' = {}, Holds, Limits, NEW e \in End, NEW p \in net,
         HandleAck(e, p), Repeats(e, p, Trimmed(e, p.ack))
  PROVE  Limits'
  <1>. DEFINE trimmed == Trimmed(e, p.ack)
              last == dupAckCount[e] + 1 >= DupAcks
              s == CHOOSE t \in DOMAIN trimmed : \A u \in DOMAIN trimmed : t <= u
              fast == last /\ trimmed # NoEntries /\ s >= p.ack
  <1>1. /\ fast => net' \in UnderWay(net \ {p}, {Resent(e, s, trimmed[s])})
        /\ ~fast => net' \in UnderWay(net \ {p}, {})
        /\ UNCHANGED sendSeq
    BY DEF Repeats, Answer
  <1>2. /\ p.ack \in Nat /\ Table(e, trimmed) /\ Below(Left(e, p.ack), sendSeq[e])
        /\ Fresh(e) => OnlySyn(trimmed)
    BY AckNumber, TrimmedHolds DEF Holds
  <1>3. Below(trimmed, sendSeq[e])
    BY <1>2 DEF Left, Below, Over, Size
  <1>. HIDE DEF trimmed
  <1>4. fast => s \in DOMAIN trimmed
    <2>1. trimmed # NoEntries => DOMAIN trimmed # {}
      BY <1>2 DEF Table, NoEntries
    <2>2. DOMAIN trimmed \subseteq Nat
      BY <1>2 DEF Table, Entries
    <2>. QED
      BY <2>1, <2>2, Least
  <1>. HIDE DEF s, fast, last
  <1>5. sendSeq' = [sendSeq EXCEPT ![e] = @ + 0]
    <2>1. sendSeq[e] + 0 = sendSeq[e]
      BY SentNat DEF IInv
    <2>. QED
      BY <1>1, <2>1 DEF IInv, Shape, SeqShape
  <1>6. /\ UNCHANGED <<state, done, worker, received>>
        /\ \A d \in End : Steady(d)
        /\ Sent(e)' \in Nat /\ sendSeq[e] <= Sent(e)'
    BY <1>5, AckSteady
  <1>7. \A r \in net' : r \in net \/ \A d \in End : Fair(d, r)'
    <2>1. CASE fast
      <3>1. \A r \in net' : r \in net \/ r = Resent(e, s, trimmed[s])
        BY <1>1, <2>1, Arrives
      <3>. QED
        BY <1>2, <1>3, <1>4, <1>6, <2>1, <3>1, EntryIsFair
    <2>2. CASE ~fast
      BY <1>1, <2>2, Arrives
    <2>. QED
      BY <2>1, <2>2
  <1>8. \A d \in End : Stores(d)
    BY <1>6 DEF Stores
  <1>. QED
    BY <1>6, <1>7, <1>8, LimitsKept

LEMMA HandleAckLimits ==
  ASSUME IInv, IInv', mishaps' = {}, Holds, Limits, NEW e \in End, NEW p \in net, HandleAck(e, p)
  PROVE  Limits'
  <1>1. CASE Advances(e, p, Trimmed(e, p.ack))
    BY <1>1, AdvancesLimits
  <1>2. CASE Repeats(e, p, Trimmed(e, p.ack))
    BY <1>2, RepeatsLimits
  <1>3. CASE Answer(p, {}) /\ UNCHANGED sendSeq
    <2>1. \A r \in net' : r \in net
      BY <1>3, Arrives DEF Answer
    <2>. QED
      BY <1>3, <2>1, QuietLimits DEF HandleAck, callVars
  <1>. QED
    BY <1>1, <1>2, <1>3 DEF HandleAck, Trimmed

LEMMA HandleSynLimits ==
  ASSUME IInv, IInv', Limits, NEW e \in End, NEW p \in net, HandleSyn(e, p)
  PROVE  Limits'
  <1>1. /\ UNCHANGED <<state, done, worker, received>>
        /\ \A d \in End : d # e => sendSeq'[d] = sendSeq[d]
        /\ state[e] # "listening" => sendSeq' = sendSeq
    BY DEF HandleSyn, callVars, workerVars, IInv, Shape, SeqShape
  <1>2. Steady(e)
    <2>1. CASE state[e] = "listening"
      BY <1>1, <2>1 DEF Steady, Works, Fresh
    <2>2. CASE state[e] # "listening"
      BY <1>1, <2>2, SteadyStays DEF IInv
    <2>. QED
      BY <2>1, <2>2
  <1>3. \A d \in End : Steady(d)
    BY <1>1, <1>2, SteadyStays DEF IInv
  <1>4. \A r \in net' : r \in net \/ r.type # "data"
    <2>1. \E packets \in {{}, {Ack(e, ISN[e], p.seq + 1)}} : net' \in UnderWay(net \ {p}, packets)
      BY DEF HandleSyn, Answer
    <2>2. Ack(e, ISN[e], p.seq + 1).type # "data"
      BY DEF Ack, Packet
    <2>. QED
      BY <2>1, <2>2, Arrives
  <1>. QED
    BY <1>1, <1>3, <1>4, DullLimits

LEMMA HandleFinLimits ==
  ASSUME IInv, IInv', Limits, NEW e \in End, NEW p \in net, HandleFin(e, p)
  PROVE  Limits'
  <1>1. Ack(e, sendSeq[e], p.seq).type # "data"
    BY DEF Ack, Packet
  <1>2. CASE CanClose(e)
    <2>. DEFINE packets == {Ack(e, sendSeq[e], p.seq)}
    <2>1. Closed(e, packets) /\ \A r \in packets : r.type # "data"
      BY <1>1, <1>2 DEF HandleFin
    <2>. HIDE DEF packets
    <2>. QED
      BY <2>1, ClosedLimits
  <1>3. CASE ~CanClose(e)
    <2>1. /\ net' \in UnderWay(net \ {p}, {Ack(e, sendSeq[e], p.seq)})
          /\ UNCHANGED <<state, done, sendSeq, worker, received>>
      BY <1>3 DEF HandleFin, Answer, windowVars, workerVars, streamVars, callVars
    <2>2. \A r \in net' : r \in net \/ r.type # "data"
      BY <1>1, <2>1, Arrives
    <2>. QED
      BY <2>1, <2>2, QuietLimits
  <1>. QED
    BY <1>2, <1>3

LEMMA InitLimits == Init => Limits
  <1>. SUFFICES ASSUME Init, NEW e \in End PROVE LimitsAt(e)
    BY DEF Limits
  <1>. QED
    BY Ends DEF Init, LimitsAt, Works

LEMMA NextLimits ==
  ASSUME IInv, IInv', mishaps = {}, mishaps' = {}, Holds, Limits, Next
  PROVE  Limits'
  <1>1. CASE Connect \/ ConnectReturns \/ Listen \/ ListenReturns
    BY <1>1, CallsLimits
  <1>2. ASSUME NEW e \in End, CallFails(e) \/ Close(e)
        PROVE  Limits'
    <2>1. CASE Closed(e, {})
      BY <2>1, ClosedLimits
    <2>2. CASE UNCHANGED <<state, done, sendSeq, worker, received, net>>
      BY <2>2, QuietLimits
    <2>. QED
      BY <1>2, <2>1, <2>2 DEF CallFails, Close, windowVars, workerVars, streamVars
  <1>3. ASSUME NEW e \in End, Send(e) \/ Receive(e) \/ AckTimer(e) \/ KeepAlive(e) \/ GetExpired(e)
        PROVE  Limits'
    <2>1. UNCHANGED <<state, done, sendSeq, worker, received>>
      BY <1>3 DEF Send, Receive, AckTimer, KeepAlive, GetExpired, windowVars, workerVars, callVars,
         streamVars
    <2>2. \A r \in net' : r \in net \/ r.type # "data"
      <3>1. \E packets \in {{}, {Ack(e, sendSeq[e], pendingAck[e])},
                            {Packet(e, "keepalive", sendSeq[e], 0, <<>>)}} :
               net' = net \/ net' \in UnderWay(net, packets)
        BY <1>3 DEF Send, Receive, AckTimer, KeepAlive, GetExpired, Transmit
      <3>2. /\ Ack(e, sendSeq[e], pendingAck[e]).type # "data"
            /\ Packet(e, "keepalive", sendSeq[e], 0, <<>>).type # "data"
        BY DEF Ack, Packet
      <3>. QED
        BY <3>1, <3>2, Arrives
    <2>. QED
      BY <2>1, <2>2, QuietLimits
  <1>4. ASSUME NEW e \in End, SendWorker(e)
        PROVE  Limits'
    BY <1>4, ReadsLimits, WritesLimits, SendAdvancesLimits DEF SendWorker
  <1>5. ASSUME NEW e \in End, RetransmissionWorker(e)
        PROVE  Limits'
    BY <1>3, <1>5, RetransmitLimits DEF RetransmissionWorker
  <1>6. ASSUME NEW e \in End, NEW p \in net, HandleKeepAlive(e, p)
        PROVE  Limits'
    <2>1. /\ UNCHANGED <<state, done, sendSeq, worker, received>>
          /\ net' \in UnderWay(net \ {p}, {RepeatedAck(e, p)})
      BY <1>6 DEF HandleKeepAlive, Answer, windowVars, workerVars, callVars, streamVars
    <2>2. RepeatedAck(e, p).type # "data"
      BY DEF RepeatedAck, Ack, Packet
    <2>3. \A r \in net' : r \in net \/ r.type # "data"
      BY <2>1, <2>2, Arrives
    <2>. QED
      BY <2>1, <2>3, QuietLimits
  <1>7. ASSUME NEW e \in End, ReceiveWorker(e)
        PROVE  Limits'
    BY <1>6, <1>7, HandleDataLimits, HandleAckLimits, HandleSynLimits, HandleFinLimits
       DEF ReceiveWorker
  <1>8. ASSUME NEW p \in net, Lose(p)
        PROVE  Limits'
    BY <1>8, QuietLimits DEF Lose, windowVars, workerVars, callVars, streamVars
  <1>. QED
    BY <1>1, <1>2, <1>3, <1>4, <1>5, <1>7, <1>8 DEF Next

------------------------------------------------------------------------------
(* What waits is going to be sent: nobody has been told so only where      *)
(* bytes are under way whose acknowledgement will.  An end that has none   *)
(* under way may send 2 * MTU of them: the window of a server that has     *)
(* heard no acknowledgement yet counts its first number as so many bytes.  *)
LowStart == ISN["server"] < 2 * MTU
Busy(e) == sendBuffer[e] = <<>> \/ worker[e].pc # "idle" \/ sendReady[e]
AwakeAt(e) ==
    /\ ackChan[e] # 0 => sendAck[e] # 0
    /\ Works(e) => /\ e = "client" => sendAck[e] # 0
                   /\ Busy(e) \/ Settled(e) < sendSeq[e]
Awake == \A e \in End : AwakeAt(e)

(* A step that leaves what an end waits for. *)
Leaves(d) ==
    /\ ackChan'[d] = ackChan[d] /\ sendAck'[d] = sendAck[d]
    /\ Works(d)' => /\ Works(d)
                    /\ Busy(d)' \/ (sendSeq'[d] = sendSeq[d] /\ (Busy(d) => Busy(d)'))
LEMMA LeavesAwake ==
  ASSUME NEW d \in End, AwakeAt(d), Leaves(d)
  PROVE  AwakeAt(d)'
  BY DEF AwakeAt, Leaves, Settled

LEMMA StaysAwake ==
  ASSUME Awake, \A d \in End : Leaves(d) \/ AwakeAt(d)'
  PROVE  Awake'
  BY LeavesAwake DEF Awake

LEMMA UnchangedLeaves ==
  ASSUME NEW d \in End, ackChan'[d] = ackChan[d], sendAck'[d] = sendAck[d],
         state'[d] = state[d], done'[d] = done[d], sendSeq'[d] = sendSeq[d],
         worker'[d] = worker[d], sendBuffer'[d] = sendBuffer[d], sendReady'[d] = sendReady[d]
  PROVE  Leaves(d)
  BY DEF Leaves, Works, Busy

LEMMA QuietAwake ==
  ASSUME Awake,
         UNCHANGED <<ackChan, sendAck, state, done, sendSeq, worker, sendBuffer, sendReady>>
  PROVE  Awake'
  BY UnchangedLeaves, StaysAwake

LEMMA ClosedAwake ==
  ASSUME IInv, Awake, NEW e \in End, NEW packets, Closed(e, packets)
  PROVE  Awake'
  <1>1. /\ UNCHANGED <<ackChan, sendAck, sendSeq, sendBuffer, sendReady>>
        /\ \A d \in End : d # e => /\ state'[d] = state[d] /\ done'[d] = done[d]
                                   /\ worker'[d] = worker[d]
        /\ done'[e] = TRUE
    BY DEF Closed, windowVars, signalVars, IInv, Shape, FlagShape, WorkerShape
  <1>2. Leaves(e)
    BY <1>1 DEF Leaves, Works
  <1>3. \A d \in End : d # e => Leaves(d)
    BY <1>1, UnchangedLeaves
  <1>. QED
    BY <1>2, <1>3, StaysAwake

LEMMA EmptyYet ==
  ASSUME Shape, NEW e \in End, accepted[e] = 0
  PROVE  sendBuffer[e] = <<>>
  <1>1. sendBuffer[e] \in Seq(Stream(e)) /\ Len(sendBuffer[e]) = 0
    BY NothingYet, Streams DEF Waiting
  <1>. QED
    BY <1>1

LEMMA CallsAwake ==
  ASSUME IInv, Awake, Connect \/ ConnectReturns \/ Listen \/ ListenReturns
  PROVE  Awake'
  <1>1. UNCHANGED <<ackChan, sendAck, done, worker, sendBuffer, sendReady>>
    BY DEF Connect, ConnectReturns, Listen, ListenReturns, windowVars, signalVars, workerVars
  <1>2. CASE Connect \/ Listen
    <2>1. \E e \in End : /\ \A d \in End : d # e => state'[d] = state[d] /\ sendSeq'[d] = sendSeq[d]
                         /\ state'[e] \in {"connecting", "listening"}
      BY <1>2, Ends DEF Connect, Listen, windowVars, IInv, Shape, FlagShape, SeqShape
    <2>. QED
      BY <1>1, <2>1, UnchangedLeaves, StaysAwake DEF Leaves, Works
  <1>3. CASE ConnectReturns
    <2>. DEFINE e == "client"
    <2>1. /\ e \in End /\ calling[e] /\ ackChan[e] = sendSeq[e] + 1 /\ sendSeq[e] \in Nat
          /\ \A d \in End : d # e => state'[d] = state[d] /\ sendSeq'[d] = sendSeq[d]
      BY <1>3, Ends DEF ConnectReturns, IInv, Shape, FlagShape, SeqShape
    <2>2. sendAck[e] # 0 /\ sendBuffer[e] = <<>>
      <3>1. accepted[e] = 0
        BY <2>1 DEF IInv, Shape, Calls
      <3>2. ackChan[e] # 0
        BY <2>1
      <3>. QED
        BY <2>1, <3>1, <3>2, EmptyYet DEF Awake, AwakeAt, IInv
    <2>3. AwakeAt(e)'
      BY <1>1, <2>2 DEF AwakeAt, Busy
    <2>. QED
      BY <1>1, <2>1, <2>3, UnchangedLeaves, StaysAwake
  <1>4. CASE ListenReturns
    <2>. DEFINE e == "server"
    <2>1. /\ e \in End /\ calling[e] /\ e # "client" /\ UNCHANGED sendSeq
          /\ \A d \in End : d # e => state'[d] = state[d]
      BY <1>4, Ends DEF ListenReturns, windowVars, IInv, Shape, FlagShape
    <2>2. sendBuffer[e] = <<>>
      <3>1. accepted[e] = 0
        BY <2>1 DEF IInv, Shape, Calls, Phases
      <3>. QED
        BY <2>1, <3>1, EmptyYet DEF IInv
    <2>3. AwakeAt(e)'
      <3>1. ackChan'[e] # 0 => sendAck'[e] # 0
        BY <1>1, <2>1 DEF Awake, AwakeAt
      <3>. QED
        BY <1>1, <2>1, <2>2, <3>1 DEF AwakeAt, Busy
    <2>. QED
      BY <1>1, <2>1, <2>3, UnchangedLeaves, StaysAwake
  <1>. QED
    BY <1>2, <1>3, <1>4

(* Where the window leaves something waiting, it is because bytes are      *)
(* under way.                                                              *)
LEMMA InFlight ==
  ASSUME IInv, Limits, LowStart, NEW e \in End, Works(e), worker[e].pc # "written",
         NEW ack \in Nat, Owed(e, ack), ack = 0 => e = "server", NEW wnd \in Nat, 2 * MTU <= wnd
  PROVE  \/ Allowance(e, ack, wnd) = Waiting(e)
         \/ (IF ack = 0 THEN FirstSeq(e) ELSE ack) < sendSeq[e] + Allowance(e, ack, wnd)
  <1>. DEFINE inFlight == (sendSeq[e] - ack) % SeqSpace
              window == Smaller(Window, wnd)
              twice == 2 * MTU
              n == Allowance(e, ack, wnd)
  <1>1. /\ sendSeq[e] \in Nat /\ sendSeq[e] < SeqSpace /\ Waiting(e) \in Nat
        /\ Reached(Peer(e)) <= sendSeq[e]
    <2>1. sendSeq[e] \in Nat /\ sendSeq[e] <= Top(e) /\ Waiting(e) \in Nat /\ Top(e) \in Nat
          /\ Top(e) < SeqSpace /\ SeqSpace \in Nat
      BY Numbers, Consts DEF IInv
    <2>2. Reached(Peer(e)) <= sendSeq[e]
      BY DEF Limits, LimitsAt, Sent
    <2>. QED
      BY <2>1, <2>2
  <1>2. Reached(Peer(e)) \in Nat /\ FirstSeq(e) \in Nat /\ FirstSeq(e) <= Reached(Peer(e))
    <2>1. Reached(Peer(e)) = FirstSeq(e) + Len(received[Peer(e)])
      BY Ends DEF Reached
    <2>2. Len(received[Peer(e)]) \in Nat /\ FirstSeq(e) \in Nat
      BY Streams, Consts, Ends DEF IInv
    <2>. QED
      BY <2>1, <2>2
  <1>3. ack <= sendSeq[e]
    BY <1>1, <1>2 DEF Owed
  <1>4. inFlight = sendSeq[e] - ack
    <2>1. sendSeq[e] - ack \in Nat /\ sendSeq[e] - ack < SeqSpace
      BY <1>1, <1>3, Consts
    <2>. HIDE DEF Smaller
    <2>. QED
      BY <2>1, ModSmall
  <1>5. window \in Nat /\ twice <= window /\ twice \in Nat /\ twice > 0
    BY Consts DEF Smaller
  <1>6. ack = 0 => FirstSeq(e) < twice
    BY DEF LowStart, FirstSeq
  <1>7. n = IF inFlight >= window THEN 0 ELSE Smaller(window - inFlight, Waiting(e))
    BY DEF Allowance, Waiting
  <1>. HIDE DEF inFlight, window, twice, n
  <1>8. n = Waiting(e) \/ ack + window <= sendSeq[e] + n
    BY <1>1, <1>3, <1>4, <1>5, <1>7 DEF Smaller
  <1>9. n \in Nat
    BY <1>1, <1>3, <1>4, <1>5, <1>7 DEF Smaller
  <1>10. ASSUME ack + window <= sendSeq[e] + n
         PROVE  (IF ack = 0 THEN FirstSeq(e) ELSE ack) < sendSeq[e] + n
    BY <1>1, <1>2, <1>5, <1>6, <1>9, <1>10
  <1>. QED
    BY <1>8, <1>10 DEF n

(* The send worker and Send. *)
LEMMA SendAwake ==
  ASSUME IInv, Awake, NEW e \in End, Send(e) \/ SendReads(e) \/ SendWrites(e)
  PROVE  Awake'
  <1>1. /\ UNCHANGED <<ackChan, sendAck, state, done, sendSeq>>
        /\ \A d \in End : d # e => /\ worker'[d] = worker[d] /\ sendBuffer'[d] = sendBuffer[d]
                                   /\ sendReady'[d] = sendReady[d]
    BY DEF Send, SendReads, SendWrites, windowVars, signalVars, callVars, workerVars,
       IInv, Shape, WorkerShape, SendShape, FlagShape
  <1>2. Busy(e)'
    <2>1. CASE Send(e)
      BY <2>1 DEF Busy, Send, IInv, Shape, FlagShape
    <2>2. CASE SendReads(e)
      <3>1. worker'[e].pc = "read"
        BY <2>2 DEF SendReads, IInv, Shape, WorkerShape
      <3>. QED
        BY <3>1 DEF Busy
    <2>3. CASE SendWrites(e)
      <3>1. worker'[e].pc = "written"
        BY <2>3 DEF SendWrites, IInv, Shape, WorkerShape, WorkerRecords
      <3>. QED
        BY <3>1 DEF Busy
    <2>. QED
      BY <2>1, <2>2, <2>3
  <1>3. Leaves(e)
    BY <1>1, <1>2 DEF Leaves, Works
  <1>4. \A d \in End : d # e => Leaves(d)
    BY <1>1, UnchangedLeaves
  <1>. QED
    BY <1>3, <1>4, StaysAwake

LEMMA SendAdvancesAwake ==
  ASSUME IInv, Awake, NEW e \in End, SendAdvances(e)
  PROVE  Awake'
  <1>1. /\ UNCHANGED <<ackChan, sendAck, state, done, sendBuffer, sendReady>>
        /\ \A d \in End : d # e => worker'[d] = worker[d] /\ sendSeq'[d] = sendSeq[d]
        /\ worker'[e].pc = "loop"
    BY DEF SendAdvances, signalVars, callVars, IInv, Shape, WorkerShape, SeqShape, Idle
  <1>2. Works(e)' => Works(e)
    BY <1>1 DEF Works
  <1>3. Leaves(e)
    BY <1>1, <1>2 DEF Leaves, Busy
  <1>4. \A d \in End : d # e => Leaves(d)
    BY <1>1, UnchangedLeaves
  <1>. QED
    BY <1>3, <1>4, StaysAwake

LEMMA SendStopsAwake ==
  ASSUME IInv, mishaps = {}, Limits, Awake, LowStart, NEW e \in End, SendStops(e)
  PROVE  Awake'
  <1>1. /\ UNCHANGED <<ackChan, sendAck, state, done, sendSeq, sendBuffer>>
        /\ \A d \in End : d # e => worker'[d] = worker[d] /\ sendReady'[d] = sendReady[d]
    BY DEF SendStops, windowVars, signalVars, callVars, IInv, Shape, WorkerShape, FlagShape
  <1>2. Works(e) /\ worker[e].pc # "written" /\ Allowance(e, sendAck[e], cwnd[e]) = 0
    BY Connected DEF SendStops, Sending, Works, IInv
  <1>3. /\ sendAck[e] \in Nat /\ Owed(e, sendAck[e]) /\ (sendAck[e] = 0 => e = "server")
        /\ cwnd[e] \in Nat /\ 2 * MTU <= cwnd[e]
    <2>1. sendAck[e] \in Nat /\ Owed(e, sendAck[e])
      BY DEF IInv, Shape, SeqShape, Seqs, Aligned, Honest
    <2>2. sendAck[e] = 0 => e = "server"
      BY <1>2 DEF Awake, AwakeAt, End
    <2>3. cwnd[e] \in Nat /\ 2 * MTU <= cwnd[e]
      BY Consts DEF IInv, Shape, WindowShape
    <2>. QED
      BY <2>1, <2>2, <2>3
  <1>4. Waiting(e) = 0 \/ Settled(e) < sendSeq[e]
    <2>1. \/ Allowance(e, sendAck[e], cwnd[e]) = Waiting(e)
          \/ Settled(e) < sendSeq[e] + Allowance(e, sendAck[e], cwnd[e])
      BY <1>2, <1>3, InFlight DEF Settled
    <2>2. sendSeq[e] + 0 = sendSeq[e]
      BY Numbers DEF IInv
    <2>. QED
      BY <1>2, <2>1, <2>2
  <1>5. sendBuffer[e] = <<>> \/ Settled(e) < sendSeq[e]
    <2>1. sendBuffer[e] \in Seq(Stream(e))
      BY Streams DEF IInv
    <2>. QED
      BY <1>4, <2>1 DEF Waiting
  <1>6. AwakeAt(e)'
    <2>1. AwakeAt(e)
      BY DEF Awake
    <2>. QED
      BY <1>1, <1>2, <1>5, <2>1 DEF AwakeAt, Busy, Settled, Works
  <1>7. \A d \in End : d # e => Leaves(d)
    BY <1>1, UnchangedLeaves
  <1>. QED
    BY <1>6, <1>7, StaysAwake

(* The acknowledgements. *)
LEMMA AdvancesAwake ==
  ASSUME IInv, mishaps = {}, Limits, Awake, LowStart, NEW e \in End, NEW p \in net,
         HandleAck(e, p), p.ack > sendAck[e], Advances(e, p, Trimmed(e, p.ack))
  PROVE  Awake'
  <1>. DEFINE n == ToFill(e, p.ack)
              wnd == Grown(e)
  <1>1. /\ UNCHANGED <<state, done, worker, sendReady>>
        /\ \A d \in End : d # e => /\ ackChan'[d] = ackChan[d] /\ sendAck'[d] = sendAck[d]
                                   /\ sendSeq'[d] = sendSeq[d] /\ sendBuffer'[d] = sendBuffer[d]
        /\ sendAck'[e] = p.ack /\ sendSeq'[e] = sendSeq[e] + n
        /\ sendBuffer'[e] = SubSeq(sendBuffer[e], n + 1, Len(sendBuffer[e]))
    <2>1. UNCHANGED <<state, done, worker, sendReady>>
      BY DEF HandleAck, callVars
    <2>2. /\ sendAck' = [sendAck EXCEPT ![e] = p.ack]
          /\ sendSeq' = [sendSeq EXCEPT ![e] = @ + n]
          /\ sendBuffer' = [sendBuffer EXCEPT ![e] = SubSeq(@, n + 1, Len(@))]
      BY DEF Advances
    <2>3. \A d \in End : d # e => ackChan'[d] = ackChan[d]
      BY DEF HandleAck, IInv, Shape, SeqShape
    <2>. HIDE DEF n
    <2>. QED
      BY <2>1, <2>2, <2>3 DEF IInv, Shape, SeqShape, SendShape
  <1>2. p.ack \in Nat /\ p.ack # 0 /\ Owed(e, p.ack)
    <2>1. p.ack \in Nat /\ sendAck[e] \in Nat
      BY AckNumber DEF IInv, Shape, SeqShape, Seqs
    <2>2. Owed(e, p.ack)
      BY DEF HandleAck, Deliver, IInv, Aligned, Honest, Says
    <2>. QED
      BY <2>1, <2>2
  <1>3. wnd \in Nat /\ 2 * MTU <= wnd
    BY GrownFits, Consts DEF IInv
  <1>4. ASSUME Works(e), worker[e].pc = "idle"
        PROVE  sendBuffer'[e] = <<>> \/ p.ack < sendSeq[e] + n
    <2>1. n = Allowance(e, p.ack, wnd)
      BY <1>4 DEF Works, ToFill
    <2>2. n = Waiting(e) \/ p.ack < sendSeq[e] + n
      <3>. HIDE DEF wnd, n
      <3>. QED
        BY <1>2, <1>3, <1>4, <2>1, InFlight
    <2>3. ASSUME n = Waiting(e)
          PROVE  sendBuffer'[e] = <<>>
      <3>. DEFINE m == Len(sendBuffer[e])
      <3>1. /\ sendBuffer'[e] = SubSeq(sendBuffer[e], m + 1, m)
            /\ sendBuffer[e] \in Seq(Stream(e)) /\ m \in Nat /\ m <= m
        BY <1>1, <2>3, Streams DEF Waiting, IInv
      <3>2. /\ SubSeq(sendBuffer[e], m + 1, m) \in Seq(Stream(e))
            /\ Len(SubSeq(sendBuffer[e], m + 1, m)) = m - m
        BY <3>1, Part
      <3>3. m - m = 0
        BY <3>1
      <3>. QED
        BY <3>1, <3>2, <3>3
    <2>. QED
      BY <2>2, <2>3
  <1>. HIDE DEF n, wnd
  <1>5. AwakeAt(e)'
    <2>1. Works(e)' => Works(e)
      BY <1>1 DEF Works
    <2>2. Works(e) => Busy(e)' \/ p.ack < sendSeq[e] + n
      BY <1>1, <1>4 DEF Busy
    <2>3. Settled(e)' = p.ack
      BY <1>1, <1>2 DEF Settled
    <2>. QED
      BY <1>1, <1>2, <2>1, <2>2, <2>3 DEF AwakeAt
  <1>6. \A d \in End : d # e => Leaves(d)
    BY <1>1, UnchangedLeaves
  <1>. QED
    BY <1>5, <1>6, StaysAwake

LEMMA NoAdvanceAwake ==
  ASSUME IInv, Awake, NEW e \in End, NEW p \in net, HandleAck(e, p), p.ack <= sendAck[e],
         UNCHANGED <<sendAck, sendSeq, sendBuffer>>
  PROVE  Awake'
  <1>1. /\ UNCHANGED <<state, done, worker, sendReady>>
        /\ \A d \in End : d # e => ackChan'[d] = ackChan[d]
        /\ ackChan'[e] \in {ackChan[e], p.ack}
    BY DEF HandleAck, callVars, IInv, Shape, SeqShape
  <1>2. AwakeAt(e)'
    <2>1. AwakeAt(e) /\ p.ack \in Nat /\ sendAck[e] \in Nat
      BY AckNumber DEF Awake, IInv, Shape, SeqShape, Seqs
    <2>2. ackChan'[e] # 0 => sendAck'[e] # 0
      BY <1>1, <2>1 DEF AwakeAt
    <2>. QED
      BY <1>1, <2>1, <2>2 DEF AwakeAt, Busy, Settled, Works
  <1>3. \A d \in End : d # e => Leaves(d)
    BY <1>1, UnchangedLeaves
  <1>. QED
    BY <1>2, <1>3, StaysAwake

LEMMA HandleAckAwake ==
  ASSUME IInv, mishaps = {}, Limits, Awake, LowStart, NEW e \in End, NEW p \in net,
         HandleAck(e, p)
  PROVE  Awake'
  <1>1. p.ack \in Nat /\ sendAck[e] \in Nat
    BY AckNumber DEF IInv, Shape, SeqShape, Seqs
  <1>2. CASE p.ack > sendAck[e] /\ Advances(e, p, Trimmed(e, p.ack))
    BY <1>2, AdvancesAwake
  <1>3. CASE p.ack = sendAck[e] /\ Repeats(e, p, Trimmed(e, p.ack))
    <2>1. p.ack <= sendAck[e] /\ UNCHANGED <<sendAck, sendSeq, sendBuffer>>
      BY <1>1, <1>3 DEF Repeats
    <2>. QED
      BY <2>1, NoAdvanceAwake
  <1>4. CASE p.ack < sendAck[e] /\ UNCHANGED <<sendAck, sendSeq, sendBuffer>>
    <2>1. p.ack <= sendAck[e]
      BY <1>1, <1>4
    <2>. QED
      BY <1>4, <2>1, NoAdvanceAwake
  <1>. QED
    BY <1>2, <1>3, <1>4 DEF HandleAck, Trimmed

LEMMA HandleSynAwake ==
  ASSUME IInv, Awake, NEW e \in End, NEW p \in net, HandleSyn(e, p)
  PROVE  Awake'
  <1>1. /\ UNCHANGED <<ackChan, sendAck, state, done, worker, sendBuffer, sendReady>>
        /\ \A d \in End : d # e => sendSeq'[d] = sendSeq[d]
        /\ state[e] # "listening" => sendSeq' = sendSeq
    BY DEF HandleSyn, callVars, workerVars, IInv, Shape, SeqShape
  <1>2. Leaves(e)
    BY <1>1 DEF Leaves, Works, Busy
  <1>3. \A d \in End : d # e => Leaves(d)
    BY <1>1, UnchangedLeaves
  <1>. QED
    BY <1>2, <1>3, StaysAwake

LEMMA InitAwake == Init => Awake
  <1>. SUFFICES ASSUME Init, NEW e \in End PROVE AwakeAt(e)
    BY DEF Awake
  <1>. QED
    BY DEF Init, AwakeAt, Works

LEMMA NextAwake ==
  ASSUME IInv, mishaps = {}, Limits, Awake, LowStart, Next
  PROVE  Awake'
  <1>1. CASE Connect \/ ConnectReturns \/ Listen \/ ListenReturns
    BY <1>1, CallsAwake
  <1>2. ASSUME NEW e \in End, CallFails(e) \/ Close(e) \/ RetransmissionWorker(e)
        PROVE  Awake'
    <2>1. \/ \E packets \in {{}} : Closed(e, packets)
          \/ UNCHANGED <<ackChan, sendAck, state, done, sendSeq, worker, sendBuffer, sendReady>>
      BY <1>2 DEF CallFails, Close, RetransmissionWorker, GetExpired, Retransmit, windowVars,
         signalVars, workerVars, callVars
    <2>. QED
      BY <2>1, ClosedAwake, QuietAwake
  <1>3. ASSUME NEW e \in End, Receive(e) \/ AckTimer(e) \/ KeepAlive(e)
        PROVE  Awake'
    BY <1>3, QuietAwake
       DEF Receive, AckTimer, KeepAlive, windowVars, signalVars, workerVars, callVars
  <1>4. ASSUME NEW e \in End, Send(e) \/ SendWorker(e)
        PROVE  Awake'
    BY <1>4, SendAwake, SendAdvancesAwake, SendStopsAwake DEF SendWorker
  <1>5. ASSUME NEW e \in End, NEW p \in net, HandleData(e, p) \/ HandleKeepAlive(e, p)
        PROVE  Awake'
    BY <1>5, QuietAwake DEF HandleData, HandleKeepAlive, windowVars, signalVars, workerVars, callVars
  <1>6. ASSUME NEW e \in End, NEW p \in net, HandleFin(e, p)
        PROVE  Awake'
    <2>1. \/ \E packets \in {{Ack(e, sendSeq[e], p.seq)}} : Closed(e, packets)
          \/ UNCHANGED <<ackChan, sendAck, state, done, sendSeq, worker, sendBuffer, sendReady>>
      BY <1>6 DEF HandleFin, windowVars, signalVars, workerVars, callVars
    <2>. QED
      BY <2>1, ClosedAwake, QuietAwake
  <1>7. ASSUME NEW e \in End, ReceiveWorker(e)
        PROVE  Awake'
    BY <1>5, <1>6, <1>7, HandleAckAwake, HandleSynAwake DEF ReceiveWorker
  <1>8. ASSUME NEW p \in net, Lose(p)
        PROVE  Awake'
    BY <1>8, QuietAwake DEF Lose, windowVars, signalVars, workerVars, callVars
  <1>. QED
    BY <1>1, <1>2, <1>3, <1>4, <1>7, <1>8 DEF Next

(* Bytes under way are kept in an entry, which is then one of data.        *)
LEMMA AwakeImplies ==
  ASSUME IInv, mishaps = {} => Holds /\ Awake
  PROVE  NothingStalls
  <1>. SUFFICES ASSUME Holds, Awake, NEW e \in End, Open(e), sendBuffer[e] # <<>>, ~sendReady[e],
                       worker[e].pc = "idle"
                PROVE  \E s \in DOMAIN retransQueue[e] : retransQueue[e][s].type = "data"
    BY DEF NothingStalls
  <1>1. Works(e)
    <2>1. state[e] \in {"idle", "connecting", "listening", "connected", "closed"}
      BY DEF IInv, Shape, FlagShape
    <2>2. accepted[e] # 0
      BY EmptyYet DEF IInv
    <2>. QED
      BY <2>1, <2>2 DEF Works, Open, IInv, Shape, Phases
  <1>2. Settled(e) < sendSeq[e] /\ Settled(e) \in Nat /\ sendSeq[e] \in Nat
    BY <1>1, Queues, Numbers DEF Awake, AwakeAt, Busy, IInv
  <1>3. Settled(e) \in Settled(e)..sendSeq[e] - 1
    BY <1>2
  <1>4. PICK s \in DOMAIN retransQueue[e] :
            s <= Settled(e) /\ Settled(e) < s + Size(retransQueue[e], s)
    BY <1>1, <1>3 DEF Holds, HoldsAt, Covers
  <1>5. Entries(e, s, retransQueue[e][s])
    BY DEF IInv, Shape, QueueShape, Table
  <1>6. retransQueue[e][s].data # <<>>
    <2>1. ASSUME retransQueue[e][s].data = <<>> PROVE Size(retransQueue[e], s) = 0
      BY <2>1 DEF Size
    <2>2. s \in Nat
      BY <1>5 DEF Entries
    <2>. QED
      BY <1>2, <1>4, <2>1, <2>2
  <1>. QED
    BY <1>5, <1>6 DEF Entries, EntryRecords

(* As long as neither mishap has happened, what an open end has in its     *)
(* send buffer has somebody who will send it: a signal to the send worker, *)
(* the send worker itself, or bytes in the retransmission queue whose      *)
(* acknowledgement sends more.  No wake-up is lost between Send, the send  *)
(* worker and the handler of an acknowledgement, which sends while the     *)
(* worker is between two of its steps.  That an end with an empty          *)
(* retransmission queue finds its window open rests on LowStart: the       *)
(* server begins at 2000 (connection.go:936), below two segments.          *)
THEOREM FillpFlows ==
  ASSUME LowStart
  PROVE  Spec => []NothingStalls
  <1>. DEFINE SInv == IInv /\ (mishaps = {} => Holds /\ Limits /\ Awake)
  <1>1. Init => SInv
    BY InitIInv, InitHolds, InitLimits, InitAwake
  <1>2. SInv /\ [Next]_vars => SInv'
    <2>. SUFFICES ASSUME SInv, [Next]_vars PROVE SInv'
      OBVIOUS
    <2>1. IInv'
      BY NextKeeps, StutterKeeps
    <2>2. mishaps' = {} => mishaps = {}
      BY MishapsStay
    <2>3. CASE Next
      BY <2>1, <2>2, <2>3, NextHolds, NextLimits, NextAwake
    <2>4. CASE UNCHANGED vars
      <3>1. /\ UNCHANGED <<state, done, sendAck, sendSeq, retransQueue, expired, worker, received,
                           net, ackChan, sendBuffer, sendReady, mishaps>>
        BY <2>4 DEF vars, windowVars, workerVars, callVars, streamVars, signalVars
      <3>. QED
        BY <2>1, <3>1, QuietHolds, QuietLimits, QuietAwake
    <2>. QED
      BY <2>3, <2>4
  <1>3. SInv => NothingStalls
    BY AwakeImplies
  <1>. QED
    BY <1>1, <1>2, <1>3, PTL DEF Spec
==============================================================================
