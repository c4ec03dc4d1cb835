--------------------------- MODULE RingQueueProofs ---------------------------
(* Theorems about RingQueue for every capacity, every set of callers and   *)
(* every list length, with their proofs.                                   *)
EXTENDS RingQueue, TLAPS, FiniteSetTheorems, SequenceTheorems

(* A suspended producer has something left to store, an idle one nothing,  *)
(* and a suspended Push (not a BatchPush) has its one task.                *)
SuspendedOwes ==
    \A p \in Producers :
        /\ pending[p] # <<>> <=> ~Idle(p)
        /\ p \notin batching => Len(pending[p]) <= 1
        /\ Idle(p) => p \notin batching

(* Every caller waits in at most one place and once: a goroutine in both   *)
(* wait lists, or twice in one, would swallow a Signal.                    *)
Distinct(s) == \A i, j \in DOMAIN s : s[i] = s[j] => i = j

WaitersDistinct ==
    /\ Distinct(notEmpty)
    /\ Distinct(notFull)
    /\ awake \cap Waiting = {}

IInv ==
    /\ TypeOK
    /\ SuspendedOwes
    /\ WaitersDistinct
    /\ ClosedWakesAll
    /\ RingConsistent
    /\ NoLostWakeup
    /\ NoLostSlot
------------------------------------------------------------------------------
(* Waiting in line: a caller goes to the end (Wait), the first one leaves  *)
(* (Signal).                                                               *)

(* Wait puts the caller at the end of the line and changes nothing else.   *)
LEMMA ElemsAppend ==
    ASSUME NEW S, NEW s \in Seq(S), NEW e \in S
    PROVE  /\ Append(s, e) \in Seq(S)
           /\ Elems(Append(s, e)) = Elems(s) \cup {e}
           /\ Distinct(s) /\ e \notin Elems(s) => Distinct(Append(s, e))
  <1>1. /\ Append(s, e) \in Seq(S)
        /\ DOMAIN s = 1..Len(s)
        /\ DOMAIN Append(s, e) = 1 .. Len(s) + 1
        /\ Len(s) \in Nat
        /\ \A i \in 1 .. Len(s) + 1 : Append(s, e)[i] = IF i = Len(s) + 1 THEN e ELSE s[i]
    OBVIOUS
  <1>2. Elems(Append(s, e)) = Elems(s) \cup {e}
    <2>1. \A i \in 1..Len(s) : i \in 1 .. Len(s) + 1 /\ i # Len(s) + 1
      BY <1>1
    <2>2. Len(s) + 1 \in 1 .. Len(s) + 1
      BY <1>1
    <2>3. \A i \in 1 .. Len(s) + 1 : i = Len(s) + 1 \/ i \in 1..Len(s)
      BY <1>1
    <2>. QED
      BY <1>1, <2>1, <2>2, <2>3, Zenon DEF Elems
  <1>3. ASSUME Distinct(s), e \notin Elems(s)
        PROVE  Distinct(Append(s, e))
    BY <1>1, <1>3 DEF Distinct, Elems
  <1>. QED
    BY <1>1, <1>2, <1>3

(* Signal lets the first in line go: it leaves, and the others stay.       *)
LEMMA ElemsSignal ==
    ASSUME NEW S, NEW s \in Seq(S)
    PROVE  /\ AfterSignal(s) \in Seq(S)
           /\ Signalled(s) \subseteq S
           /\ Elems(s) = Elems(AfterSignal(s)) \cup Signalled(s)
           /\ Distinct(s) => /\ Distinct(AfterSignal(s))
                             /\ Elems(AfterSignal(s)) \cap Signalled(s) = {}
  <1>1. CASE s = <<>>
    <2>1. Elems(s) = {} /\ AfterSignal(s) = s /\ Signalled(s) = {}
      BY <1>1 DEF Signalled, AfterSignal, Elems
    <2>. QED
      BY <2>1, Zenon
  <1>2. CASE s # <<>>
    <2>1. /\ Tail(s) \in Seq(S)
          /\ Head(s) \in S
          /\ Head(s) = s[1]
          /\ Len(s) \in Nat \ {0}
          /\ DOMAIN s = 1..Len(s)
          /\ DOMAIN Tail(s) = 1 .. Len(s) - 1
          /\ \A i \in 1 .. Len(s) - 1 : Tail(s)[i] = s[i + 1]
      BY <1>2
    <2>2. /\ AfterSignal(s) = Tail(s)
          /\ Signalled(s) = {Head(s)}
      BY <1>2 DEF Signalled, AfterSignal
    <2>3. Elems(s) = Elems(Tail(s)) \cup {Head(s)}
      <3>1. ASSUME NEW x \in Elems(s)
            PROVE  x \in Elems(Tail(s)) \cup {Head(s)}
        <4>1. PICK i \in 1..Len(s) : x = s[i]
          BY <2>1, <3>1 DEF Elems
        <4>2. CASE i = 1
          BY <2>1, <4>1, <4>2
        <4>3. CASE i # 1
          <5>1. i - 1 \in DOMAIN Tail(s) /\ x = Tail(s)[i - 1]
            BY <2>1, <4>1, <4>3
          <5>. QED
            BY <5>1 DEF Elems
        <4>. QED
          BY <4>2, <4>3
      <3>2. ASSUME NEW x \in Elems(Tail(s))
            PROVE  x \in Elems(s)
        <4>1. PICK i \in 1 .. Len(s) - 1 : x = s[i + 1]
          BY <2>1, <3>2 DEF Elems
        <4>2. i + 1 \in DOMAIN s
          BY <2>1
        <4>. QED
          BY <4>1, <4>2 DEF Elems
      <3>3. Head(s) \in Elems(s)
        BY <2>1 DEF Elems
      <3>. QED
        BY <3>1, <3>2, <3>3
    <2>4. ASSUME Distinct(s)
          PROVE  Distinct(Tail(s)) /\ Head(s) \notin Elems(Tail(s))
      BY <2>1, <2>4 DEF Distinct, Elems
    <2>. QED
      BY <2>1, <2>2, <2>3, <2>4
  <1>. QED
    BY <1>1, <1>2
------------------------------------------------------------------------------
(* Every action is one of these, of a caller that holds q.mu and therefore *)
(* waits nowhere.                                                          *)

Running(t) == t \notin Waiting

ProducerStep(p) ==
    \/ p \notin batching /\ \E task \in Tasks : PushStores(p, task) \/ PushWaits(p, task)
    \/ PushRefused(p)
    \/ Idle(p) /\ PushFull(p)
    \/ /\ Idle(p) => ~closed
       /\ \E ts \in Seq(Tasks) \ {<<>>} : BatchFills(p, ts)

ConsumerStep(c) ==
    \/ PopTakes(c)
    \/ \E err \in Errors : (closed => err = "ErrQueueClosed") /\ PopReturns(c, err)
    \/ PopWaits(c)

Step ==
    \/ \E p \in Producers : Running(p) /\ ProducerStep(p)
    \/ \E c \in Consumers : Running(c) /\ ConsumerStep(c)
    \/ Close

(* The lists given to BatchPush are non-empty sequences of tasks.          *)
LEMMA ListsAreSequences == Lists \subseteq Seq(Tasks) \ {<<>>}
  <1>. SUFFICES ASSUME NEW ts \in Lists
                PROVE  ts \in Seq(Tasks) \ {<<>>}
    OBVIOUS
  <1>1. PICK n \in BatchSizes : ts \in [1..n -> Tasks]
    BY DEF Lists
  <1>2. n \in Nat \ {0}
    BY <1>1, BatchAssumption
  <1>3. ts \in Seq(Tasks) /\ Len(ts) = n
    BY <1>1, <1>2
  <1>. QED
    BY <1>2, <1>3

(* Every action ends in one of the ways Step lists; a suspended call owes  *)
(* tasks                                                                   *)
LEMMA NextIsStep ==
    ASSUME TypeOK, SuspendedOwes, WaitersDistinct, Next
    PROVE  Step
  <1>1. ASSUME NEW p \in Producers, NEW task \in Tasks, NEW blocking \in BOOLEAN,
               Push(p, task, blocking)
        PROVE  Step
    BY <1>1 DEF Push, Step, ProducerStep, Running, Idle, SuspendedOwes
  <1>2. ASSUME NEW p \in Producers, NEW ts \in Lists, BatchPush(p, ts)
        PROVE  Step
    BY <1>2, ListsAreSequences DEF BatchPush, Step, ProducerStep, Running, Idle
  <1>3. ASSUME NEW p \in Producers, PushResumes(p)
        PROVE  Step
    <2>1. Running(p) /\ pending[p] # <<>>
      BY <1>3 DEF PushResumes, SuspendedOwes, WaitersDistinct, Running, Idle
    <2>2. Head(pending[p]) \in Tasks
      BY <2>1 DEF TypeOK
    <2>. QED
      BY <1>3, <2>1, <2>2 DEF PushResumes, Step, ProducerStep
  <1>4. ASSUME NEW p \in Producers, BatchResumes(p)
        PROVE  Step
    <2>1. Running(p) /\ pending[p] # <<>> /\ ~Idle(p)
      BY <1>4 DEF BatchResumes, SuspendedOwes, WaitersDistinct, Running, Idle
    <2>2. pending[p] \in Seq(Tasks) \ {<<>>}
      BY <2>1 DEF TypeOK
    <2>. QED
      BY <1>4, <2>1, <2>2 DEF BatchResumes, Step, ProducerStep
  <1>5. ASSUME NEW c \in Consumers, NEW blocking \in BOOLEAN, Pop(c, blocking)
        PROVE  Step
    BY <1>5 DEF Pop, Step, ConsumerStep, Running, Idle, Errors
  <1>6. ASSUME NEW c \in Consumers, PopResumes(c)
        PROVE  Step
    BY <1>6 DEF PopResumes, Step, ConsumerStep, Running, WaitersDistinct, Errors
  <1>. QED
    BY <1>1, <1>2, <1>3, <1>4, <1>5, <1>6 DEF Next, Step
------------------------------------------------------------------------------
(* The ring after Put.                                                     *)

(* Put keeps slots, indices and size in range.                             *)
LEMMA PutType ==
    ASSUME TypeOK, NEW ts \in Seq(Tasks), NEW k \in 0..Len(ts),
           size + k <= Capacity, Put(ts, k)
    PROVE  /\ buffer' \in [Slots -> Tasks \cup {Nil}]
           /\ head' \in Slots
           /\ tail' \in Slots
           /\ size' \in 0..Capacity
  <1>1. ASSUME NEW i \in Slots
        PROVE  buffer'[i] \in Tasks \cup {Nil}
    <2>. DEFINE n == (i - tail + Capacity) % Capacity
    <2>1. n \in Nat
      BY CapacityAssumption DEF TypeOK, Slots
    <2>2. buffer'[i] = IF n < k THEN ts[n + 1] ELSE buffer[i]
      BY DEF Put
    <2>3. n < k => ts[n + 1] \in Tasks
      BY <2>1
    <2>. QED
      BY <2>2, <2>3 DEF TypeOK
  <1>2. buffer' = [i \in Slots |-> buffer'[i]]
    BY DEF Put
  <1>3. /\ tail' \in Slots
        /\ head' \in Slots
        /\ size' \in 0..Capacity
    BY CapacityAssumption DEF Put, TypeOK, Slots
  <1>. QED
    BY <1>1, <1>2, <1>3

(* What the end of a producer's call leaves behind.                        *)
LEMMA ReturnType ==
    ASSUME TypeOK, NEW p \in Producers, NEW err \in Errors, Return(p, err)
    PROVE  /\ pending' \in [Producers -> Seq(Tasks)]
           /\ batching' \in SUBSET Producers
           /\ answer' \in [to : Callers \cup {Nil}, err : Errors, task : Tasks \cup {Nil}]
           /\ notFull' \in Seq(Producers)
           /\ quit' \in SUBSET Consumers
  <1>1. <<>> \in Seq(Tasks)
    OBVIOUS
  <1>. QED
    BY <1>1 DEF Return, Answer, TypeOK, Callers

(* The three ends of a stretch of BatchPush, k tasks having been stored.   *)
LEMMA BatchCases ==
    ASSUME TypeOK, NEW p \in Producers, NEW ts \in Seq(Tasks), BatchFills(p, ts)
    PROVE  \E k \in 0..Len(ts) :
              /\ size + k <= Capacity
              /\ Put(ts, k)
              /\ closed' = closed
              /\ \/ /\ k = Len(ts)
                    /\ Return(p, "nil")
                    /\ awake' = (awake \ {p}) \cup Elems(notEmpty)
                    /\ notEmpty' = <<>>
                 \/ /\ k < Len(ts)
                    /\ size + k = Capacity
                    /\ closed
                    /\ Return(p, "ErrQueueClosed")
                    /\ awake' = awake \ {p}
                    /\ notEmpty' = notEmpty
                 \/ /\ k < Len(ts)
                    /\ size + k = Capacity
                    /\ ~closed
                    /\ WaitNotFull(p, SubSeq(ts, k + 1, Len(ts)))
                    /\ awake' = awake \ {p}
                    /\ batching' = batching \cup {p}
                    /\ notEmpty' = notEmpty
  <1>. DEFINE room == Capacity - size
              k == IF Len(ts) <= room THEN Len(ts) ELSE room
  <1>1. /\ k \in 0..Len(ts)
        /\ size + k <= Capacity
        /\ k < Len(ts) => size + k = Capacity
    BY CapacityAssumption DEF TypeOK
  <1>. QED
    BY <1>1, Zenon DEF BatchFills

(* Every variable keeps its type.                                          *)
LEMMA TypeStep ==
    ASSUME TypeOK, Step
    PROVE  TypeOK'
  <1>. USE DEF Callers
  <1>1. ASSUME NEW p \in Producers, NEW task \in Tasks, PushStores(p, task)
        PROVE  TypeOK'
    <2>1. /\ size + 1 <= Capacity
          /\ <<task>> \in Seq(Tasks)
          /\ 1 \in 0..Len(<<task>>)
      BY <1>1, CapacityAssumption DEF PushStores, Full, TypeOK
    <2>2. /\ buffer' \in [Slots -> Tasks \cup {Nil}]
          /\ head' \in Slots
          /\ tail' \in Slots
          /\ size' \in 0..Capacity
      BY <1>1, <2>1, PutType DEF PushStores
    <2>3. /\ Signalled(notEmpty) \subseteq Consumers
          /\ AfterSignal(notEmpty) \in Seq(Consumers)
      BY ElemsSignal DEF TypeOK
    <2>. QED
      BY <1>1, <2>2, <2>3 DEF PushStores, Return, Answer, Errors, TypeOK
  <1>2. ASSUME NEW p \in Producers, PushRefused(p) \/ PushFull(p)
        PROVE  TypeOK'
    <2>1. PICK err \in Errors : Return(p, err)
      BY <1>2 DEF PushRefused, PushFull, Errors
    <2>. QED
      BY <1>2, <2>1, ReturnType DEF PushRefused, PushFull, ring, TypeOK
  <1>3. ASSUME NEW p \in Producers, NEW task \in Tasks, PushWaits(p, task)
        PROVE  TypeOK'
    BY <1>3 DEF PushWaits, WaitNotFull, ring, TypeOK
  <1>4. ASSUME NEW p \in Producers, NEW ts \in Seq(Tasks), BatchFills(p, ts)
        PROVE  TypeOK'
    <2>1. PICK k \in 0..Len(ts) :
              /\ size + k <= Capacity
              /\ Put(ts, k)
              /\ closed' = closed
              /\ \/ /\ k = Len(ts)
                    /\ Return(p, "nil")
                    /\ awake' = (awake \ {p}) \cup Elems(notEmpty)
                    /\ notEmpty' = <<>>
                 \/ /\ k < Len(ts)
                    /\ Return(p, "ErrQueueClosed")
                    /\ awake' = awake \ {p}
                    /\ notEmpty' = notEmpty
                 \/ /\ k < Len(ts)
                    /\ WaitNotFull(p, SubSeq(ts, k + 1, Len(ts)))
                    /\ awake' = awake \ {p}
                    /\ batching' = batching \cup {p}
                    /\ notEmpty' = notEmpty
      BY <1>4, BatchCases, Zenon
    <2>2. /\ buffer' \in [Slots -> Tasks \cup {Nil}]
          /\ head' \in Slots
          /\ tail' \in Slots
          /\ size' \in 0..Capacity
      BY <2>1, PutType
    <2>3. Elems(notEmpty) \subseteq Consumers
      BY DEF Elems, TypeOK
    <2>4. k < Len(ts) => SubSeq(ts, k + 1, Len(ts)) \in Seq(Tasks)
      BY <2>1
    <2>5. "nil" \in Errors /\ "ErrQueueClosed" \in Errors
      BY DEF Errors
    <2>6. /\ notEmpty' \in Seq(Consumers)
          /\ awake' \in SUBSET Callers
      <3>1. /\ notEmpty' = <<>> \/ notEmpty' = notEmpty
            /\ awake' = awake \ {p} \/ awake' = (awake \ {p}) \cup Elems(notEmpty)
        BY <2>1
      <3>2. notEmpty \in Seq(Consumers) /\ awake \subseteq Callers
        BY DEF TypeOK
      <3>3. notEmpty' \in Seq(Consumers)
        BY <3>1, <3>2, EmptySeq, Zenon
      <3>4. awake' \subseteq Callers
        BY <2>3, <3>1, <3>2
      <3>. QED
        BY <3>3, <3>4
    <2>7. /\ pending' \in [Producers -> Seq(Tasks)]
          /\ batching' \in SUBSET Producers
          /\ answer' \in [to : Callers \cup {Nil}, err : Errors, task : Tasks \cup {Nil}]
          /\ notFull' \in Seq(Producers)
          /\ quit' \in SUBSET Consumers
      <3>1. CASE Return(p, "nil")
        BY <2>5, <3>1, ReturnType
      <3>2. CASE Return(p, "ErrQueueClosed")
        BY <2>5, <3>2, ReturnType
      <3>3. CASE /\ k < Len(ts)
                 /\ WaitNotFull(p, SubSeq(ts, k + 1, Len(ts)))
                 /\ batching' = batching \cup {p}
        BY <2>4, <3>3 DEF WaitNotFull, TypeOK
      <3>. QED
        BY <2>1, <3>1, <3>2, <3>3
    <2>. QED
      BY <2>1, <2>2, <2>6, <2>7 DEF TypeOK
  <1>5. ASSUME NEW c \in Consumers, PopTakes(c)
        PROVE  TypeOK'
    <2>1. /\ Signalled(notFull) \subseteq Producers
          /\ AfterSignal(notFull) \in Seq(Producers)
      BY ElemsSignal DEF TypeOK
    <2>2. head' \in Slots /\ size' \in 0..Capacity
      BY <1>5, CapacityAssumption DEF PopTakes, TypeOK, Slots
    <2>3. buffer[head] \in Tasks \cup {Nil}
      BY DEF TypeOK
    <2>. QED
      BY <1>5, <2>1, <2>2, <2>3 DEF PopTakes, Answer, Errors, TypeOK
  <1>6. ASSUME NEW c \in Consumers, NEW err \in Errors, PopReturns(c, err)
        PROVE  TypeOK'
    BY <1>6 DEF PopReturns, Answer, ring, TypeOK
  <1>7. ASSUME NEW c \in Consumers, PopWaits(c)
        PROVE  TypeOK'
    BY <1>7 DEF PopWaits, ring, TypeOK
  <1>8. ASSUME Close
        PROVE  TypeOK'
    <2>1. Waiting \subseteq Callers
      BY DEF Waiting, Elems, TypeOK
    <2>. QED
      BY <1>8, <2>1 DEF Close, ring, TypeOK
  <1>. QED
    BY <1>1, <1>2, <1>3, <1>4, <1>5, <1>6, <1>7, <1>8
       DEF Step, ProducerStep, ConsumerStep
------------------------------------------------------------------------------
(* Who waits where.                                                        *)

(* Only members of S stand in a line of S.                                 *)
LEMMA ElemsType ==
    ASSUME NEW S, NEW s \in Seq(S)
    PROVE  Elems(s) \subseteq S
  BY DEF Elems

(* A line without callers is empty.                                        *)
LEMMA NobodyInLine ==
    ASSUME NEW S, NEW s \in Seq(S), Elems(s) = {}
    PROVE  s = <<>>
  <1>1. 1 \notin DOMAIN s
    BY DEF Elems
  <1>. QED
    BY <1>1

(* A producer suspended inside a call, and no other, still owes tasks.     *)
LEMMA SuspendedStep ==
    ASSUME TypeOK, TypeOK', SuspendedOwes, WaitersDistinct, Step
    PROVE  SuspendedOwes'
  <1>1. /\ Elems(notEmpty) \subseteq Consumers
        /\ Elems(notFull) \subseteq Producers
        /\ Elems(notEmpty)' \subseteq Consumers
        /\ Elems(notFull)' \subseteq Producers
    BY ElemsType DEF TypeOK
  <1>2. \A q \in Producers :
           /\ Idle(q) <=> q \notin awake \cup Elems(notFull)
           /\ Idle(q)' <=> q \notin awake' \cup Elems(notFull')
    BY <1>1, CallersAssumption DEF Idle, Waiting
  <1>3. ASSUME NEW p \in Producers, NEW err \in Errors, Return(p, err), Running(p),
               awake' \subseteq (awake \ {p}) \cup Elems(notEmpty),
               awake \ {p} \subseteq awake'
        PROVE  SuspendedOwes'
    <2>1. /\ notFull' = notFull
          /\ pending' = [pending EXCEPT ![p] = <<>>]
          /\ batching' = batching \ {p}
      BY <1>3 DEF Return
    <2>2. p \notin awake' \cup Elems(notFull')
      BY <1>1, <1>3, <2>1, CallersAssumption DEF Running, Waiting
    <2>3. ASSUME NEW q \in Producers, q # p
          PROVE  /\ q \in awake' <=> q \in awake
                 /\ pending'[q] = pending[q]
                 /\ q \in batching' <=> q \in batching
      BY <1>1, <1>3, <2>1, <2>3, CallersAssumption DEF TypeOK
    <2>4. pending'[p] = <<>> /\ Len(pending'[p]) = 0 /\ p \notin batching'
      BY <2>1 DEF TypeOK
    <2>. QED
      BY <1>2, <2>1, <2>2, <2>3, <2>4 DEF SuspendedOwes
  <1>4. ASSUME NEW p \in Producers, NEW ts \in Seq(Tasks) \ {<<>>},
               WaitNotFull(p, ts), awake' = awake \ {p},
               \/ batching' = batching /\ Len(ts) <= 1
               \/ batching' = batching \cup {p}
        PROVE  SuspendedOwes'
    <2>1. Elems(notFull') = Elems(notFull) \cup {p}
      BY <1>4, ElemsAppend DEF WaitNotFull, TypeOK
    <2>2. /\ pending'[p] = ts
          /\ \A q \in Producers \ {p} : pending'[q] = pending[q]
      BY <1>4 DEF WaitNotFull, TypeOK
    <2>. QED
      BY <1>2, <1>4, <2>1, <2>2 DEF SuspendedOwes
  <1>5. ASSUME NEW p \in Producers, Running(p), ProducerStep(p)
        PROVE  SuspendedOwes'
    <2>1. "nil" \in Errors /\ "ErrQueueClosed" \in Errors /\ "ErrQueueFull" \in Errors
      BY DEF Errors
    <2>2. Signalled(notEmpty) \subseteq Elems(notEmpty)
      BY ElemsSignal, ZenonT(60) DEF TypeOK
    <2>3. ASSUME NEW task \in Tasks, PushStores(p, task)
          PROVE  SuspendedOwes'
      <3>1. Return(p, "nil") /\ awake' = (awake \ {p}) \cup Signalled(notEmpty)
        BY <2>3 DEF PushStores
      <3>. QED
        BY <1>3, <1>5, <2>1, <2>2, <3>1
    <2>4. CASE PushRefused(p)
      BY <1>3, <1>5, <2>1, <2>4 DEF PushRefused
    <2>5. CASE Idle(p) /\ PushFull(p)
      BY <1>3, <1>5, <2>1, <2>5 DEF PushFull, Idle
    <2>6. ASSUME NEW task \in Tasks, PushWaits(p, task)
          PROVE  SuspendedOwes'
      <3>1. <<task>> \in Seq(Tasks) \ {<<>>} /\ Len(<<task>>) <= 1
        OBVIOUS
      <3>2. /\ WaitNotFull(p, <<task>>)
            /\ awake' = awake \ {p}
            /\ batching' = batching
        BY <2>6 DEF PushWaits
      <3>. QED
        BY <1>4, <3>1, <3>2, Zenon
    <2>7. ASSUME NEW ts \in Seq(Tasks) \ {<<>>}, BatchFills(p, ts)
          PROVE  SuspendedOwes'
      <3>1. PICK k \in 0..Len(ts) :
                \/ /\ Return(p, "nil")
                   /\ awake' = (awake \ {p}) \cup Elems(notEmpty)
                \/ /\ Return(p, "ErrQueueClosed")
                   /\ awake' = awake \ {p}
                \/ /\ k < Len(ts)
                   /\ WaitNotFull(p, SubSeq(ts, k + 1, Len(ts)))
                   /\ awake' = awake \ {p}
                   /\ batching' = batching \cup {p}
        BY <2>7, BatchCases, Zenon
      <3>2. CASE Return(p, "nil") /\ awake' = (awake \ {p}) \cup Elems(notEmpty)
        BY <1>3, <1>5, <2>1, <3>2
      <3>3. CASE Return(p, "ErrQueueClosed") /\ awake' = awake \ {p}
        BY <1>3, <1>5, <2>1, <3>3
      <3>4. CASE /\ k < Len(ts)
                 /\ WaitNotFull(p, SubSeq(ts, k + 1, Len(ts)))
                 /\ awake' = awake \ {p}
                 /\ batching' = batching \cup {p}
        <4>1. SubSeq(ts, k + 1, Len(ts)) \in Seq(Tasks) \ {<<>>}
          <5>1. /\ SubSeq(ts, k + 1, Len(ts)) \in Seq(Tasks)
                /\ Len(SubSeq(ts, k + 1, Len(ts))) = Len(ts) - k
            BY <3>4, SMT
          <5>2. Len(ts) - k # 0
            BY <3>4
          <5>3. Len(<<>>) = 0
            OBVIOUS
          <5>. QED
            BY <5>1, <5>2, <5>3, Zenon
        <4>. QED
          BY <1>4, <3>4, <4>1
      <3>. QED
        BY <3>1, <3>2, <3>3, <3>4
    <2>. QED
      BY <1>5, <2>3, <2>4, <2>5, <2>6, <2>7 DEF ProducerStep
  <1>6. ASSUME /\ pending' = pending
               /\ batching' = batching
               /\ \A q \in Producers :
                     q \in awake' \cup Elems(notFull') <=> q \in awake \cup Elems(notFull)
        PROVE  SuspendedOwes'
    BY <1>2, <1>6 DEF SuspendedOwes
  <1>7. ASSUME NEW c \in Consumers, ConsumerStep(c)
        PROVE  SuspendedOwes'
    <2>1. c \notin Producers
      BY CallersAssumption
    <2>2. Elems(notFull) = Elems(AfterSignal(notFull)) \cup Signalled(notFull)
      BY ElemsSignal DEF TypeOK
    <2>3. CASE PopTakes(c)
      BY <1>6, <2>1, <2>2, <2>3 DEF PopTakes
    <2>4. ASSUME NEW err \in Errors, PopReturns(c, err)
          PROVE  SuspendedOwes'
      BY <1>6, <2>1, <2>4 DEF PopReturns
    <2>5. CASE PopWaits(c)
      BY <1>6, <2>1, <2>5 DEF PopWaits
    <2>. QED
      BY <1>7, <2>3, <2>4, <2>5 DEF ConsumerStep
  <1>8. CASE Close
    <2>1. Elems(notFull') = {}
      BY <1>8 DEF Close, Elems
    <2>2. \A q \in Producers : q \notin Elems(notEmpty)
      BY <1>1, CallersAssumption
    <2>. QED
      BY <1>6, <1>8, <2>1, <2>2 DEF Close, Waiting
  <1>. QED
    BY <1>5, <1>7, <1>8 DEF Step

(* The lines stay free of duplicates, and empty once the queue is closed.  *)
LEMMA LinesStep ==
    ASSUME TypeOK, WaitersDistinct, ClosedWakesAll, Step
    PROVE  WaitersDistinct' /\ ClosedWakesAll'
  <1>. DEFINE Goal == WaitersDistinct' /\ ClosedWakesAll'
  <1>1. /\ notEmpty \in Seq(Consumers)
        /\ notFull \in Seq(Producers)
        /\ Elems(notEmpty) \subseteq Consumers
        /\ Elems(notFull) \subseteq Producers
        /\ Producers \cap Consumers = {}
    BY ElemsType, CallersAssumption DEF TypeOK
  <1>2. /\ Elems(AfterSignal(notEmpty)) \cup Signalled(notEmpty) = Elems(notEmpty)
        /\ Distinct(AfterSignal(notEmpty))
        /\ Elems(AfterSignal(notEmpty)) \cap Signalled(notEmpty) = {}
    BY <1>1, ElemsSignal, Zenon DEF WaitersDistinct
  <1>3. /\ Elems(AfterSignal(notFull)) \cup Signalled(notFull) = Elems(notFull)
        /\ Distinct(AfterSignal(notFull))
        /\ Elems(AfterSignal(notFull)) \cap Signalled(notFull) = {}
    BY <1>1, ElemsSignal, Zenon DEF WaitersDistinct
  <1>4. Elems(<<>>) = {} /\ Distinct(<<>>)
    BY DEF Elems, Distinct
  <1>5. ASSUME NEW t, awake' = (awake \ {t}) \cup Signalled(notEmpty),
               notEmpty' = AfterSignal(notEmpty), notFull' = notFull, closed' = closed
        PROVE  Goal
    BY <1>1, <1>2, <1>5 DEF WaitersDistinct, ClosedWakesAll, Waiting
  <1>6. ASSUME NEW t, awake' = (awake \ {t}) \cup Signalled(notFull),
               notFull' = AfterSignal(notFull), notEmpty' = notEmpty, closed' = closed
        PROVE  Goal
    BY <1>1, <1>3, <1>6 DEF WaitersDistinct, ClosedWakesAll, Waiting
  <1>7. ASSUME awake' \subseteq awake, notEmpty' = notEmpty, notFull' = notFull,
               closed' = closed
        PROVE  Goal
    BY <1>7 DEF WaitersDistinct, ClosedWakesAll, Waiting
  <1>8. ASSUME NEW p \in Producers, Running(p), ~closed, awake' = awake \ {p},
               notFull' = Append(notFull, p), notEmpty' = notEmpty, closed' = closed
        PROVE  Goal
    <2>1. /\ Elems(notFull') = Elems(notFull) \cup {p}
          /\ Distinct(notFull')
      BY <1>1, <1>8, ElemsAppend, Zenon DEF WaitersDistinct, Running, Waiting
    <2>. QED
      BY <1>8, <2>1 DEF WaitersDistinct, ClosedWakesAll, Waiting, Running
  <1>9. ASSUME NEW c \in Consumers, Running(c), ~closed, awake' = awake \ {c},
               notEmpty' = Append(notEmpty, c), notFull' = notFull, closed' = closed
        PROVE  Goal
    <2>1. /\ Elems(notEmpty') = Elems(notEmpty) \cup {c}
          /\ Distinct(notEmpty')
      BY <1>1, <1>9, ElemsAppend, Zenon DEF WaitersDistinct, Running, Waiting
    <2>. QED
      BY <1>9, <2>1 DEF WaitersDistinct, ClosedWakesAll, Waiting, Running
  <1>10. ASSUME awake' \subseteq awake \cup Elems(notEmpty), notEmpty' = <<>>,
                notFull' = notFull, closed' = closed
         PROVE  Goal
    BY <1>1, <1>4, <1>10 DEF WaitersDistinct, ClosedWakesAll, Waiting
  <1>11. ASSUME Close
         PROVE  Goal
    BY <1>4, <1>11 DEF Close, WaitersDistinct, ClosedWakesAll, Waiting
  <1>. HIDE DEF Goal
  <1>12. ASSUME NEW p \in Producers, Running(p), ProducerStep(p)
         PROVE  Goal
    <2>1. ASSUME NEW task \in Tasks, PushStores(p, task)
          PROVE  Goal
      BY <1>5, <2>1 DEF PushStores, Return
    <2>2. CASE PushRefused(p)
      BY <1>7, <2>2 DEF PushRefused, Return
    <2>3. CASE PushFull(p)
      BY <1>7, <2>3 DEF PushFull, Return
    <2>4. ASSUME NEW task \in Tasks, PushWaits(p, task)
          PROVE  Goal
      BY <1>8, <1>12, <2>4 DEF PushWaits, WaitNotFull
    <2>5. ASSUME NEW ts \in Seq(Tasks), BatchFills(p, ts)
          PROVE  Goal
      <3>1. PICK k \in 0..Len(ts) :
                /\ closed' = closed
                /\ \/ /\ Return(p, "nil")
                      /\ awake' = (awake \ {p}) \cup Elems(notEmpty)
                      /\ notEmpty' = <<>>
                   \/ /\ Return(p, "ErrQueueClosed")
                      /\ awake' = awake \ {p}
                      /\ notEmpty' = notEmpty
                   \/ /\ ~closed
                      /\ WaitNotFull(p, SubSeq(ts, k + 1, Len(ts)))
                      /\ awake' = awake \ {p}
                      /\ notEmpty' = notEmpty
        BY <2>5, BatchCases, Zenon
      <3>2. \/ /\ notFull' = notFull
               /\ awake' = (awake \ {p}) \cup Elems(notEmpty)
               /\ notEmpty' = <<>>
            \/ /\ notFull' = notFull
               /\ awake' = awake \ {p}
               /\ notEmpty' = notEmpty
            \/ /\ ~closed
               /\ notFull' = Append(notFull, p)
               /\ awake' = awake \ {p}
               /\ notEmpty' = notEmpty
        BY <3>1, Zenon DEF Return, WaitNotFull
      <3>. QED
        BY <1>7, <1>8, <1>10, <1>12, <3>1, <3>2
    <2>. QED
      BY <1>12, <2>1, <2>2, <2>3, <2>4, <2>5 DEF ProducerStep
  <1>13. ASSUME NEW c \in Consumers, Running(c), ConsumerStep(c)
         PROVE  Goal
    <2>1. CASE PopTakes(c)
      BY <1>6, <2>1 DEF PopTakes
    <2>2. ASSUME NEW err \in Errors, PopReturns(c, err)
          PROVE  Goal
      BY <1>7, <2>2 DEF PopReturns
    <2>3. CASE PopWaits(c)
      BY <1>9, <1>13, <2>3 DEF PopWaits
    <2>. QED
      BY <1>13, <2>1, <2>2, <2>3 DEF ConsumerStep
  <1>14. Goal
    BY <1>11, <1>12, <1>13 DEF Step
  <1>. QED
    BY <1>14 DEF Goal
------------------------------------------------------------------------------
(* The ring of slots.                                                      *)

(* Going round the ring by at most its length, the remainder is one        *)
(* subtraction.                                                            *)
LEMMA SlotValue ==
    ASSUME NEW h \in Slots, NEW i \in 0..Capacity
    PROVE  (h + i) % Capacity = IF h + i < Capacity THEN h + i ELSE h + i - Capacity
  BY CapacityAssumption DEF Slots

(* How far slot number i is behind slot number s, going round.             *)
LEMMA SlotDistance ==
    ASSUME NEW h \in Slots, NEW i \in 0 .. Capacity - 1, NEW s \in 0..Capacity
    PROVE  (((h + i) % Capacity) - ((h + s) % Capacity) + Capacity) % Capacity
              = IF s <= i THEN i - s ELSE i - s + Capacity
  <1>. DEFINE a == (h + i) % Capacity
              b == (h + s) % Capacity
              d == IF s <= i THEN i - s ELSE i - s + Capacity
  <1>1. /\ a = IF h + i < Capacity THEN h + i ELSE h + i - Capacity
        /\ b = IF h + s < Capacity THEN h + s ELSE h + s - Capacity
    <2>1. i \in 0..Capacity
      BY CapacityAssumption
    <2>. QED
      BY <2>1, SlotValue
  <1>2. /\ a \in 0 .. Capacity - 1
        /\ b \in 0 .. Capacity - 1
        /\ d \in 0 .. Capacity - 1
        /\ a - b + Capacity = d \/ a - b + Capacity = d + Capacity
    <2>. HIDE DEF a, b
    <2>. QED
      BY <1>1, CapacityAssumption DEF Slots
  <1>. HIDE DEF a, b, d
  <1>3. (a - b + Capacity) % Capacity = d
    BY <1>2, CapacityAssumption
  <1>. QED
    BY <1>3 DEF a, b, d

(* The slots numbered from head are all the slots, each once.              *)
LEMMA SlotsInjective ==
    ASSUME NEW h \in Slots
    PROVE  /\ \A i \in 0..Capacity : (h + i) % Capacity \in Slots
           /\ \A i, j \in 0 .. Capacity - 1 :
                 (h + i) % Capacity = (h + j) % Capacity => i = j
  <1>1. ASSUME NEW i \in 0..Capacity
        PROVE  (h + i) % Capacity \in Slots
    BY CapacityAssumption DEF Slots
  <1>2. ASSUME NEW i \in 0 .. Capacity - 1, NEW j \in 0 .. Capacity - 1,
               (h + i) % Capacity = (h + j) % Capacity
        PROVE  i = j
    <2>1. i \in 0..Capacity /\ j \in 0..Capacity
      BY CapacityAssumption
    <2>2. /\ (h + i) % Capacity = IF h + i < Capacity THEN h + i ELSE h + i - Capacity
          /\ (h + j) % Capacity = IF h + j < Capacity THEN h + j ELSE h + j - Capacity
      BY <2>1, SlotValue
    <2>. QED
      BY <1>2, <2>2, CapacityAssumption DEF Slots
  <1>. QED
    BY <1>1, <1>2

(* Put fills the k free slots from tail on, and the ring stays consistent. *)
LEMMA PutRing ==
    ASSUME TypeOK, RingConsistent, NEW ts \in Seq(Tasks), NEW k \in 0..Len(ts),
           size + k <= Capacity, Put(ts, k)
    PROVE  /\ RingConsistent'
           /\ \A i \in 0 .. Capacity - 1 :
                 buffer'[Slot(i)] = IF size <= i /\ i < size + k
                                    THEN ts[i - size + 1] ELSE buffer[Slot(i)]
  <1>1. /\ head \in Slots
        /\ size \in 0..Capacity
        /\ size + k \in 0..Capacity
        /\ Capacity \in Nat \ {0}
        /\ tail = Slot(size)
    BY CapacityAssumption DEF TypeOK, RingConsistent
  <1>2. ASSUME NEW i \in 0 .. Capacity - 1
        PROVE  buffer'[Slot(i)] = IF size <= i /\ i < size + k
                                  THEN ts[i - size + 1] ELSE buffer[Slot(i)]
    <2>. DEFINE n == (Slot(i) - tail + Capacity) % Capacity
    <2>1. n = IF size <= i THEN i - size ELSE i - size + Capacity
      BY <1>1, SlotDistance DEF Slot
    <2>2. Slot(i) \in Slots
      BY <1>1, SlotsInjective DEF Slot
    <2>3. buffer'[Slot(i)] = IF n < k THEN ts[n + 1] ELSE buffer[Slot(i)]
      BY <2>2 DEF Put
    <2>. QED
      BY <1>1, <2>1, <2>3
  <1>3. tail' = (head + (size + k)) % Capacity
    <2>1. tail = IF head + size < Capacity THEN head + size ELSE head + size - Capacity
      BY <1>1, SlotValue DEF Slot
    <2>2. tail' = (tail + k) % Capacity
      BY DEF Put
    <2>3. k \in 0..Capacity
      BY <1>1
    <2>4. tail \in Slots
      BY DEF TypeOK
    <2>5. tail' = IF tail + k < Capacity THEN tail + k ELSE tail + k - Capacity
      BY <2>2, <2>3, <2>4, SlotValue
    <2>6. (head + (size + k)) % Capacity
             = IF head + (size + k) < Capacity THEN head + (size + k)
               ELSE head + (size + k) - Capacity
      BY <1>1, SlotValue
    <2>7. k \in Nat
      BY <2>3
    <2>. QED
      BY <1>1, <2>1, <2>5, <2>6, <2>7 DEF Slots
  <1>4. head' = head /\ size' = size + k
    BY DEF Put
  <1>5. ASSUME NEW i \in 0 .. Capacity - 1
        PROVE  buffer'[Slot(i)] # Nil <=> i < size + k
    <2>1. buffer[Slot(i)] # Nil <=> i < size
      BY DEF RingConsistent
    <2>2. size <= i /\ i < size + k => ts[i - size + 1] \in Tasks
      BY <1>1
    <2>. QED
      BY <1>1, <1>2, <2>1, <2>2, NilAssumption
  <1>6. \A i : Slot(i)' = Slot(i)
    BY <1>4 DEF Slot
  <1>7. RingConsistent'
    BY <1>3, <1>4, <1>5 DEF RingConsistent, Slot
  <1>. QED
    BY <1>2, <1>7

(* Pop clears the slot at head, and every other task moves one place up.   *)
LEMMA TakeRing ==
    ASSUME TypeOK, RingConsistent, NEW c \in Consumers, PopTakes(c)
    PROVE  /\ RingConsistent'
           /\ buffer[head] \in Tasks
           /\ \A i \in 0 .. Capacity - 2 :
                 Slot(i)' = Slot(i + 1) /\ buffer'[Slot(i)'] = buffer[Slot(i + 1)]
  <1>1. /\ head \in Slots
        /\ size \in 1..Capacity
        /\ Capacity \in Nat \ {0}
        /\ tail = Slot(size)
        /\ head' = Slot(1)
        /\ size' = size - 1
        /\ tail' = tail
        /\ buffer \in [Slots -> Tasks \cup {Nil}]
        /\ buffer' = [buffer EXCEPT ![head] = Nil]
    BY CapacityAssumption DEF TypeOK, RingConsistent, PopTakes, Slot
  <1>0. head = Slot(0)
    <2>1. 0 \in 0..Capacity
      BY <1>1
    <2>2. Slot(0) = IF head + 0 < Capacity THEN head + 0 ELSE head + 0 - Capacity
      BY <1>1, <2>1, SlotValue DEF Slot
    <2>. QED
      BY <1>1, <2>2 DEF Slots
  <1>2. head' = IF head + 1 < Capacity THEN head + 1 ELSE head + 1 - Capacity
    BY <1>1, SlotValue DEF Slot
  <1>3. head' \in Slots
    BY <1>1, <1>2 DEF Slots
  <1>4. ASSUME NEW i \in 0 .. Capacity - 1
        PROVE  Slot(i)' = Slot(i + 1)
    <2>1. (head' + i) % Capacity
             = IF head' + i < Capacity THEN head' + i ELSE head' + i - Capacity
      BY <1>1, <1>3, SlotValue
    <2>2. (head + (i + 1)) % Capacity
             = IF head + (i + 1) < Capacity THEN head + (i + 1)
               ELSE head + (i + 1) - Capacity
      <3>1. i + 1 \in 0..Capacity
        BY <1>1
      <3>. QED
        BY <1>1, <3>1, SlotValue
    <2>. QED
      BY <1>1, <1>2, <2>1, <2>2 DEF Slot, Slots
  <1>5. ASSUME NEW i \in 0 .. Capacity - 2
        PROVE  Slot(i + 1) \in Slots /\ Slot(i + 1) # head
    <2>1. i + 1 \in 0 .. Capacity - 1 /\ 0 \in 0 .. Capacity - 1 /\ i + 1 # 0
      BY <1>1
    <2>. QED
      BY <1>0, <1>1, <2>1, SlotsInjective, SMTT(30) DEF Slot
  <1>6. \A i \in 0 .. Capacity - 2 : buffer'[Slot(i + 1)] = buffer[Slot(i + 1)]
    BY <1>1, <1>5
  <1>7. Slot(Capacity) = head
    <2>1. Capacity \in 0..Capacity
      BY <1>1
    <2>2. Slot(Capacity) = IF head + Capacity < Capacity THEN head + Capacity ELSE head + Capacity - Capacity
      BY <1>1, <2>1, SlotValue DEF Slot
    <2>. QED
      BY <1>1, <2>2 DEF Slots
  <1>8. ASSUME NEW i \in 0 .. Capacity - 1
        PROVE  buffer'[Slot(i + 1)] # Nil <=> i < size - 1
    <2>1. CASE i = Capacity - 1
      BY <1>1, <1>7, <2>1
    <2>2. CASE i # Capacity - 1
      <3>1. i \in 0 .. Capacity - 2 /\ i + 1 \in 0 .. Capacity - 1
        BY <1>1, <2>2
      <3>2. buffer[Slot(i + 1)] # Nil <=> i + 1 < size
        BY <3>1 DEF RingConsistent
      <3>. QED
        BY <1>1, <1>6, <3>1, <3>2
    <2>. QED
      BY <2>1, <2>2
  <1>9. tail' = (head' + (size - 1)) % Capacity
    <2>1. size - 1 \in 0 .. Capacity - 1 /\ (size - 1) + 1 = size
      BY <1>1
    <2>2. (head' + (size - 1)) % Capacity = (head + ((size - 1) + 1)) % Capacity
      BY <1>4, <2>1 DEF Slot
    <2>. QED
      BY <1>1, <2>1, <2>2 DEF Slot
  <1>10. RingConsistent'
    <2>1. tail' = (head' + size') % Capacity
      BY <1>1, <1>9
    <2>2. \A i \in 0 .. Capacity - 1 :
             buffer'[(head' + i) % Capacity] # Nil <=> i < size'
      BY <1>1, <1>4, <1>8 DEF Slot
    <2>. QED
      BY <2>1, <2>2 DEF RingConsistent, Slot
  <1>11. buffer[head] \in Tasks
    <2>1. 0 \in 0 .. Capacity - 1
      BY <1>1
    <2>2. buffer[Slot(0)] # Nil
      BY <1>1, <2>1 DEF RingConsistent
    <2>. QED
      BY <1>0, <1>1, <2>2
  <1>12. \A i \in 0 .. Capacity - 2 : i \in 0 .. Capacity - 1
    BY <1>1
  <1>. QED
    BY <1>4, <1>6, <1>10, <1>11, <1>12

(* head, tail, size and the slots agree after every step.                  *)
LEMMA RingStep ==
    ASSUME TypeOK, RingConsistent, Step
    PROVE  RingConsistent'
  <1>1. ASSUME NEW p \in Producers, NEW task \in Tasks, PushStores(p, task)
        PROVE  RingConsistent'
    <2>1. /\ size + 1 <= Capacity
          /\ <<task>> \in Seq(Tasks)
          /\ 1 \in 0..Len(<<task>>)
      BY <1>1, CapacityAssumption DEF PushStores, Full, TypeOK
    <2>2. Put(<<task>>, 1)
      BY <1>1 DEF PushStores
    <2>. QED
      BY <2>1, <2>2, PutRing, Zenon
  <1>2. ASSUME NEW p \in Producers, NEW ts \in Seq(Tasks), BatchFills(p, ts)
        PROVE  RingConsistent'
    <2>1. PICK k \in 0..Len(ts) : size + k <= Capacity /\ Put(ts, k)
      BY <1>2, BatchCases, Zenon
    <2>. QED
      BY <2>1, PutRing
  <1>3. ASSUME NEW c \in Consumers, PopTakes(c)
        PROVE  RingConsistent'
    BY <1>3, TakeRing
  <1>4. ASSUME UNCHANGED ring
        PROVE  RingConsistent'
    BY <1>4 DEF ring, RingConsistent, Slot
  <1>. QED
    BY <1>1, <1>2, <1>3, <1>4
       DEF Step, ProducerStep, ConsumerStep, PushWaits, PushRefused, PushFull,
           PopReturns, PopWaits, Close
------------------------------------------------------------------------------
(* Counting the callers that are awake: one that runs leaves the set, the  *)
(* one first in line joins it at a Signal.                                 *)

LEMMA AwakeCount ==
    ASSUME NEW A, NEW t, IsFiniteSet(A)
    PROVE  /\ Cardinality(A) \in Nat
           /\ Cardinality(A \ {t}) >= Cardinality(A) - 1
           /\ t \notin A => Cardinality(A \cup {t}) = Cardinality(A) + 1
  <1>1. Cardinality(A) \in Nat
    BY FS_CardinalityType
  <1>2. Cardinality(A \ {t}) = IF t \in A THEN Cardinality(A) - 1 ELSE Cardinality(A)
    BY FS_RemoveElement
  <1>3. Cardinality(A \cup {t}) = IF t \in A THEN Cardinality(A) ELSE Cardinality(A) + 1
    BY FS_AddElement
  <1>. QED
    BY <1>1, <1>2, <1>3

(* A Signal with somebody in line wakes somebody who was not awake.        *)
LEMMA SignalCounts ==
    ASSUME NEW A, NEW S, IsFiniteSet(A), NEW s \in Seq(S), s # <<>>, A \cap Elems(s) = {}
    PROVE  Cardinality(A \cup Signalled(s)) = Cardinality(A) + 1
  <1>1. Signalled(s) = {Head(s)}
    BY DEF Signalled
  <1>2. Head(s) \in Elems(s)
    <2>1. Elems(s) = Elems(AfterSignal(s)) \cup Signalled(s)
      BY ElemsSignal
    <2>. QED
      BY <1>1, <2>1
  <1>. QED
    BY <1>1, <1>2, AwakeCount

(* No step leaves a consumer asleep over a task nobody awake will take.    *)
LEMMA WakeStep ==
    ASSUME TypeOK, SuspendedOwes, WaitersDistinct, ClosedWakesAll, NoLostWakeup, Step
    PROVE  NoLostWakeup'
  <1>. DEFINE Up == awake \cap Consumers
  <1>1. /\ IsFiniteSet(Up)
        /\ Cardinality(Up) \in Nat
        /\ size \in 0..Capacity
        /\ Capacity \in Nat
        /\ Producers \cap Consumers = {}
    BY FS_Subset, FS_CardinalityType, CallersAssumption, CapacityAssumption DEF TypeOK
  <1>2. ASSUME UNCHANGED <<size, notEmpty, batching>>, Up \subseteq awake' \cap Consumers,
               awake' \cap Consumers \subseteq Up
        PROVE  NoLostWakeup'
    <2>1. awake' \cap Consumers = Up
      BY <1>2
    <2>. QED
      BY <1>2, <2>1 DEF NoLostWakeup
  <1>3. ASSUME notEmpty' = <<>> \/ batching' # {} \/ size' = 0
        PROVE  NoLostWakeup'
    <2>1. Cardinality(awake' \cap Consumers) \in Nat
      <3>1. IsFiniteSet(awake' \cap Consumers)
        BY FS_Subset, CallersAssumption
      <3>. QED
        BY <3>1, FS_CardinalityType
    <2>. QED
      BY <1>3, <2>1 DEF NoLostWakeup
  <1>4. ASSUME NEW p \in Producers, ProducerStep(p)
        PROVE  NoLostWakeup'
    <2>1. ASSUME NEW task \in Tasks, PushStores(p, task), p \notin batching
          PROVE  NoLostWakeup'
      <3>1. /\ size' = size + 1
            /\ batching' = batching
            /\ notEmpty' = AfterSignal(notEmpty)
            /\ awake' = (awake \ {p}) \cup Signalled(notEmpty)
        BY <2>1 DEF PushStores, Put, Return
      <3>2. CASE notEmpty = <<>>
        BY <1>3, <3>1, <3>2 DEF AfterSignal
      <3>3. CASE notEmpty # <<>>
        <4>1. Signalled(notEmpty) \subseteq Consumers /\ Elems(notEmpty) \subseteq Consumers
          BY ElemsSignal, ElemsType DEF TypeOK
        <4>2. awake' \cap Consumers = Up \cup Signalled(notEmpty)
          BY <1>1, <3>1, <4>1
        <4>3. Up \cap Elems(notEmpty) = {}
          BY DEF WaitersDistinct, Waiting
        <4>4. Cardinality(awake' \cap Consumers) = Cardinality(Up) + 1
          BY <1>1, <3>3, <4>2, <4>3, SignalCounts, ZenonT(60) DEF TypeOK
        <4>. QED
          BY <1>1, <3>1, <3>3, <4>4 DEF NoLostWakeup
      <3>. QED
        BY <3>2, <3>3
    <2>2. CASE PushRefused(p)
      <3>1. notEmpty' = <<>>
        BY <2>2, NobodyInLine DEF PushRefused, ClosedWakesAll, Waiting, TypeOK
      <3>. QED
        BY <1>3, <3>1
    <2>3. CASE Idle(p) /\ PushFull(p)
      <3>1. batching' = batching
        BY <2>3 DEF PushFull, Return, SuspendedOwes
      <3>. QED
        BY <1>2, <2>3, <3>1 DEF PushFull, ring
    <2>4. ASSUME NEW task \in Tasks, PushWaits(p, task)
          PROVE  NoLostWakeup'
      BY <1>1, <1>2, <2>4 DEF PushWaits, ring
    <2>5. ASSUME NEW ts \in Seq(Tasks), BatchFills(p, ts)
          PROVE  NoLostWakeup'
      <3>1. \/ notEmpty' = <<>>
            \/ closed /\ notEmpty' = notEmpty
            \/ batching' = batching \cup {p}
        BY <2>5, BatchCases, Zenon
      <3>2. closed => notEmpty = <<>>
        BY NobodyInLine DEF ClosedWakesAll, Waiting, TypeOK
      <3>. QED
        BY <1>3, <3>1, <3>2
    <2>. QED
      BY <1>4, <2>1, <2>2, <2>3, <2>4, <2>5 DEF ProducerStep
  <1>5. ASSUME NEW c \in Consumers, ConsumerStep(c)
        PROVE  NoLostWakeup'
    <2>1. CASE PopTakes(c)
      <3>1. /\ size' = size - 1
            /\ notEmpty' = notEmpty
            /\ batching' = batching
            /\ awake' = (awake \ {c}) \cup Signalled(notFull)
        BY <2>1 DEF PopTakes
      <3>2. Signalled(notFull) \subseteq Producers
        BY ElemsSignal DEF TypeOK
      <3>3. awake' \cap Consumers = Up \ {c}
        BY <1>1, <3>1, <3>2
      <3>4. /\ Cardinality(Up \ {c}) >= Cardinality(Up) - 1
            /\ Cardinality(Up \ {c}) \in Nat
        <4>1. IsFiniteSet(Up \ {c})
          BY <1>1, FS_RemoveElement
        <4>. QED
          BY <1>1, <4>1, AwakeCount
      <3>5. size > 0
        BY <2>1 DEF PopTakes
      <3>6. ASSUME notEmpty # <<>>, batching = {}
            PROVE  size - 1 <= Cardinality(Up \ {c})
        <4>1. size <= Cardinality(Up)
          BY <3>6 DEF NoLostWakeup
        <4>. QED
          BY <1>1, <3>4, <3>5, <4>1
      <3>. QED
        BY <3>1, <3>3, <3>6, Zenon DEF NoLostWakeup
    <2>2. ASSUME NEW err \in Errors, PopReturns(c, err)
          PROVE  NoLostWakeup'
      BY <1>3, <2>2 DEF PopReturns, ring
    <2>3. CASE PopWaits(c)
      BY <1>3, <2>3 DEF PopWaits, ring
    <2>. QED
      BY <1>5, <2>1, <2>2, <2>3 DEF ConsumerStep
  <1>6. CASE Close
    BY <1>3, <1>6 DEF Close
  <1>. QED
    BY <1>4, <1>5, <1>6 DEF Step

(* No step leaves a producer asleep beside a slot nobody awake will fill.  *)
LEMMA SlotStep ==
    ASSUME TypeOK, TypeOK', WaitersDistinct, ClosedWakesAll, NoLostSlot, Step
    PROVE  NoLostSlot'
  <1>. DEFINE Up == awake \cap Producers
  <1>1. /\ IsFiniteSet(Up)
        /\ Cardinality(Up) \in Nat
        /\ size \in 0..Capacity
        /\ size' \in 0..Capacity
        /\ Capacity \in Nat
        /\ Producers \cap Consumers = {}
    BY FS_Subset, FS_CardinalityType, CallersAssumption, CapacityAssumption DEF TypeOK
  <1>2. ASSUME notFull' = <<>> \/ size' = Capacity
        PROVE  NoLostSlot'
    <2>1. Cardinality(awake' \cap Producers) \in Nat
      <3>1. IsFiniteSet(awake' \cap Producers)
        BY FS_Subset, CallersAssumption
      <3>. QED
        BY <3>1, FS_CardinalityType
    <2>. QED
      BY <1>1, <1>2, <2>1 DEF NoLostSlot
  <1>3. ASSUME NEW p \in Producers, notFull' = notFull, size' >= size + 1,
               Up \ {p} \subseteq awake' \cap Producers,
               awake' \cap Producers \subseteq Up \ {p}
        PROVE  NoLostSlot'
    <2>1. awake' \cap Producers = Up \ {p}
      BY <1>3
    <2>2. /\ Cardinality(Up \ {p}) >= Cardinality(Up) - 1
          /\ Cardinality(Up \ {p}) \in Nat
      <3>1. IsFiniteSet(Up \ {p})
        BY <1>1, FS_RemoveElement
      <3>. QED
        BY <1>1, <3>1, AwakeCount
    <2>. QED
      <3>1. ASSUME notFull # <<>>
            PROVE  Capacity - size' <= Cardinality(Up \ {p})
        <4>1. Capacity - size <= Cardinality(Up)
          BY <3>1 DEF NoLostSlot
        <4>. QED
          BY <1>1, <1>3, <2>2, <4>1
      <3>. QED
        BY <1>3, <2>1, <3>1, Zenon DEF NoLostSlot
  <1>4. /\ Signalled(notEmpty) \subseteq Consumers
        /\ Elems(notEmpty) \subseteq Consumers
        /\ Signalled(notFull) \subseteq Producers
        /\ closed => notFull = <<>>
    <2>1. notEmpty \in Seq(Consumers) /\ notFull \in Seq(Producers)
      BY DEF TypeOK
    <2>2. closed => notFull = <<>>
      BY <2>1, NobodyInLine DEF ClosedWakesAll, Waiting
    <2>. QED
      BY <2>1, <2>2, ElemsSignal, ElemsType
  <1>5. ASSUME NEW p \in Producers, ProducerStep(p)
        PROVE  NoLostSlot'
    <2>1. ASSUME NEW task \in Tasks, PushStores(p, task)
          PROVE  NoLostSlot'
      <3>1. /\ size' = size + 1
            /\ notFull' = notFull
            /\ awake' = (awake \ {p}) \cup Signalled(notEmpty)
        BY <2>1 DEF PushStores, Put, Return
      <3>. QED
        BY <1>1, <1>3, <1>4, <3>1
    <2>2. CASE PushRefused(p)
      BY <1>2, <1>4, <2>2 DEF PushRefused, Return
    <2>3. CASE PushFull(p)
      BY <1>2, <2>3 DEF PushFull, Full, ring
    <2>4. ASSUME NEW task \in Tasks, PushWaits(p, task)
          PROVE  NoLostSlot'
      BY <1>2, <2>4 DEF PushWaits, Full, ring
    <2>5. ASSUME NEW ts \in Seq(Tasks) \ {<<>>}, BatchFills(p, ts)
          PROVE  NoLostSlot'
      <3>1. PICK k \in 0..Len(ts) :
               /\ Put(ts, k)
               /\ \/ /\ k = Len(ts)
                     /\ Return(p, "nil")
                     /\ awake' = (awake \ {p}) \cup Elems(notEmpty)
                  \/ size + k = Capacity
        BY <2>5, BatchCases, Zenon
      <3>2. size' = size + k
        BY <3>1 DEF Put
      <3>3. CASE /\ k = Len(ts)
                 /\ Return(p, "nil")
                 /\ awake' = (awake \ {p}) \cup Elems(notEmpty)
        <4>1. Len(ts) >= 1
          BY <2>5
        <4>2. notFull' = notFull
          BY <3>3 DEF Return
        <4>. QED
          BY <1>1, <1>3, <1>4, <3>2, <3>3, <4>1, <4>2
      <3>4. CASE size + k = Capacity
        BY <1>2, <3>2, <3>4
      <3>. QED
        BY <3>1, <3>3, <3>4
    <2>. QED
      BY <1>5, <2>1, <2>2, <2>3, <2>4, <2>5 DEF ProducerStep
  <1>6. ASSUME NEW c \in Consumers, ConsumerStep(c)
        PROVE  NoLostSlot'
    <2>1. CASE PopTakes(c)
      <3>1. /\ size' = size - 1
            /\ notFull' = AfterSignal(notFull)
            /\ awake' = (awake \ {c}) \cup Signalled(notFull)
        BY <2>1 DEF PopTakes
      <3>2. CASE notFull = <<>>
        BY <1>2, <3>1, <3>2 DEF AfterSignal
      <3>3. CASE notFull # <<>>
        <4>1. awake' \cap Producers = Up \cup Signalled(notFull)
          BY <1>1, <1>4, <3>1
        <4>2. Up \cap Elems(notFull) = {}
          BY DEF WaitersDistinct, Waiting
        <4>3. Cardinality(awake' \cap Producers) = Cardinality(Up) + 1
          BY <1>1, <3>3, <4>1, <4>2, SignalCounts DEF TypeOK
        <4>. QED
          BY <1>1, <3>1, <3>3, <4>3 DEF NoLostSlot
      <3>. QED
        BY <3>2, <3>3
    <2>2. ASSUME awake' = awake \ {c}, UNCHANGED <<size, notFull>>
          PROVE  NoLostSlot'
      <3>1. awake' \cap Producers = Up
        BY <1>1, <2>2
      <3>. QED
        BY <2>2, <3>1 DEF NoLostSlot
    <2>. QED
      BY <1>6, <2>1, <2>2 DEF ConsumerStep, PopReturns, PopWaits, ring
  <1>7. CASE Close
    BY <1>2, <1>7 DEF Close
  <1>. QED
    BY <1>5, <1>6, <1>7 DEF Step
------------------------------------------------------------------------------
(* The invariant, and the theorems that rest on it.                        *)

(* A new queue is empty, open, and nobody waits.                           *)
LEMMA InvInit == Init => IInv
  <1>. SUFFICES ASSUME Init
                PROVE  IInv
    OBVIOUS
  <1>1. Elems(<<>>) = {}
    BY DEF Elems
  <1>2. Waiting = {}
    BY <1>1 DEF Init, Waiting
  <1>3. TypeOK
    BY CapacityAssumption, EmptySeq DEF Init, TypeOK, Slots, Answer, Errors, Callers
  <1>4. SuspendedOwes
    BY <1>2 DEF Init, SuspendedOwes, Idle
  <1>5. WaitersDistinct /\ ClosedWakesAll
    BY <1>2 DEF Init, WaitersDistinct, Distinct, ClosedWakesAll
  <1>6. RingConsistent
    <2>1. 0 \in Slots /\ Slot(0) = 0
      <3>1. 0 \in Slots /\ 0 \in 0..Capacity
        BY CapacityAssumption DEF Slots
      <3>2. (0 + 0) % Capacity = IF 0 + 0 < Capacity THEN 0 + 0 ELSE 0 + 0 - Capacity
        BY <3>1, SlotValue
      <3>. QED
        BY <3>1, <3>2, CapacityAssumption DEF Slot, Init
    <2>2. ASSUME NEW i \in 0 .. Capacity - 1
          PROVE  buffer[Slot(i)] = Nil
      <3>1. Slot(i) \in Slots
        BY CapacityAssumption DEF Init, Slot, Slots
      <3>. QED
        BY <3>1 DEF Init
    <2>. QED
      BY <2>1, <2>2, CapacityAssumption DEF Init, RingConsistent
  <1>7. NoLostWakeup /\ NoLostSlot
    BY DEF Init, NoLostWakeup, NoLostSlot
  <1>. QED
    BY <1>3, <1>4, <1>5, <1>6, <1>7 DEF IInv

(* The parts of the invariant carry each other through a step.             *)
LEMMA InvStep == IInv /\ [Next]_vars => IInv'
  <1>1. ASSUME IInv, Next
        PROVE  IInv'
    <2>1. Step
      BY <1>1, NextIsStep DEF IInv
    <2>2. TypeOK'
      BY <1>1, <2>1, TypeStep DEF IInv
    <2>. QED
      BY <1>1, <2>1, <2>2, SuspendedStep, LinesStep, RingStep, WakeStep, SlotStep
         DEF IInv
  <1>2. ASSUME IInv, UNCHANGED vars
        PROVE  IInv'
    BY <1>2 DEF IInv, vars, TypeOK, SuspendedOwes, WaitersDistinct, ClosedWakesAll,
                RingConsistent, NoLostWakeup, NoLostSlot, Idle, Waiting, Slot
  <1>. QED
    BY <1>1, <1>2

(* Whatever the capacity, the callers and the order of their calls: every  *)
(* variable keeps its type, and the ring's indices, slots and size agree   *)
(* (queue.go Push, Pop, BatchPush, Close).                                 *)
THEOREM RingQueueConsistent == Spec => []RingInvariant
  <1>1. IInv => RingInvariant
    BY DEF IInv, RingInvariant
  <1>. QED
    BY <1>1, InvInit, InvStep, PTL DEF Spec

(* Whatever the capacity, the callers and the order of their calls: no     *)
(* worker sleeps over a task and no producer beside a free slot that       *)
(* nobody awake is going to take, and nobody sleeps once Close has been    *)
(* called (the Signal and Broadcast calls of queue.go).                    *)
THEOREM RingQueueSafe == Spec => []NoLostSignal
  <1>1. IInv => NoLostSignal
    BY DEF IInv, NoLostSignal
  <1>. QED
    BY <1>1, InvInit, InvStep, PTL DEF Spec
------------------------------------------------------------------------------
(* RingQueue implements BoundedFifo.                                       *)

(* The first n slots from head, if they hold tasks, are a list of n tasks. *)
LEMMA ContentsType ==
    ASSUME NEW b \in [Slots -> Tasks \cup {Nil}], NEW h \in Slots, NEW n \in 0..Capacity,
           \A i \in 0 .. Capacity - 1 : b[(h + i) % Capacity] # Nil <=> i < n
    PROVE  /\ [i \in 1..n |-> b[(h + (i - 1)) % Capacity]] \in Seq(Tasks)
           /\ Len([i \in 1..n |-> b[(h + (i - 1)) % Capacity]]) = n
  <1>1. ASSUME NEW i \in 1..n
        PROVE  b[(h + (i - 1)) % Capacity] \in Tasks
    <2>1. i - 1 \in 0 .. Capacity - 1 /\ i - 1 < n /\ i - 1 \in 0..Capacity
      BY CapacityAssumption
    <2>2. (h + (i - 1)) % Capacity \in Slots
      BY <2>1, SlotsInjective
    <2>. QED
      BY <2>1, <2>2
  <1>2. n \in Nat
    BY CapacityAssumption
  <1>. QED
    BY <1>1, <1>2

(* What the callers see is a list of size tasks, before and after a step.  *)
LEMMA ContentsIsList ==
    /\ TypeOK /\ RingConsistent => Contents \in Seq(Tasks) /\ Len(Contents) = size
    /\ TypeOK' /\ RingConsistent' => Contents' \in Seq(Tasks) /\ Len(Contents') = size'
  <1>1. ASSUME TypeOK, RingConsistent
        PROVE  Contents \in Seq(Tasks) /\ Len(Contents) = size
    BY <1>1, ContentsType DEF TypeOK, RingConsistent, Contents, Slot
  <1>2. ASSUME TypeOK', RingConsistent'
        PROVE  Contents' \in Seq(Tasks) /\ Len(Contents') = size'
    BY <1>2, ContentsType DEF TypeOK, RingConsistent, Contents, Slot
  <1>. QED
    BY <1>1, <1>2

(* Put appends to what the callers see.                                    *)
LEMMA PutContents ==
    ASSUME TypeOK, TypeOK', RingConsistent, NEW ts \in Seq(Tasks), NEW k \in 0..Len(ts),
           size + k <= Capacity, Put(ts, k)
    PROVE  Contents' = Contents \o SubSeq(ts, 1, k)
  <1>1. RingConsistent'
    BY PutRing
  <1>2. /\ Contents \in Seq(Tasks) /\ Len(Contents) = size
        /\ \A i \in 1..size : Contents[i] = buffer[Slot(i - 1)]
    BY ContentsIsList DEF Contents
  <1>3. /\ Contents' \in Seq(Tasks) /\ Len(Contents') = size + k
        /\ \A i \in 1 .. size + k : Contents'[i] = buffer'[Slot(i - 1)]
    <2>1. size' = size + k /\ head' = head
      BY DEF Put
    <2>2. Contents' = [i \in 1 .. size + k |-> buffer'[Slot(i - 1)]]
      BY <2>1 DEF Contents, Slot
    <2>3. Contents' \in Seq(Tasks) /\ Len(Contents') = size'
      BY <1>1, ContentsIsList
    <2>. QED
      BY <2>1, <2>2, <2>3
  <1>4. /\ SubSeq(ts, 1, k) \in Seq(Tasks)
        /\ Len(SubSeq(ts, 1, k)) = k
        /\ \A i \in 1..k : SubSeq(ts, 1, k)[i] = ts[i]
    OBVIOUS
  <1>5. size \in 0..Capacity /\ k \in Nat /\ Capacity \in Nat
    BY CapacityAssumption DEF TypeOK
  <1>. DEFINE whole == Contents \o SubSeq(ts, 1, k)
  <1>6. /\ whole \in Seq(Tasks) /\ Len(whole) = size + k
        /\ \A i \in 1 .. size + k :
              whole[i] = IF i <= size THEN Contents[i] ELSE SubSeq(ts, 1, k)[i - size]
    <2>. DEFINE first == SubSeq(ts, 1, k)
    <2>. HIDE DEF Contents, first
    <2>1. first \in Seq(Tasks) /\ Len(first) = k
      BY <1>4 DEF first
    <2>2. /\ Contents \o first \in Seq(Tasks)
          /\ Len(Contents \o first) = Len(Contents) + Len(first)
          /\ \A i \in 1 .. Len(Contents) + Len(first) :
                (Contents \o first)[i] = IF i <= Len(Contents) THEN Contents[i]
                                         ELSE first[i - Len(Contents)]
      BY <1>2, <2>1, ConcatProperties
    <2>. QED
      BY <1>2, <2>1, <2>2 DEF first
  <1>7. ASSUME NEW i \in 1 .. size + k
        PROVE  Contents'[i] = whole[i]
    <2>1. i - 1 \in 0 .. Capacity - 1
      BY <1>5
    <2>2. buffer'[Slot(i - 1)] = IF size <= i - 1 /\ i - 1 < size + k
                                 THEN ts[(i - 1) - size + 1] ELSE buffer[Slot(i - 1)]
      BY <2>1, PutRing
    <2>3. CASE i <= size
      <3>1. ~(size <= i - 1) /\ i \in 1..size
        BY <1>5, <2>3
      <3>. QED
        BY <1>2, <1>3, <1>6, <2>2, <2>3, <3>1
    <2>4. CASE ~(i <= size)
      <3>1. /\ size <= i - 1 /\ i - 1 < size + k
            /\ (i - 1) - size + 1 = i - size
            /\ i - size \in 1..k
        BY <1>5, <2>4
      <3>. QED
        BY <1>3, <1>4, <1>6, <2>2, <2>4, <3>1
    <2>. QED
      BY <2>3, <2>4
  <1>. HIDE DEF Contents, whole
  <1>8. Contents' = whole
    BY <1>3, <1>5, <1>6, <1>7
  <1>. QED
    BY <1>8 DEF whole

(* Pop takes the oldest of what the callers see.                           *)
LEMMA TakeContents ==
    ASSUME TypeOK, TypeOK', RingConsistent, NEW c \in Consumers, PopTakes(c)
    PROVE  /\ Contents # <<>>
           /\ Contents' = Tail(Contents)
           /\ Head(Contents) = buffer[head]
  <1>1. RingConsistent' /\ size' = size - 1 /\ size > 0
    BY TakeRing DEF PopTakes
  <1>2. /\ Contents \in Seq(Tasks) /\ Len(Contents) = size
        /\ \A i \in 1..size : Contents[i] = buffer[Slot(i - 1)]
    BY ContentsIsList DEF Contents
  <1>3. size \in 0..Capacity /\ Capacity \in Nat /\ head \in Slots
    BY CapacityAssumption DEF TypeOK
  <1>4. ASSUME NEW i \in 1 .. size - 1
        PROVE  buffer'[Slot(i - 1)'] = Contents[i + 1]
    <2>1. i - 1 \in 0 .. Capacity - 2 /\ (i - 1) + 1 = i /\ i + 1 \in 1..size /\ (i + 1) - 1 = i
      BY <1>3
    <2>2. buffer'[Slot(i - 1)'] = buffer[Slot((i - 1) + 1)]
      BY <2>1, TakeRing
    <2>3. Contents[i + 1] = buffer[Slot((i + 1) - 1)]
      BY <1>2, <2>1
    <2>. QED
      BY <2>1, <2>2, <2>3
  <1>5. /\ Contents' \in Seq(Tasks) /\ Len(Contents') = size - 1
        /\ \A i \in 1 .. size - 1 : Contents'[i] = Contents[i + 1]
    <2>1. Contents' = [i \in 1 .. size - 1 |-> buffer'[Slot(i - 1)']]
      BY <1>1 DEF Contents, Slot
    <2>2. Contents' \in Seq(Tasks) /\ Len(Contents') = size'
      BY <1>1, ContentsIsList
    <2>. QED
      BY <1>1, <1>4, <2>1, <2>2
  <1>6. Contents[1] = buffer[head]
    <2>1. 0 \in 0..Capacity /\ 1 \in 1..size /\ 1 - 1 = 0
      BY <1>1, <1>3
    <2>2. Slot(0) = IF head + 0 < Capacity THEN head + 0 ELSE head + 0 - Capacity
      BY <1>3, <2>1, SlotValue DEF Slot
    <2>3. Slot(0) = head
      BY <1>3, <2>2 DEF Slots
    <2>. QED
      BY <1>2, <2>1, <2>3
  <1>. HIDE DEF Contents
  <1>7. Contents # <<>>
    BY <1>1, <1>2
  <1>8. /\ Tail(Contents) \in Seq(Tasks) /\ Len(Tail(Contents)) = size - 1
        /\ \A i \in 1 .. size - 1 : Tail(Contents)[i] = Contents[i + 1]
        /\ Head(Contents) = Contents[1]
    BY <1>1, <1>2, <1>3, <1>7
  <1>9. Contents' = Tail(Contents)
    BY <1>3, <1>5, <1>8
  <1>. QED
    BY <1>6, <1>7, <1>8, <1>9

(* A step that leaves the ring alone does not change what the callers see. *)
LEMMA RingUnchanged ==
    ASSUME UNCHANGED ring
    PROVE  Contents' = Contents
  BY DEF ring, Contents, Slot

(* A stretch that stores the first k tasks of ts is a Store of the FIFO.   *)
LEMMA StoreImplemented ==
    ASSUME IInv, IInv', NEW p \in Producers, NEW ts \in Seq(Tasks), NEW k \in 0..Len(ts),
           size + k <= Capacity, Put(ts, k), closed' = closed,
           \/ k = Len(ts) /\ Return(p, "nil")
           \/ k < Len(ts) /\ closed /\ Return(p, "ErrQueueClosed")
           \/ k < Len(ts) /\ WaitNotFull(p, SubSeq(ts, k + 1, Len(ts)))
    PROVE  Fifo!Store(p, ts, k)
  <1>1. Contents' = Contents \o SubSeq(ts, 1, k)
    BY PutContents DEF IInv
  <1>2. Len(Contents) + k <= Capacity
    BY ContentsIsList DEF IInv
  <1>3. \/ /\ k = Len(ts)
           /\ pending' = [pending EXCEPT ![p] = <<>>]
           /\ answer' = Fifo!Answer(p, "nil", Nil)
        \/ /\ k < Len(ts)
           /\ pending' = [pending EXCEPT ![p] = SubSeq(ts, k + 1, Len(ts))]
           /\ answer' = answer
        \/ /\ k < Len(ts)
           /\ closed
           /\ pending' = [pending EXCEPT ![p] = <<>>]
           /\ answer' = Fifo!Answer(p, "ErrQueueClosed", Nil)
    BY Zenon DEF Return, WaitNotFull, Answer, Fifo!Answer
  <1>. QED
    BY <1>1, <1>2, <1>3, Zenon DEF Fifo!Store

(* A call that returns an error without storing is a Refuse of the FIFO.   *)
LEMMA RefuseImplemented ==
    ASSUME NEW p \in Producers, NEW err, Return(p, err), UNCHANGED <<ring, closed>>
    PROVE  Fifo!Refuse(p, err)
  BY RingUnchanged, Zenon DEF Return, Answer, Fifo!Answer, Fifo!Refuse

(* Push asks for a list of one task, BatchPush for the lists of its sizes. *)
LEMMA ListsImplemented ==
    /\ Lists \subseteq Fifo!Lists
    /\ \A task \in Tasks : <<task>> \in Fifo!Lists
  <1>1. ASSUME NEW task \in Tasks
        PROVE  <<task>> \in [1..1 -> Tasks]
    OBVIOUS
  <1>. QED
    BY <1>1, Zenon DEF Lists, Fifo!Lists

(* A Push that finds the lock free is a call of the FIFO, also if it       *)
(* waits.                                                                  *)
LEMMA PushImplemented ==
    ASSUME IInv, IInv', NEW p \in Producers, NEW task \in Tasks, NEW blocking \in BOOLEAN,
           Push(p, task, blocking)
    PROVE  Fifo!NewCall(p)
  <1>1. /\ pending[p] = <<>>
        /\ <<task>> \in Fifo!Lists
        /\ <<task>> \in Seq(Tasks)
        /\ Len(<<task>>) = 1
        /\ size + 0 <= Capacity /\ size + 0 = size
    BY ListsImplemented, CapacityAssumption DEF Push, IInv, SuspendedOwes, TypeOK
  <1>2. CASE PushStores(p, task)
    <2>1. /\ ~closed
          /\ closed' = closed
          /\ Put(<<task>>, 1)
          /\ Return(p, "nil")
      BY <1>2 DEF PushStores
    <2>2. size + 1 <= Capacity /\ 1 \in 0..Len(<<task>>)
      BY <1>1, <1>2, CapacityAssumption DEF PushStores, Full, IInv, TypeOK
    <2>3. Fifo!Store(p, <<task>>, 1)
      BY <1>1, <2>1, <2>2, StoreImplemented, Zenon
    <2>. QED
      BY <1>1, <2>1, <2>2, <2>3, Zenon DEF Fifo!NewCall
  <1>3. CASE PushRefused(p)
    BY <1>1, <1>3, RefuseImplemented, Zenon DEF PushRefused, Fifo!NewCall
  <1>4. CASE PushFull(p)
    <2>1. Len(Contents) = Capacity
      BY <1>4, ContentsIsList DEF PushFull, Full, IInv
    <2>. QED
      BY <1>1, <1>4, <2>1, RefuseImplemented, Zenon DEF PushFull, Fifo!NewCall
  <1>5. CASE PushWaits(p, task)
    <2>1. /\ ~closed
          /\ closed' = closed
          /\ UNCHANGED ring
          /\ WaitNotFull(p, <<task>>)
      BY <1>5 DEF PushWaits
    <2>2. /\ SubSeq(<<task>>, 1, 0) = <<>>
          /\ SubSeq(<<task>>, 0 + 1, Len(<<task>>)) = <<task>>
          /\ 0 \in 0..Len(<<task>>)
          /\ 0 < Len(<<task>>)
      <3>1. SubSeq(<<task>>, 1, 0) = <<>>
        BY SubSeqEmpty
      <3>2. SubSeq(<<task>>, 1, Len(<<task>>)) = <<task>>
        BY <1>1, SubSeqFull, Zenon
      <3>3. 0 + 1 = 1 /\ 0 \in 0..1 /\ 0 < 1
        OBVIOUS
      <3>. QED
        BY <1>1, <3>1, <3>2, <3>3, Zenon
    <2>3. Contents' = Contents \o <<>>
      BY <2>1, RingUnchanged, ContentsIsList, ConcatEmptySeq DEF IInv
    <2>4. Len(Contents) + 0 <= Capacity
      BY <1>1, ContentsIsList DEF IInv
    <2>5. Fifo!Store(p, <<task>>, 0)
      BY <1>1, <2>1, <2>2, <2>3, <2>4, Zenon DEF Fifo!Store, WaitNotFull
    <2>. QED
      BY <1>1, <2>1, <2>2, <2>5, Zenon DEF Fifo!NewCall
  <1>. QED
    BY <1>2, <1>3, <1>4, <1>5 DEF Push

(* A woken Push stores its task, gives up, or goes back to sleep unseen.   *)
LEMMA PushResumeImplemented ==
    ASSUME IInv, IInv', NEW p \in Producers, PushResumes(p)
    PROVE  Fifo!GoOn(p) \/ UNCHANGED Fifo!vars
  <1>. DEFINE ts == pending[p]
  <1>1. /\ ts # <<>>
        /\ ts \in Seq(Tasks)
        /\ Len(ts) = 1
    <2>1. ts # <<>> /\ Len(ts) <= 1
      BY DEF PushResumes, IInv, SuspendedOwes, Idle
    <2>2. ts \in Seq(Tasks)
      BY DEF IInv, TypeOK
    <2>. HIDE DEF ts
    <2>3. Len(ts) \in Nat /\ (Len(ts) = 0 => ts = <<>>)
      BY <2>2
    <2>4. Len(ts) = 1
      BY <2>1, <2>3
    <2>. QED
      BY <2>1, <2>2, <2>4
  <1>. HIDE DEF ts
  <1>2. ts = <<Head(ts)>>
    BY <1>1
  <1>3. CASE PushStores(p, Head(ts))
    <2>1. /\ closed' = closed
          /\ Put(ts, 1)
          /\ Return(p, "nil")
      BY <1>2, <1>3, Zenon DEF PushStores
    <2>2. size + 1 <= Capacity /\ 1 \in 0..Len(ts) /\ 1 \in 1..Len(ts)
      BY <1>1, <1>3, CapacityAssumption DEF PushStores, Full, IInv, TypeOK
    <2>3. Fifo!Store(p, ts, 1)
      BY <1>1, <2>1, <2>2, StoreImplemented, Zenon
    <2>. QED
      BY <1>1, <2>2, <2>3, Zenon DEF Fifo!GoOn, ts
  <1>4. CASE PushRefused(p)
    BY <1>1, <1>4, RefuseImplemented, Zenon DEF PushRefused, Fifo!GoOn, ts
  <1>5. CASE PushWaits(p, Head(ts))
    <2>1. /\ UNCHANGED <<ring, closed, answer>>
          /\ pending' = [pending EXCEPT ![p] = ts]
      BY <1>2, <1>5, Zenon DEF PushWaits, WaitNotFull
    <2>2. pending' = pending
      BY <2>1 DEF ts, IInv, TypeOK
    <2>. QED
      BY <2>1, <2>2, RingUnchanged DEF Fifo!vars
  <1>. QED
    BY <1>3, <1>4, <1>5 DEF PushResumes, ts

(* A stretch of BatchPush stores some of its tasks, and none only if it    *)
(* waits.                                                                  *)
LEMMA BatchImplemented ==
    ASSUME IInv, IInv', NEW p \in Producers, NEW ts \in Seq(Tasks) \ {<<>>}, BatchFills(p, ts)
    PROVE  /\ closed' = closed
           /\ \E k \in 0..Len(ts) :
                 /\ Fifo!Store(p, ts, k)
                 /\ k = 0 => \/ closed /\ Fifo!Refuse(p, "ErrQueueClosed")
                             \/ Contents' = Contents /\ answer' = answer
                                /\ pending' = [pending EXCEPT ![p] = ts]
  <1>1. PICK k \in 0..Len(ts) :
           /\ size + k <= Capacity
           /\ Put(ts, k)
           /\ closed' = closed
           /\ \/ k = Len(ts) /\ Return(p, "nil")
              \/ k < Len(ts) /\ closed /\ Return(p, "ErrQueueClosed")
              \/ k < Len(ts) /\ WaitNotFull(p, SubSeq(ts, k + 1, Len(ts)))
    BY BatchCases, Zenon DEF IInv
  <1>2. Fifo!Store(p, ts, k)
    BY <1>1, StoreImplemented, Zenon
  <1>3. ASSUME k = 0
        PROVE  \/ closed /\ Fifo!Refuse(p, "ErrQueueClosed")
               \/ Contents' = Contents /\ answer' = answer
                  /\ pending' = [pending EXCEPT ![p] = ts]
    <2>1. Contents' = Contents
      <3>1. SubSeq(ts, 1, 0) = <<>>
        BY SubSeqEmpty
      <3>2. Contents' = Contents \o SubSeq(ts, 1, k)
        BY <1>1, PutContents DEF IInv
      <3>3. Contents \in Seq(Tasks)
        BY ContentsIsList DEF IInv
      <3>4. Contents \o <<>> = Contents
        BY <3>3, ConcatEmptySeq
      <3>. QED
        BY <1>3, <3>1, <3>2, <3>4, Zenon
    <2>2. Len(ts) # 0
      OBVIOUS
    <2>3. SubSeq(ts, 0 + 1, Len(ts)) = ts
      <3>1. 0 + 1 = 1
        OBVIOUS
      <3>. QED
        BY <3>1, SubSeqFull, Zenon
    <2>4. CASE closed /\ Return(p, "ErrQueueClosed")
      BY <1>1, <2>1, <2>4, Zenon DEF Fifo!Refuse, Return, Answer, Fifo!Answer
    <2>5. CASE WaitNotFull(p, SubSeq(ts, k + 1, Len(ts)))
      BY <1>3, <2>1, <2>3, <2>5, Zenon DEF WaitNotFull
    <2>. QED
      BY <1>1, <1>3, <2>2, <2>4, <2>5
  <1>. QED
    BY <1>1, <1>2, <1>3, Zenon

(* A stretch of Pop takes the oldest task, reports, or waits unseen.       *)
LEMMA PopImplemented ==
    ASSUME IInv, IInv', NEW c \in Consumers,
           \/ PopTakes(c)
           \/ closed /\ PopReturns(c, "ErrQueueClosed")
           \/ ~closed /\ PopReturns(c, "nil")
           \/ PopWaits(c)
    PROVE  Fifo!Take(c) \/ Fifo!TakeNothing(c) \/ UNCHANGED Fifo!vars
  <1>1. CASE PopTakes(c)
    <2>1. /\ Contents # <<>>
          /\ Contents' = Tail(Contents)
          /\ Head(Contents) = buffer[head]
      BY <1>1, TakeContents DEF IInv
    <2>2. /\ answer' = Answer(c, "nil", buffer[head])
          /\ UNCHANGED <<closed, pending>>
      BY <1>1 DEF PopTakes
    <2>. QED
      BY <2>1, <2>2, Zenon DEF Fifo!Take, Answer, Fifo!Answer
  <1>2. ASSUME NEW err \in {"nil", "ErrQueueClosed"}, PopReturns(c, err),
               err = "ErrQueueClosed" <=> closed
        PROVE  Fifo!TakeNothing(c)
    <2>1. /\ size = 0
          /\ answer' = Answer(c, err, Nil)
          /\ UNCHANGED <<ring, closed, pending>>
      BY <1>2 DEF PopReturns
    <2>2. Contents \in Seq(Tasks) /\ Len(Contents) = 0
      BY <2>1, ContentsIsList DEF IInv
    <2>3. Contents = <<>>
      <3>. HIDE DEF Contents
      <3>. QED
        BY <2>2
    <2>. QED
      BY <1>2, <2>1, <2>3, RingUnchanged, Zenon DEF Fifo!TakeNothing, Answer, Fifo!Answer
  <1>3. CASE PopWaits(c)
    BY <1>3, RingUnchanged DEF PopWaits, Fifo!vars
  <1>. QED
    BY <1>1, <1>2, <1>3

(* Every step of the ring queue is a step of the FIFO buffer, or one that  *)
(* its callers cannot see: a caller going back to sleep.                   *)
LEMMA FifoStep ==
    ASSUME IInv, IInv', [Next]_vars
    PROVE  [Fifo!Next]_(Fifo!vars)
  <1>1. ASSUME NEW p \in Producers, NEW task \in Tasks, NEW blocking \in BOOLEAN,
               Push(p, task, blocking)
        PROVE  Fifo!Next
    BY <1>1, PushImplemented, Zenon DEF Fifo!Next
  <1>2. ASSUME NEW p \in Producers, NEW ts \in Lists, BatchPush(p, ts)
        PROVE  Fifo!Next
    <2>1. pending[p] = <<>>
      BY <1>2 DEF BatchPush, IInv, SuspendedOwes
    <2>2. CASE PushRefused(p)
      BY <2>1, <2>2, RefuseImplemented, Zenon DEF PushRefused, Fifo!NewCall, Fifo!Next
    <2>3. CASE ~closed /\ BatchFills(p, ts)
      <3>1. \E k \in 0..Len(ts) : Fifo!Store(p, ts, k)
        BY <2>3, BatchImplemented, ListsAreSequences, Zenon
      <3>2. ts \in Fifo!Lists
        BY ListsImplemented
      <3>. QED
        BY <2>1, <2>3, <3>1, <3>2, Zenon DEF Fifo!NewCall, Fifo!Next
    <2>. QED
      BY <1>2, <2>2, <2>3 DEF BatchPush
  <1>3. ASSUME NEW p \in Producers, PushResumes(p)
        PROVE  Fifo!Next \/ UNCHANGED Fifo!vars
    BY <1>3, PushResumeImplemented, Zenon DEF Fifo!Next
  <1>4. ASSUME NEW p \in Producers, BatchResumes(p)
        PROVE  Fifo!Next \/ UNCHANGED Fifo!vars
    <2>. DEFINE ts == pending[p]
    <2>1. ts # <<>> /\ ts \in Seq(Tasks) /\ pending \in [Producers -> Seq(Tasks)]
      BY <1>4 DEF BatchResumes, IInv, SuspendedOwes, Idle, TypeOK
    <2>. HIDE DEF ts
    <2>2. /\ closed' = closed
          /\ \E k \in 0..Len(ts) :
                /\ Fifo!Store(p, ts, k)
                /\ k = 0 => \/ closed /\ Fifo!Refuse(p, "ErrQueueClosed")
                            \/ Contents' = Contents /\ answer' = answer
                               /\ pending' = [pending EXCEPT ![p] = ts]
      BY <1>4, <2>1, BatchImplemented, Zenon DEF BatchResumes, ts
    <2>3. PICK k \in 0..Len(ts) :
                /\ Fifo!Store(p, ts, k)
                /\ k = 0 => \/ closed /\ Fifo!Refuse(p, "ErrQueueClosed")
                            \/ Contents' = Contents /\ answer' = answer
                               /\ pending' = [pending EXCEPT ![p] = ts]
      BY <2>2
    <2>4. CASE k # 0
      <3>1. k \in 1..Len(ts)
        BY <2>1, <2>4
      <3>. QED
        BY <2>1, <2>3, <3>1, Zenon DEF Fifo!GoOn, Fifo!Next, ts
    <2>5. CASE k = 0 /\ closed /\ Fifo!Refuse(p, "ErrQueueClosed")
      BY <2>1, <2>5, Zenon DEF Fifo!GoOn, Fifo!Next, ts
    <2>6. CASE Contents' = Contents /\ answer' = answer
               /\ pending' = [pending EXCEPT ![p] = ts]
      <3>1. pending' = pending
        BY <2>1, <2>6 DEF ts
      <3>. QED
        BY <2>2, <2>6, <3>1, Zenon DEF Fifo!vars
    <2>. QED
      BY <2>3, <2>4, <2>5, <2>6, Zenon
  <1>5. ASSUME NEW c \in Consumers, NEW blocking \in BOOLEAN, Pop(c, blocking)
        PROVE  Fifo!Next \/ UNCHANGED Fifo!vars
    BY <1>5, PopImplemented, Zenon DEF Pop, Fifo!Next
  <1>6. ASSUME NEW c \in Consumers, PopResumes(c)
        PROVE  Fifo!Next \/ UNCHANGED Fifo!vars
    BY <1>6, PopImplemented, Zenon DEF PopResumes, Fifo!Next
  <1>7. CASE Close
    BY <1>7, RingUnchanged, Zenon DEF Close, Fifo!Shut, Fifo!Next
  <1>8. CASE UNCHANGED vars
    BY <1>8, RingUnchanged DEF vars, ring, Fifo!vars
  <1>. QED
    BY <1>1, <1>2, <1>3, <1>4, <1>5, <1>6, <1>7, <1>8 DEF Next

(* A new ring is an empty FIFO.                                            *)
LEMMA FifoInit == IInv /\ Init => Fifo!Init
  <1>. SUFFICES ASSUME IInv, Init
                PROVE  Fifo!Init
    OBVIOUS
  <1>1. Contents \in Seq(Tasks) /\ Len(Contents) = 0
    BY ContentsIsList DEF IInv, Init
  <1>2. Contents = <<>>
    <2>. HIDE DEF Contents
    <2>. QED
      BY <1>1
  <1>. QED
    BY <1>2, Zenon DEF Init, Fifo!Init, Answer, Fifo!Answer

(* The ring queue is the bounded FIFO buffer its callers expect: a task    *)
(* accepted by Push or BatchPush is handed to exactly one Pop, in the      *)
(* order of acceptance, at most Capacity tasks are held, Push refuses an   *)
(* open queue only when it is full, and Pop reports ErrQueueClosed only    *)
(* when nothing is left (queue.go Push, BatchPush, Pop, Close).            *)
THEOREM RingQueueRefinesFifo == Spec => RefinesFifo
  <1>1. Init => Fifo!Init
    BY InvInit, FifoInit
  <1>2. IInv /\ IInv' /\ [Next]_vars => [Fifo!Next]_(Fifo!vars)
    BY FifoStep
  <1>3. Spec => []IInv
    BY InvInit, InvStep, PTL DEF Spec
  <1>. QED
    BY <1>1, <1>2, <1>3, PTL DEF Spec, RefinesFifo, Fifo!Spec
==============================================================================
