-------------------------- MODULE PriorityQueueProofs --------------------------
(* What PriorityQueue promises of its buckets, of totalSize and of what is *)
(* left when the workers leave, for every number and size of buckets and   *)
(* every set of tasks, producers and consumers, with the proofs.           *)
EXTENDS PriorityQueue, TLAPS, FiniteSetTheorems, SequenceTheorems

(* What the fields hold. *)
BucketShape ==
    /\ bucket \in [Buckets -> Seq(Tasks)]
    /\ \A b \in Buckets : Len(bucket[b]) <= BucketCapacity
    /\ shut \subseteq Buckets
CountShape ==
    /\ closed \in BOOLEAN
    /\ totalSize \in Int
    /\ consumeCount \in 0..StarvationN
    /\ mu \in Consumers \cup {Nobody, Closer}
    /\ quit \subseteq Consumers
PutRecords == [at : {"idle", "push", "bucket", "add", "signal", "broadcast"},
               tasks : Seq(Tasks), batch : BOOLEAN, blocking : BOOLEAN]
PutShape ==
    /\ put \in [Producers -> PutRecords]
    /\ \A p \in Producers : put[p].tasks = <<>> => put[p].at \in {"idle", "broadcast"}
PopRecords == [at : {"idle", "top", "again", "wait", "asleep", "count", "scan", "sub"},
               blocking : BOOLEAN, forced : BOOLEAN,
               next : -1 .. BucketCount, task : Tasks \cup {NoTask}]
PopShape == pop \in [Consumers -> PopRecords]

(* Who waits in line sleeps, and waits there once. *)
Line ==
    /\ notEmpty \in Seq(Consumers)
    /\ \A i \in 1..Len(notEmpty) : pop[notEmpty[i]].at = "asleep"
    /\ \A i, j \in 1..Len(notEmpty) : notEmpty[i] = notEmpty[j] => i = j

(* No two places in the lists of the producers hold the same task, and     *)
(* what a producer has still to store is in no bucket and with no consumer. *)
Held(c, t) == pop[c].task = t
ToStore(p, i) == i > 1 \/ put[p].at \in {"push", "bucket"}
Handed ==
    /\ \A p, q \in Producers : \A i \in 1..Len(put[p].tasks), j \in 1..Len(put[q].tasks) :
          put[p].tasks[i] = put[q].tasks[j] => p = q /\ i = j
    /\ \A p \in Producers : \A i \in 1..Len(put[p].tasks) : ToStore(p, i) =>
          /\ \A b \in Buckets : \A j \in 1..Len(bucket[b]) : bucket[b][j] # put[p].tasks[i]
          /\ \A c \in Consumers : ~Held(c, put[p].tasks[i])

IInv ==
    /\ BucketShape /\ CountShape /\ PutShape /\ PopShape
    /\ Line /\ Handed /\ TotalCounts /\ TaskInItsBucket

------------------------------------------------------------------------------
LEMMA PlacesFinite ==
  /\ IsFiniteSet(Buckets) /\ Cardinality(Buckets) = BucketCount
  /\ IsFiniteSet(Places) /\ Sizes \in Nat
  <1>1. IsFiniteSet(Buckets) /\ Cardinality(Buckets) = BucketCount
    <2>1. 0 \in Int /\ BucketCount - 1 \in Int /\ BucketCount \in Nat \ {0}
      BY BucketAssumption
    <2>2. IsFiniteSet(0..BucketCount - 1) /\ Cardinality(0..BucketCount - 1) = BucketCount
      BY <2>1, FS_Interval
    <2>. QED
      BY <2>2 DEF Buckets
  <1>2. IsFiniteSet(1..BucketCapacity)
    BY FS_Interval, BucketAssumption
  <1>3. IsFiniteSet(Places)
    BY <1>1, <1>2, FS_Product, FS_Subset DEF Places
  <1>. QED
    BY <1>1, <1>3, FS_CardinalityType DEF Sizes

(* Where a task belongs. *)
LEMMA BucketOf ==
  ASSUME NEW t \in Tasks
  PROVE  /\ BucketIdx(t) \in Buckets
         /\ BucketIdx(t) = IF Priority[t] < PriorityRange * (BucketCount - 1)
                           THEN Priority[t] \div PriorityRange ELSE BucketCount - 1
  <1>. DEFINE P == Priority[t]
              R == PriorityRange
              B == BucketCount
              q == P \div R
              r == P % R
  <1>1. P \in Nat /\ R \in Nat \ {0} /\ B \in Nat \ {0}
    BY BucketAssumption
  <1>2. q \in Nat /\ r \in Nat /\ r < R /\ P = R * q + r
    BY <1>1
  <1>. HIDE DEF P, R, B, q, r
  <1>3. q < B - 1 <=> P < R * (B - 1)
    <2>1. ASSUME q < B - 1 PROVE P < R * (B - 1)
      <3>1. R * (q + 1) <= R * (B - 1)
        BY <1>1, <1>2, <2>1
      <3>2. R * (q + 1) = R * q + R
        BY <1>1, <1>2
      <3>3. R * (q + 1) \in Int /\ R * q \in Int /\ R * (B - 1) \in Int
        BY <1>1, <1>2
      <3>. QED
        BY <1>1, <1>2, <3>1, <3>2, <3>3
    <2>2. ASSUME ~(q < B - 1) PROVE ~(P < R * (B - 1))
      <3>1. R * (B - 1) <= R * q /\ R * (B - 1) \in Int /\ R * q \in Int
        BY <1>1, <1>2, <2>2
      <3>. QED
        BY <1>1, <1>2, <3>1
    <2>. QED
      BY <2>1, <2>2
  <1>. USE DEF P, R, B, q
  <1>4. BucketIdx(t) = IF q >= B THEN B - 1 ELSE q
    BY DEF BucketIdx
  <1>. HIDE DEF q
  <1>. QED
    BY <1>1, <1>2, <1>3, <1>4 DEF Buckets

LEMMA Counting ==
  ASSUME NEW S, IsFiniteSet(S), NEW x
  PROVE  /\ Cardinality(S) \in Nat
         /\ x \notin S => Cardinality(S \cup {x}) = Cardinality(S) + 1
         /\ x \in S => Cardinality(S \ {x}) = Cardinality(S) - 1
  BY FS_CardinalityType, FS_AddElement, FS_RemoveElement

LEMMA CallersFinite == \A at : IsFiniteSet(Putting(at)) /\ IsFiniteSet(Popping(at))
  BY CallersAssumption, FS_Subset DEF Putting, Popping

LEMMA Indices ==
  ASSUME BucketShape, PutShape, PopShape, Line
  PROVE  /\ \A b \in Buckets : /\ bucket[b] \in Seq(Tasks) /\ Len(bucket[b]) \in Nat
                               /\ DOMAIN bucket[b] = 1..Len(bucket[b])
                               /\ \A i \in 1..Len(bucket[b]) : bucket[b][i] \in Tasks
         /\ \A p \in Producers : /\ put[p] \in PutRecords /\ Len(put[p].tasks) \in Nat
                                 /\ DOMAIN put[p].tasks = 1..Len(put[p].tasks)
                                 /\ \A i \in 1..Len(put[p].tasks) : put[p].tasks[i] \in Tasks
         /\ \A c \in Consumers : pop[c] \in PopRecords
         /\ Len(notEmpty) \in Nat
         /\ \A i \in 1..Len(notEmpty) : notEmpty[i] \in Consumers
  <1>1. \A p \in Producers : put[p] \in PutRecords /\ put[p].tasks \in Seq(Tasks)
    BY DEF PutShape, PutRecords
  <1>2. \A b \in Buckets : bucket[b] \in Seq(Tasks)
    BY DEF BucketShape
  <1>3. notEmpty \in Seq(Consumers) /\ \A c \in Consumers : pop[c] \in PopRecords
    BY DEF Line, PopShape
  <1>4. ASSUME NEW S, NEW s \in Seq(S)
        PROVE  /\ Len(s) \in Nat /\ DOMAIN s = 1..Len(s)
               /\ \A i \in 1..Len(s) : s[i] \in S
    BY LenProperties, ElementOfSeq
  <1>. QED
    BY <1>1, <1>2, <1>3, <1>4

(* A step that touches neither buckets nor counter, moves no one between a *)
(* bucket and the counter, and puts no task in a consumer's hands.         *)
SameTasks == \A c \in Consumers : pop'[c].task \in {pop[c].task, NoTask}
LEMMA NeutralKeeps ==
  ASSUME IInv, UNCHANGED <<bucket, totalSize>>,
         Putting("add")' = Putting("add"), Popping("sub")' = Popping("sub"), SameTasks
  PROVE  TotalCounts' /\ TaskInItsBucket'
  <1>1. TotalCounts'
    BY DEF IInv, TotalCounts, Sizes, Places
  <1>2. \A b \in Buckets : \A i \in DOMAIN bucket[b] : bucket[b][i] # NoTask
    BY Indices, CallersAssumption DEF IInv
  <1>3. TaskInItsBucket'
    BY <1>2 DEF IInv, TaskInItsBucket, SameTasks
  <1>. QED
    BY <1>1, <1>3

(* A producer goes on with its list, or with what follows its first task.  *)
LEMMA PutKeeps ==
  ASSUME IInv, NEW p \in Producers, NEW x \in PutRecords, NEW d \in {0, 1},
         x.tasks = <<>> => x.at \in {"idle", "broadcast"},
         \A i \in 1..Len(x.tasks) :
            /\ i + d \in 1..Len(put[p].tasks)
            /\ x.tasks[i] = put[p].tasks[i + d]
            /\ i > 1 \/ x.at \in {"push", "bucket"} => ToStore(p, i + d),
         put' = [put EXCEPT ![p] = x], UNCHANGED bucket, SameTasks
  PROVE  PutShape' /\ Handed'
  <1>1. PutShape'
    BY DEF IInv, PutShape
  <1>2. put'[p] = x /\ \A q \in Producers : q # p => put'[q] = put[q]
    BY DEF IInv, PutShape
  <1>3. \A q, r \in Producers : \A i \in 1..Len(put'[q].tasks), j \in 1..Len(put'[r].tasks) :
           put'[q].tasks[i] = put'[r].tasks[j] => q = r /\ i = j
    <2>. SUFFICES ASSUME NEW q \in Producers, NEW r \in Producers,
                         NEW i \in 1..Len(put'[q].tasks), NEW j \in 1..Len(put'[r].tasks),
                         put'[q].tasks[i] = put'[r].tasks[j]
                  PROVE  q = r /\ i = j
      OBVIOUS
    <2>1. CASE q = p /\ r = p
      BY <1>2, <2>1 DEF IInv, Handed
    <2>2. CASE q # p /\ r # p
      BY <1>2, <2>2 DEF IInv, Handed
    <2>3. CASE q = p /\ r # p
      BY <1>2, <2>3 DEF IInv, Handed
    <2>4. CASE q # p /\ r = p
      BY <1>2, <2>4, SMTT(30) DEF IInv, Handed
    <2>. QED
      BY <2>1, <2>2, <2>3, <2>4
  <1>4. Len(x.tasks) \in Nat
    BY LenProperties DEF PutRecords
  <1>5. ASSUME NEW q \in Producers, NEW i \in 1..Len(put'[q].tasks), ToStore(q, i)'
        PROVE  \E j \in 1..Len(put[q].tasks) : put[q].tasks[j] = put'[q].tasks[i] /\ ToStore(q, j)
    BY <1>2, <1>4, <1>5 DEF ToStore
  <1>6. \A q \in Producers : \A i \in 1..Len(put'[q].tasks) : put'[q].tasks[i] # NoTask
    BY <1>1, LenProperties, ElementOfSeq, CallersAssumption DEF PutShape, PutRecords
  <1>7. ASSUME NEW q \in Producers, NEW i \in 1..Len(put'[q].tasks), ToStore(q, i)'
        PROVE  /\ \A b \in Buckets : \A j \in 1..Len(bucket[b]) : bucket[b][j] # put'[q].tasks[i]
               /\ \A c \in Consumers : pop'[c].task # put'[q].tasks[i]
    BY <1>5, <1>6, <1>7 DEF IInv, Handed, Held, SameTasks
  <1>. QED
    BY <1>1, <1>3, <1>7 DEF Handed, Held

(* A producer begins with a list of tasks that are nowhere yet. *)
LEMMA BeginKeeps ==
  ASSUME IInv, NEW p \in Producers, NEW ts \in Seq(Tasks), ts # <<>>,
         put[p] = NoPut, NEW batch \in BOOLEAN, NEW blocking \in BOOLEAN,
         \A i \in 1..Len(ts) : Fresh(ts[i]),
         \A i, j \in 1..Len(ts) : ts[i] = ts[j] => i = j,
         put' = [put EXCEPT ![p] = [at |-> "push", tasks |-> ts, batch |-> batch,
                                    blocking |-> blocking]],
         UNCHANGED <<buckets, closed, totalSize, consumeCount, mu, notEmpty, pop, quit>>
  PROVE  IInv'
  <1>. USE DEF IInv
  <1>. DEFINE x == [at |-> "push", tasks |-> ts, batch |-> batch, blocking |-> blocking]
  <1>1. x \in PutRecords /\ x.at = "push" /\ x.tasks = ts
    BY DEF PutRecords
  <1>2. put'[p] = x /\ \A q \in Producers : q # p => put'[q] = put[q]
    BY DEF PutShape
  <1>. HIDE DEF x
  <1>3. PutShape'
    BY <1>1, <1>2 DEF PutShape
  <1>4. Putting("add")' = Putting("add")
    BY <1>1, <1>2 DEF Putting, NoPut
  <1>5. TotalCounts' /\ TaskInItsBucket'
    BY <1>4, NeutralKeeps DEF Popping, SameTasks, buckets
  <1>6. \A i \in 1..Len(ts) :
           /\ \A b \in Buckets : \A j \in 1..Len(bucket[b]) : bucket[b][j] # ts[i]
           /\ \A q \in Producers : \A j \in 1..Len(put[q].tasks) : put[q].tasks[j] # ts[i]
           /\ \A c \in Consumers : ~Held(c, ts[i])
    BY Indices, LenProperties, ElementOfSeq DEF Fresh, Stored, Held
  <1>7. Handed'
    BY <1>1, <1>2, <1>6 DEF Handed, Held, ToStore, buckets
  <1>8. BucketShape' /\ CountShape' /\ PopShape' /\ Line'
    BY DEF BucketShape, CountShape, PopShape, Line, buckets
  <1>. QED
    BY <1>3, <1>5, <1>7, <1>8

(* A consumer goes on to a place where it counts as before. *)
LEMMA PopKeeps ==
  ASSUME IInv, NEW c \in Consumers, NEW x \in PopRecords, pop' = [pop EXCEPT ![c] = x],
         pop[c].at \notin {"asleep", "sub"}, x.at # "sub", x.task \in {pop[c].task, NoTask},
         UNCHANGED <<buckets, totalSize, put>>
  PROVE  /\ BucketShape' /\ PutShape' /\ PopShape' /\ Handed' /\ TotalCounts' /\ TaskInItsBucket'
         /\ UNCHANGED notEmpty => Line'
  <1>. USE DEF IInv
  <1>1. pop'[c] = x /\ \A d \in Consumers : d # c => pop'[d] = pop[d]
    BY DEF PopShape
  <1>2. PopShape'
    BY DEF PopShape
  <1>3. SameTasks /\ Popping("sub")' = Popping("sub")
    BY <1>1 DEF SameTasks, Popping
  <1>4. TotalCounts' /\ TaskInItsBucket'
    BY <1>3, NeutralKeeps DEF Putting, buckets
  <1>5. Handed'
    <2>1. \A p \in Producers : \A i \in 1..Len(put[p].tasks) : put[p].tasks[i] # NoTask
      BY Indices, CallersAssumption
    <2>. QED
      BY <1>3, <2>1 DEF Handed, Held, ToStore, SameTasks, buckets
  <1>6. UNCHANGED notEmpty => Line'
    BY <1>1, Indices DEF Line
  <1>7. BucketShape' /\ PutShape'
    BY DEF BucketShape, PutShape, buckets
  <1>. QED
    BY <1>2, <1>4, <1>5, <1>6, <1>7

(* All that sleep are woken. *)
LEMMA WakeKeeps ==
  ASSUME IInv, WakeAll
  PROVE  PopShape' /\ Line' /\ SameTasks /\ Popping("sub")' = Popping("sub")
  <1>1. \A c \in Consumers : /\ pop'[c] \in PopRecords /\ pop'[c].task = pop[c].task
                             /\ pop'[c].at = "sub" <=> pop[c].at = "sub"
    <2>. SUFFICES ASSUME NEW c \in Consumers
         PROVE  /\ pop'[c] \in PopRecords /\ pop'[c].task = pop[c].task
                /\ pop'[c].at = "sub" <=> pop[c].at = "sub"
      OBVIOUS
    <2>1. pop'[c] = IF pop[c].at = "asleep" THEN [pop[c] EXCEPT !.at = "top"] ELSE pop[c]
      BY DEF WakeAll
    <2>2. pop[c] \in PopRecords
      BY DEF IInv, PopShape
    <2>. QED
      BY <2>1, <2>2 DEF PopRecords
  <1>2. PopShape'
    BY <1>1 DEF WakeAll, PopShape
  <1>3. Line'
    BY DEF WakeAll, Line
  <1>. QED
    BY <1>1, <1>2, <1>3 DEF SameTasks, Popping

------------------------------------------------------------------------------
(* The invariant holds at the start, and each action keeps it. *)
LEMMA InitIInv == Init => IInv
  <1>. SUFFICES ASSUME Init PROVE IInv
    OBVIOUS
  <1>1. \A b \in Buckets : bucket[b] = <<>> /\ Len(bucket[b]) = 0 /\ DOMAIN bucket[b] = {}
    BY DEF Init
  <1>2. \A p \in Producers : put[p] = NoPut
    BY DEF Init
  <1>3. \A c \in Consumers : pop[c] = NoPop
    BY DEF Init
  <1>4. BucketShape
    BY <1>1, BucketAssumption DEF Init, BucketShape
  <1>5. CountShape
    <2>1. 0 \in 0..StarvationN
      BY BucketAssumption
    <2>2. closed = FALSE /\ totalSize = 0 /\ consumeCount = 0 /\ mu = Nobody /\ quit = {}
      BY DEF Init
    <2>3. totalSize \in Int /\ consumeCount \in 0..StarvationN
      BY <2>1, <2>2
    <2>. QED
      BY <2>2, <2>3, Zenon DEF CountShape
  <1>6. NoPut \in PutRecords /\ NoPut.at = "idle" /\ NoPut.tasks = <<>>
    BY DEF NoPut, PutRecords
  <1>7. NoPop \in PopRecords /\ NoPop.at = "idle"
    BY BucketAssumption DEF NoPop, PopRecords
  <1>8. PutShape /\ PopShape
    BY <1>6, <1>7 DEF Init, PutShape, PopShape
  <1>9. Line
    BY DEF Init, Line
  <1>10. Handed
    BY <1>2, <1>6 DEF Handed
  <1>11. TaskInItsBucket
    BY <1>1 DEF TaskInItsBucket
  <1>12. TotalCounts
    <2>1. Places = {} /\ Putting("add") = {} /\ Popping("sub") = {}
      BY <1>1, <1>2, <1>3, <1>6, <1>7 DEF Places, Putting, Popping
    <2>2. Cardinality({}) = 0 /\ totalSize = 0 /\ 0 = 0 - 0 + 0
      BY FS_EmptySet DEF Init
    <2>. QED
      BY <2>1, <2>2 DEF TotalCounts, Sizes
  <1>. QED
    BY <1>4, <1>5, <1>8, <1>9, <1>10, <1>11, <1>12 DEF IInv

LEMMA BeginPushKeeps ==
  ASSUME IInv, NEW p \in Producers, NEW t \in Tasks, NEW blocking \in BOOLEAN,
         BeginPush(p, t, blocking)
  PROVE  IInv'
  <1>1. /\ <<t>> \in Seq(Tasks) /\ <<t>> # <<>> /\ Len(<<t>>) = 1
        /\ \A i \in 1..Len(<<t>>) : i = 1 /\ <<t>>[i] = t
    OBVIOUS
  <1>. DEFINE ts == <<t>>
  <1>2. put' = [put EXCEPT ![p] = [at |-> "push", tasks |-> ts, batch |-> FALSE,
                                   blocking |-> blocking]]
    BY DEF BeginPush
  <1>. HIDE DEF ts
  <1>3. /\ ts \in Seq(Tasks) /\ ts # <<>> /\ FALSE \in BOOLEAN
        /\ \A i \in 1..Len(ts) : i = 1 /\ ts[i] = t
    BY <1>1 DEF ts
  <1>4. /\ \A i \in 1..Len(ts) : Fresh(ts[i])
        /\ \A i, j \in 1..Len(ts) : ts[i] = ts[j] => i = j
    BY <1>3 DEF BeginPush
  <1>5. /\ put[p] = NoPut
        /\ UNCHANGED <<buckets, closed, totalSize, consumeCount, mu, notEmpty, pop, quit>>
    BY DEF BeginPush
  <1>. QED
    BY <1>2, <1>3, <1>4, <1>5, BeginKeeps

LEMMA BeginBatchKeeps ==
  ASSUME IInv, NEW p \in Producers, NEW ts \in Lists, BeginBatch(p, ts)
  PROVE  IInv'
  <1>1. PICK n \in BatchSizes : ts \in [1..n -> Tasks]
    BY DEF Lists
  <1>2. n \in Nat \ {0}
    BY CallersAssumption
  <1>3. ts \in Seq(Tasks) /\ Len(ts) = n /\ DOMAIN ts = 1..n
    BY <1>1, <1>2, SeqDef
  <1>4. ts # <<>>
    BY <1>2, <1>3
  <1>. QED
    BY <1>3, <1>4, BeginKeeps DEF BeginBatch

(* The parts that a step of a producer before or after its bucket, and the *)
(* end of its call, leave as they are.                                     *)
LEMMA PutMoves ==
  ASSUME IInv, NEW p \in Producers, NEW x \in PutRecords, NEW d \in {0, 1},
         x.tasks = <<>> => x.at \in {"idle", "broadcast"},
         \A i \in 1..Len(x.tasks) :
            /\ i + d \in 1..Len(put[p].tasks)
            /\ x.tasks[i] = put[p].tasks[i + d]
            /\ i > 1 \/ x.at \in {"push", "bucket"} => ToStore(p, i + d),
         put[p].at # "add", x.at # "add", put' = [put EXCEPT ![p] = x],
         UNCHANGED <<buckets, closed, totalSize, consumeCount, mu, quit>>,
         PopShape', Line', SameTasks, Popping("sub")' = Popping("sub")
  PROVE  IInv'
  <1>1. PutShape' /\ Handed'
    BY PutKeeps DEF buckets
  <1>2. Putting("add")' = Putting("add")
    BY DEF IInv, PutShape, Putting
  <1>3. TotalCounts' /\ TaskInItsBucket'
    BY <1>2, NeutralKeeps DEF buckets
  <1>4. BucketShape' /\ CountShape'
    BY DEF IInv, BucketShape, CountShape, buckets
  <1>. QED
    BY <1>1, <1>3, <1>4 DEF IInv

LEMMA PutEnds ==
  ASSUME IInv, NEW p \in Producers, put[p].at # "add", put' = [put EXCEPT ![p] = NoPut],
         UNCHANGED <<buckets, closed, totalSize, consumeCount, mu, quit>>,
         PopShape', Line', SameTasks, Popping("sub")' = Popping("sub")
  PROVE  IInv'
  <1>1. NoPut \in PutRecords /\ NoPut.at = "idle" /\ NoPut.tasks = <<>> /\ Len(NoPut.tasks) = 0
    BY DEF NoPut, PutRecords
  <1>. DEFINE x == NoPut
  <1>2. x \in PutRecords /\ x.at = "idle" /\ \A i \in 1..Len(x.tasks) : FALSE
    BY <1>1
  <1>3. 0 \in {0, 1} /\ x.at # "add" /\ put' = [put EXCEPT ![p] = x]
    BY <1>2
  <1>. HIDE DEF x
  <1>. QED
    BY <1>2, <1>3, PutMoves

LEMMA SamePop ==
  ASSUME IInv, UNCHANGED <<notEmpty, pop>>
  PROVE  PopShape' /\ Line' /\ SameTasks /\ Popping("sub")' = Popping("sub")
  BY DEF IInv, PopShape, Line, SameTasks, Popping

LEMMA PushChecksKeeps ==
  ASSUME IInv, NEW p \in Producers, PushChecks(p)
  PROVE  IInv'
  <1>1. CASE closed
    BY <1>1, SamePop, PutEnds DEF PushChecks
  <1>2. CASE ~closed
    <2>. DEFINE x == [put[p] EXCEPT !.at = "bucket"]
    <2>1. put[p] \in PutRecords /\ Len(put[p].tasks) \in Nat /\ put[p].tasks # <<>>
      BY Indices DEF IInv, PutShape, PushChecks
    <2>2. /\ x \in PutRecords /\ x.at = "bucket" /\ x.tasks = put[p].tasks
          /\ put' = [put EXCEPT ![p] = x]
      BY <1>2, <2>1 DEF PutRecords, PushChecks
    <2>3. \A i \in 1..Len(put[p].tasks) : i + 0 = i /\ ToStore(p, i)
      BY <2>1 DEF ToStore, PushChecks
    <2>. HIDE DEF x
    <2>4. 0 \in {0, 1} /\ put[p].at # "add"
      BY DEF PushChecks
    <2>. QED
      BY <2>1, <2>2, <2>3, <2>4, SamePop, PutMoves DEF PushChecks
  <1>. QED
    BY <1>1, <1>2

LEMMA BucketRefusesKeeps ==
  ASSUME IInv, NEW p \in Producers, BucketRefuses(p)
  PROVE  IInv'
  BY SamePop, PutEnds DEF BucketRefuses

LEMMA BatchBroadcastsKeeps ==
  ASSUME IInv, NEW p \in Producers, BatchBroadcasts(p)
  PROVE  IInv'
  BY WakeKeeps, PutEnds DEF BatchBroadcasts

(* The first in line is woken, and a BatchPush turns to what is left. *)
LEMMA PushSignalsKeeps ==
  ASSUME IInv, NEW p \in Producers, PushSignals(p)
  PROVE  IInv'
  <1>1. PopShape' /\ Line' /\ SameTasks /\ Popping("sub")' = Popping("sub")
    <2>1. CASE notEmpty = <<>>
      BY <2>1, SamePop DEF PushSignals
    <2>2. CASE notEmpty # <<>>
      <3>. DEFINE c == notEmpty[1]
      <3>1. /\ Head(notEmpty) = c /\ c \in Consumers /\ pop[c].at = "asleep"
            /\ Tail(notEmpty) \in Seq(Consumers) /\ Len(Tail(notEmpty)) = Len(notEmpty) - 1
            /\ \A i \in 1..Len(Tail(notEmpty)) : /\ Tail(notEmpty)[i] = notEmpty[i + 1]
                                                 /\ i + 1 \in 1..Len(notEmpty) /\ i + 1 # 1
        <4>1. Len(notEmpty) \in Nat \ {0}
          BY <2>2, EmptySeq, LenProperties DEF IInv, Line
        <4>. QED
          BY <2>2, <4>1, HeadTailProperties, Indices DEF IInv, Line
      <3>2. notEmpty' = Tail(notEmpty) /\ pop' = [pop EXCEPT ![c].at = "top"]
        BY <2>2, <3>1 DEF PushSignals
      <3>3. 1 \in 1..Len(notEmpty)
        BY <2>2, EmptySeq, LenProperties DEF IInv, Line
      <3>4. \A i \in 1..Len(notEmpty') : notEmpty'[i] # c /\ notEmpty'[i] \in Consumers
        BY <3>1, <3>2, <3>3, Indices DEF IInv, Line
      <3>. HIDE DEF c
      <3>5. /\ pop'[c] = [pop[c] EXCEPT !.at = "top"] /\ pop[c] \in PopRecords
            /\ \A d \in Consumers : d # c => pop'[d] = pop[d]
        BY <3>1, <3>2 DEF IInv, PopShape
      <3>6. pop'[c] \in PopRecords /\ pop'[c].at = "top" /\ pop'[c].task = pop[c].task
        BY <3>5 DEF PopRecords
      <3>7. PopShape'
        BY <3>2, <3>5, <3>6 DEF IInv, PopShape
      <3>8. Line'
        <4>1. \A i \in 1..Len(notEmpty') : pop'[notEmpty'[i]].at = "asleep"
          BY <3>1, <3>2, <3>4, <3>5 DEF IInv, Line
        <4>2. \A i, j \in 1..Len(notEmpty') : notEmpty'[i] = notEmpty'[j] => i = j
          BY <3>1, <3>2, Indices DEF IInv, Line
        <4>. QED
          BY <3>1, <3>2, <4>1, <4>2 DEF Line
      <3>. QED
        BY <3>1, <3>5, <3>6, <3>7, <3>8 DEF SameTasks, Popping
    <2>. QED
      BY <2>1, <2>2
  <1>. DEFINE ts == put[p].tasks
              x == IF ~put[p].batch THEN NoPut
                   ELSE [put[p] EXCEPT !.tasks = Tail(ts),
                                       !.at = IF Tail(ts) = <<>> THEN "broadcast" ELSE "push"]
  <1>2. put' = [put EXCEPT ![p] = x] /\ put[p].at # "add"
    BY DEF PushSignals, PutNext
  <1>3. CASE ~put[p].batch
    BY <1>1, <1>2, <1>3, PutEnds DEF PushSignals
  <1>4. CASE put[p].batch
    <2>1. put[p] \in PutRecords /\ Len(ts) \in Nat /\ ts # <<>> /\ ts \in Seq(Tasks)
      BY Indices DEF IInv, PutShape, PutRecords, PushSignals
    <2>2. /\ Tail(ts) \in Seq(Tasks) /\ Len(Tail(ts)) = Len(ts) - 1
          /\ \A i \in 1..Len(Tail(ts)) : Tail(ts)[i] = ts[i + 1] /\ i + 1 \in 1..Len(ts)
      BY <2>1, HeadTailProperties
    <2>3. /\ x \in PutRecords /\ x.tasks = Tail(ts) /\ x.at \in {"push", "broadcast"}
          /\ x.tasks = <<>> => x.at = "broadcast"
      BY <1>4, <2>1, <2>2 DEF PutRecords
    <2>4. \A i \in 1..Len(Tail(ts)) : ToStore(p, i + 1)
      BY <2>2 DEF ToStore
    <2>. HIDE DEF x
    <2>. QED
      BY <1>1, <1>2, <2>2, <2>3, <2>4, PutMoves, 1 \in {0, 1} DEF PushSignals
  <1>. QED
    BY <1>3, <1>4

(* A task is stored: one more in the buckets that the counter lacks. *)
LEMMA BucketTakesKeeps ==
  ASSUME IInv, NEW p \in Producers, BucketTakes(p)
  PROVE  IInv'
  <1>. USE DEF IInv
  <1>. DEFINE ts == put[p].tasks
              t == ts[1]
              b == BucketIdx(t)
              n == Len(bucket[b]) + 1
  <1>1. /\ put[p] \in PutRecords /\ put[p].at = "bucket"
        /\ Len(ts) \in Nat \ {0} /\ Head(ts) = t /\ t \in Tasks
    <2>1. put[p] \in PutRecords /\ put[p].at = "bucket" /\ ts # <<>> /\ ts \in Seq(Tasks)
      BY Indices DEF PutShape, PutRecords, BucketTakes
    <2>2. Len(ts) \in Nat \ {0} /\ Head(ts) = t
      BY <2>1, EmptySeq, LenProperties, HeadTailProperties
    <2>. QED
      BY <2>1, <2>2, ElementOfSeq
  <1>2. b \in Buckets
    BY <1>1, BucketOf
  <1>. HIDE DEF t, b
  <1>3. /\ bucket[b] \in Seq(Tasks) /\ Len(bucket[b]) \in Nat /\ n <= BucketCapacity
        /\ bucket' = [bucket EXCEPT ![b] = Append(bucket[b], t)]
        /\ put' = [put EXCEPT ![p].at = "add"]
        /\ UNCHANGED <<shut, closed, totalSize, consumeCount, mu, notEmpty, pop, quit>>
    <2>1. /\ Len(bucket[b]) < BucketCapacity
          /\ bucket' = [bucket EXCEPT ![b] = Append(bucket[b], t)]
          /\ put' = [put EXCEPT ![p].at = "add"]
          /\ UNCHANGED <<shut, closed, totalSize, consumeCount, mu, notEmpty, pop, quit>>
      BY <1>1 DEF BucketTakes, PutAt, b
    <2>. QED
      BY <1>2, <2>1, Indices, BucketAssumption
  <1>4. /\ bucket'[b] \in Seq(Tasks) /\ Len(bucket'[b]) = n /\ DOMAIN bucket'[b] = 1..n
        /\ \A i \in 1..Len(bucket[b]) : bucket'[b][i] = bucket[b][i]
        /\ bucket'[b][n] = t
        /\ \A d \in Buckets : d # b => bucket'[d] = bucket[d]
    <2>1. /\ Append(bucket[b], t) \in Seq(Tasks) /\ Len(Append(bucket[b], t)) = n
          /\ \A i \in 1..Len(bucket[b]) : Append(bucket[b], t)[i] = bucket[b][i]
          /\ Append(bucket[b], t)[n] = t
      BY <1>1, <1>3, AppendProperties
    <2>2. bucket'[b] = Append(bucket[b], t) /\ \A d \in Buckets : d # b => bucket'[d] = bucket[d]
      BY <1>2, <1>3 DEF BucketShape
    <2>3. DOMAIN Append(bucket[b], t) = 1..n
      BY <2>1, LenProperties
    <2>. QED
      BY <2>1, <2>2, <2>3
  <1>5. \A d \in Buckets : /\ DOMAIN bucket[d] = 1..Len(bucket[d]) /\ Len(bucket[d]) \in Nat
                           /\ \A i \in 1..Len(bucket[d]) : bucket[d][i] \in Tasks
    BY Indices
  <1>6. \A i \in 1..n : i \in 1..Len(bucket[b]) \/ i = n
    BY <1>3
  <1>. HIDE DEF n
  <1>7. BucketShape'
    BY <1>2, <1>3, <1>4 DEF BucketShape
  <1>8. CountShape' /\ PopShape' /\ Line'
    BY <1>3 DEF CountShape, PopShape, Line
  <1>9. /\ put'[p] = [put[p] EXCEPT !.at = "add"]
        /\ \A q \in Producers : q # p => put'[q] = put[q]
    BY <1>3 DEF PutShape
  <1>10. put'[p] \in PutRecords /\ put'[p].at = "add" /\ put'[p].tasks = ts
    BY <1>1, <1>9 DEF PutRecords
  <1>11. PutShape'
    BY <1>1, <1>3, <1>9, <1>10 DEF PutShape
  <1>12. \A q \in Producers : put'[q].tasks = put[q].tasks
    BY <1>9, <1>10
  <1>13. /\ \A d \in Buckets : \A j \in 1..Len(bucket[d]) : bucket[d][j] # t
         /\ \A c \in Consumers : pop[c].task # t
    BY <1>1 DEF Handed, Held, ToStore, t
  <1>14. \A q \in Producers : \A i \in 1..Len(put[q].tasks) :
            ToStore(q, i)' => ToStore(q, i) /\ put[q].tasks[i] # t
    <2>1. \A i \in 1..Len(ts) : ts[i] = t => i = 1
      BY <1>1 DEF Handed, t
    <2>2. \A q \in Producers : q # p => \A i \in 1..Len(put[q].tasks) : put[q].tasks[i] # t
      BY <1>1 DEF Handed, t
    <2>3. \A i \in 1..Len(ts) : ToStore(p, i)' => ToStore(p, i) /\ i # 1
      BY <1>10 DEF ToStore
    <2>4. \A q \in Producers : q # p => \A i \in 1..Len(put[q].tasks) : ToStore(q, i)' => ToStore(q, i)
      BY <1>9 DEF ToStore
    <2>. QED
      BY <2>1, <2>2, <2>3, <2>4
  <1>15. Handed'
    <2>1. \A q, r \in Producers : \A i \in 1..Len(put'[q].tasks), j \in 1..Len(put'[r].tasks) :
             put'[q].tasks[i] = put'[r].tasks[j] => q = r /\ i = j
      BY <1>12 DEF Handed
    <2>2. ASSUME NEW q \in Producers, NEW i \in 1..Len(put'[q].tasks), ToStore(q, i)'
          PROVE  /\ \A d \in Buckets : \A j \in 1..Len(bucket'[d]) : bucket'[d][j] # put'[q].tasks[i]
                 /\ \A c \in Consumers : pop'[c].task # put'[q].tasks[i]
      <3>1. /\ i \in 1..Len(put[q].tasks) /\ put'[q].tasks[i] = put[q].tasks[i]
            /\ ToStore(q, i) /\ put[q].tasks[i] # t
        BY <1>12, <1>14, <2>2
      <3>2. \A d \in Buckets : \A j \in 1..Len(bucket[d]) : bucket[d][j] # put[q].tasks[i]
        BY <3>1 DEF Handed
      <3>3. \A c \in Consumers : pop[c].task # put[q].tasks[i]
        BY <3>1 DEF Handed, Held
      <3>. QED
        BY <1>3, <1>4, <1>6, <3>1, <3>2, <3>3
    <2>. QED
      BY <2>1, <2>2 DEF Handed, Held
  <1>16. TaskInItsBucket'
    <2>1. b = IF Priority[t] < PriorityRange * (BucketCount - 1)
              THEN Priority[t] \div PriorityRange ELSE BucketCount - 1
      BY <1>1, BucketOf DEF b
    <2>2. \A d \in Buckets : \A i \in DOMAIN bucket'[d] :
             \/ i \in DOMAIN bucket[d] /\ bucket'[d][i] = bucket[d][i] /\ bucket[d][i] # t
             \/ d = b /\ i = n /\ bucket'[d][i] = t
      BY <1>4, <1>5, <1>6, <1>13
    <2>. QED
      BY <1>3, <1>13, <2>1, <2>2 DEF TaskInItsBucket
  <1>17. TotalCounts'
    <2>1. Places' = Places \cup {<<b, n>>} /\ <<b, n>> \notin Places
      <3>1. n \in 1..BucketCapacity /\ n \notin 1..Len(bucket[b])
        BY <1>3 DEF n
      <3>2. \A d \in Buckets, i \in 1..BucketCapacity :
               i \in DOMAIN bucket'[d] <=> i \in DOMAIN bucket[d] \/ (d = b /\ i = n)
        BY <1>4, <1>5, <1>6, <3>1
      <3>. QED
        BY <1>2, <1>5, <3>1, <3>2 DEF Places
    <2>2. Cardinality(Places') = Cardinality(Places) + 1
      BY <2>1, PlacesFinite, Counting
    <2>3. Putting("add")' = Putting("add") \cup {p} /\ p \notin Putting("add")
      BY <1>1, <1>9, <1>10 DEF Putting
    <2>4. Cardinality(Putting("add")') = Cardinality(Putting("add")) + 1
      BY <2>3, CallersFinite, Counting
    <2>5. Popping("sub")' = Popping("sub") /\ totalSize' = totalSize
      BY <1>3 DEF Popping
    <2>6. /\ Cardinality(Places) \in Nat /\ Cardinality(Putting("add")) \in Nat
          /\ Cardinality(Popping("sub")) \in Nat /\ totalSize \in Int
      BY PlacesFinite, CallersFinite, FS_CardinalityType DEF CountShape, Sizes
    <2>. QED
      BY <2>2, <2>4, <2>5, <2>6 DEF TotalCounts, Sizes
  <1>. QED
    BY <1>7, <1>8, <1>11, <1>15, <1>16, <1>17

LEMMA PushAddsKeeps ==
  ASSUME IInv, NEW p \in Producers, PushAdds(p)
  PROVE  IInv'
  <1>. USE DEF IInv
  <1>. DEFINE x == [put[p] EXCEPT !.at = "signal"]
  <1>1. put[p] \in PutRecords /\ put[p].at = "add" /\ Len(put[p].tasks) \in Nat
    BY Indices DEF PushAdds
  <1>2. /\ x \in PutRecords /\ x.at = "signal" /\ x.tasks = put[p].tasks /\ x.tasks # <<>>
        /\ put' = [put EXCEPT ![p] = x]
    BY <1>1 DEF PutRecords, PutShape, PushAdds, PutAt
  <1>. HIDE DEF x
  <1>3. UNCHANGED <<buckets, closed, consumeCount, mu, notEmpty, pop, quit>>
        /\ totalSize' = totalSize + 1
    BY DEF PushAdds
  <1>4. PutShape' /\ Handed'
    <2>1. \A i \in 1..Len(x.tasks) : /\ i + 0 \in 1..Len(put[p].tasks)
                                     /\ x.tasks[i] = put[p].tasks[i + 0]
                                     /\ i > 1 => ToStore(p, i + 0)
      BY <1>1, <1>2 DEF ToStore
    <2>2. 0 \in {0, 1} /\ SameTasks /\ bucket' = bucket
      BY <1>3 DEF SameTasks, buckets
    <2>. QED
      BY <1>2, <2>1, <2>2, PutKeeps
  <1>5. TotalCounts'
    <2>1. Putting("add")' = Putting("add") \ {p} /\ p \in Putting("add")
      BY <1>1, <1>2 DEF Putting, PutShape
    <2>2. Cardinality(Putting("add")') = Cardinality(Putting("add")) - 1
      BY <2>1, CallersFinite, Counting
    <2>3. Popping("sub")' = Popping("sub") /\ Places' = Places
      BY <1>3 DEF Popping, Places, buckets
    <2>4. /\ Cardinality(Places) \in Nat /\ Cardinality(Putting("add")) \in Nat
          /\ Cardinality(Popping("sub")) \in Nat /\ totalSize \in Int
      BY PlacesFinite, CallersFinite, FS_CardinalityType DEF CountShape, Sizes
    <2>. QED
      BY <1>3, <2>2, <2>3, <2>4 DEF TotalCounts, Sizes
  <1>6. BucketShape' /\ CountShape' /\ PopShape' /\ Line' /\ TaskInItsBucket'
    BY <1>3 DEF BucketShape, CountShape, PopShape, Line, TaskInItsBucket, buckets
  <1>. QED
    BY <1>4, <1>5, <1>6

LEMMA BeginPopKeeps ==
  ASSUME IInv, NEW c \in Consumers, NEW blocking \in BOOLEAN, BeginPop(c, blocking)
  PROVE  IInv'
  <1>. DEFINE x == [NoPop EXCEPT !.at = "top", !.blocking = blocking]
  <1>1. x \in PopRecords /\ x.at = "top" /\ x.task = NoTask /\ pop' = [pop EXCEPT ![c] = x]
    <2>1. 0 \in -1 .. BucketCount
      BY BucketAssumption
    <2>. QED
      BY <2>1 DEF BeginPop, NoPop, PopRecords
  <1>2. pop[c].at = "idle"
    BY DEF BeginPop, NoPop
  <1>. HIDE DEF x
  <1>3. UNCHANGED <<buckets, closed, totalSize, consumeCount, mu, notEmpty, put, quit>>
    BY DEF BeginPop
  <1>4. CountShape'
    BY <1>3 DEF IInv, CountShape
  <1>. QED
    BY <1>1, <1>2, <1>3, <1>4, PopKeeps DEF IInv

LEMMA NoPopRecord == NoPop \in PopRecords /\ NoPop.at = "idle" /\ NoPop.task = NoTask
  BY BucketAssumption DEF NoPop, PopRecords

LEMMA PopLocksKeeps ==
  ASSUME IInv, NEW c \in Consumers, PopLocks(c)
  PROVE  IInv'
  <1>1. UNCHANGED <<buckets, closed, totalSize, consumeCount, notEmpty, put>> /\ pop[c].at = "top"
    BY DEF PopLocks
  <1>2. CountShape'
    BY <1>1 DEF IInv, CountShape, PopLocks
  <1>3. CASE pop' = [pop EXCEPT ![c] = NoPop]
    <2>. DEFINE x == NoPop
    <2>1. x \in PopRecords /\ x.at = "idle" /\ x.task = NoTask /\ pop' = [pop EXCEPT ![c] = x]
      BY <1>3, NoPopRecord
    <2>. HIDE DEF x
    <2>. QED
      BY <1>1, <1>2, <2>1, PopKeeps DEF IInv
  <1>4. CASE pop' = [pop EXCEPT ![c].at = "again"]
    <2>. DEFINE x == [pop[c] EXCEPT !.at = "again"]
    <2>1. pop[c] \in PopRecords
      BY DEF IInv, PopShape
    <2>2. x \in PopRecords /\ x.at = "again" /\ x.task = pop[c].task /\ pop' = [pop EXCEPT ![c] = x]
      BY <1>4, <2>1 DEF PopRecords
    <2>. HIDE DEF x
    <2>. QED
      BY <1>1, <1>2, <2>2, PopKeeps DEF IInv
  <1>. QED
    BY <1>3, <1>4 DEF PopLocks, PopReturns, PopAt

LEMMA PopReadsAgainKeeps ==
  ASSUME IInv, NEW c \in Consumers, PopReadsAgain(c)
  PROVE  IInv'
  <1>1. UNCHANGED <<buckets, closed, totalSize, consumeCount, notEmpty, put, quit>>
        /\ pop[c].at = "again"
    BY DEF PopReadsAgain
  <1>2. CountShape'
    BY <1>1 DEF IInv, CountShape, PopReadsAgain
  <1>3. CASE pop' = [pop EXCEPT ![c] = NoPop]
    <2>. DEFINE x == NoPop
    <2>1. x \in PopRecords /\ x.at = "idle" /\ x.task = NoTask /\ pop' = [pop EXCEPT ![c] = x]
      BY <1>3, NoPopRecord
    <2>. HIDE DEF x
    <2>. QED
      BY <1>1, <1>2, <2>1, PopKeeps DEF IInv
  <1>4. ASSUME NEW at \in {"count", "wait"}, pop' = [pop EXCEPT ![c].at = at]
        PROVE  IInv'
    <2>. DEFINE x == [pop[c] EXCEPT !.at = at]
    <2>1. pop[c] \in PopRecords
      BY DEF IInv, PopShape
    <2>2. x \in PopRecords /\ x.at = at /\ x.task = pop[c].task /\ pop' = [pop EXCEPT ![c] = x]
      BY <1>4, <2>1 DEF PopRecords
    <2>. HIDE DEF x
    <2>. QED
      BY <1>1, <1>2, <2>2, PopKeeps DEF IInv
  <1>. QED
    BY <1>3, <1>4 DEF PopReadsAgain, PopReturns, PopAt

(* Who joins the line was not in it. *)
LEMMA PopWaitsKeeps ==
  ASSUME IInv, NEW c \in Consumers, PopWaits(c)
  PROVE  IInv'
  <1>. DEFINE x == [pop[c] EXCEPT !.at = "asleep"]
  <1>1. UNCHANGED <<buckets, closed, totalSize, consumeCount, put, quit>> /\ mu' = Nobody
        /\ notEmpty' = Append(notEmpty, c) /\ pop[c].at = "wait" /\ pop[c] \in PopRecords
    BY DEF PopWaits, IInv, PopShape
  <1>2. x \in PopRecords /\ x.at = "asleep" /\ x.task = pop[c].task /\ pop' = [pop EXCEPT ![c] = x]
    BY <1>1 DEF PopRecords, PopWaits, PopAt
  <1>3. CountShape'
    BY <1>1 DEF IInv, CountShape
  <1>. HIDE DEF x
  <1>4. BucketShape' /\ PutShape' /\ PopShape' /\ Handed' /\ TotalCounts' /\ TaskInItsBucket'
    BY <1>1, <1>2, PopKeeps
  <1>5. Line'
    <2>1. /\ notEmpty' \in Seq(Consumers) /\ Len(notEmpty') = Len(notEmpty) + 1
          /\ \A i \in 1..Len(notEmpty) : notEmpty'[i] = notEmpty[i]
          /\ notEmpty'[Len(notEmpty) + 1] = c
      BY <1>1, AppendProperties DEF IInv, Line
    <2>2. \A i \in 1..Len(notEmpty') : i \in 1..Len(notEmpty) \/ i = Len(notEmpty) + 1
      BY <2>1, Indices DEF IInv
    <2>3. pop'[c].at = "asleep" /\ \A d \in Consumers : d # c => pop'[d] = pop[d]
      BY <1>2 DEF IInv, PopShape
    <2>4. \A i \in 1..Len(notEmpty) : notEmpty[i] # c /\ notEmpty[i] \in Consumers
      BY <1>1, Indices DEF IInv, Line
    <2>5. \A i, j \in 1..Len(notEmpty') : notEmpty'[i] = notEmpty'[j] => i = j
      BY <2>1, <2>2, <2>4 DEF IInv, Line
    <2>6. \A i \in 1..Len(notEmpty') : pop'[notEmpty'[i]].at = "asleep"
      BY <2>1, <2>2, <2>3, <2>4 DEF IInv, Line
    <2>. QED
      BY <2>1, <2>5, <2>6 DEF Line
  <1>. QED
    BY <1>3, <1>4, <1>5 DEF IInv

LEMMA PopCountsKeeps ==
  ASSUME IInv, NEW c \in Consumers, PopCounts(c)
  PROVE  IInv'
  <1>. DEFINE forced == StarvationN > 0 /\ consumeCount' = 0
              x == [pop[c] EXCEPT !.at = "scan", !.forced = forced,
                                  !.next = IF forced THEN 0 ELSE BucketCount - 1]
  <1>1. UNCHANGED <<buckets, closed, totalSize, mu, notEmpty, put, quit>>
        /\ pop[c].at = "count" /\ pop[c] \in PopRecords
    BY DEF PopCounts, IInv, PopShape
  <1>2. forced \in BOOLEAN /\ (IF forced THEN 0 ELSE BucketCount - 1) \in -1 .. BucketCount
    BY BucketAssumption
  <1>3. pop' = [pop EXCEPT ![c] = x]
    BY DEF PopCounts
  <1>. HIDE DEF forced
  <1>4. x \in PopRecords /\ x.at = "scan" /\ x.task = pop[c].task
    BY <1>1, <1>2 DEF PopRecords
  <1>. HIDE DEF x
  <1>5. consumeCount' \in 0..StarvationN
    <2>1. StarvationN \in Nat /\ consumeCount \in Nat
      BY BucketAssumption DEF IInv, CountShape
    <2>2. CASE StarvationN = 0
      BY <2>1, <2>2 DEF PopCounts
    <2>3. CASE StarvationN # 0
      <3>1. (consumeCount + 1) % StarvationN \in 0..StarvationN
        BY <2>1, <2>3
      <3>. QED
        BY <2>3, <3>1 DEF PopCounts
    <2>. QED
      BY <2>2, <2>3
  <1>6. CountShape'
    BY <1>1, <1>5 DEF IInv, CountShape
  <1>. QED
    BY <1>1, <1>3, <1>4, <1>6, PopKeeps DEF IInv

LEMMA PopScansInVainKeeps ==
  ASSUME IInv, NEW c \in Consumers, PopScansInVain(c)
  PROVE  IInv'
  <1>. DEFINE x == IF pop[c].blocking THEN [NoPop EXCEPT !.at = "top"] ELSE NoPop
  <1>1. UNCHANGED <<buckets, closed, totalSize, consumeCount, mu, notEmpty, put, quit>>
        /\ pop[c].at = "scan" /\ pop' = [pop EXCEPT ![c] = x]
    BY DEF PopScansInVain
  <1>2. x \in PopRecords /\ x.at # "sub" /\ x.task = NoTask
    BY NoPopRecord DEF PopRecords
  <1>. HIDE DEF x
  <1>3. CountShape'
    BY <1>1 DEF IInv, CountShape
  <1>. QED
    BY <1>1, <1>2, <1>3, PopKeeps DEF IInv

LEMMA PopSubtractsKeeps ==
  ASSUME IInv, NEW c \in Consumers, PopSubtracts(c)
  PROVE  IInv'
  <1>. USE DEF IInv
  <1>1. /\ UNCHANGED <<buckets, closed, consumeCount, mu, notEmpty, put, quit>>
        /\ totalSize' = totalSize - 1
        /\ pop[c].at = "sub" /\ pop' = [pop EXCEPT ![c] = NoPop]
    BY DEF PopSubtracts, PopReturns
  <1>2. /\ pop'[c].at = "idle" /\ pop'[c].task = NoTask
        /\ \A d \in Consumers : d # c => pop'[d] = pop[d]
    BY <1>1, NoPopRecord DEF PopShape
  <1>3. PopShape'
    BY <1>1, NoPopRecord DEF PopShape
  <1>4. Line'
    BY <1>1, <1>2, Indices DEF Line
  <1>5. Handed'
    <2>1. \A p \in Producers : \A i \in 1..Len(put[p].tasks) : put[p].tasks[i] # NoTask
      BY Indices, CallersAssumption
    <2>. QED
      BY <1>1, <1>2, <2>1 DEF Handed, Held, ToStore, buckets
  <1>6. TaskInItsBucket'
    <2>1. \A b \in Buckets : \A i \in DOMAIN bucket[b] : bucket[b][i] # NoTask
      BY Indices, CallersAssumption
    <2>. QED
      BY <1>1, <1>2, <2>1 DEF TaskInItsBucket, buckets
  <1>7. TotalCounts'
    <2>1. Popping("sub")' = Popping("sub") \ {c} /\ c \in Popping("sub")
      BY <1>1, <1>2 DEF Popping
    <2>2. Cardinality(Popping("sub")') = Cardinality(Popping("sub")) - 1
      BY <2>1, CallersFinite, Counting
    <2>3. Putting("add")' = Putting("add") /\ Places' = Places
      BY <1>1 DEF Putting, Places, buckets
    <2>4. /\ Cardinality(Places) \in Nat /\ Cardinality(Putting("add")) \in Nat
          /\ Cardinality(Popping("sub")) \in Nat /\ totalSize \in Int
      BY PlacesFinite, CallersFinite, FS_CardinalityType DEF CountShape, Sizes
    <2>. QED
      BY <1>1, <2>2, <2>3, <2>4 DEF TotalCounts, Sizes
  <1>8. BucketShape' /\ CountShape' /\ PutShape'
    BY <1>1 DEF BucketShape, CountShape, PutShape, buckets
  <1>. QED
    BY <1>3, <1>4, <1>5, <1>6, <1>7, <1>8

(* A task is taken, and is in a consumer's hands and in no bucket. *)
LEMMA PopScansKeeps ==
  ASSUME IInv, NEW c \in Consumers, PopScans(c)
  PROVE  IInv'
  <1>. USE DEF IInv
  <1>. DEFINE b == pop[c].next
              n == Len(bucket[b])
              t == bucket[b][1]
  <1>1. /\ UNCHANGED <<shut, closed, totalSize, consumeCount, mu, notEmpty, put, quit>>
        /\ pop[c] \in PopRecords /\ pop[c].at = "scan" /\ b \in Buckets
    BY DEF PopScans, PopShape
  <1>2. CASE bucket[b] = <<>>
    <2>. DEFINE x == [pop[c] EXCEPT !.next = IF pop[c].forced THEN @ + 1 ELSE @ - 1]
    <2>1. b + 1 \in -1 .. BucketCount /\ b - 1 \in -1 .. BucketCount
      BY <1>1, BucketAssumption DEF Buckets
    <2>2. x \in PopRecords /\ x.at = "scan" /\ x.task = pop[c].task
      BY <1>1, <2>1 DEF PopRecords
    <2>3. pop' = [pop EXCEPT ![c] = x] /\ bucket' = bucket
      BY <1>2 DEF PopScans
    <2>. HIDE DEF x
    <2>4. CountShape'
      BY <1>1 DEF CountShape
    <2>. QED
      BY <1>1, <2>2, <2>3, <2>4, PopKeeps DEF buckets
  <1>3. CASE bucket[b] # <<>>
    <2>. DEFINE x == [pop[c] EXCEPT !.at = "sub", !.task = t]
    <2>. HIDE DEF b
    <2>1. bucket[b] \in Seq(Tasks) /\ n \in Nat \ {0} /\ Head(bucket[b]) = t /\ t \in Tasks
      <3>1. bucket[b] \in Seq(Tasks) /\ n \in Nat
        BY <1>1, Indices
      <3>2. n # 0 /\ Head(bucket[b]) = t
        BY <1>3, <3>1, EmptySeq, HeadTailProperties
      <3>. QED
        BY <3>1, <3>2, ElementOfSeq
    <2>2. bucket' = [bucket EXCEPT ![b] = Tail(bucket[b])] /\ pop' = [pop EXCEPT ![c] = x]
      BY <1>3, <2>1 DEF PopScans, b
    <2>. HIDE DEF t
    <2>3. x \in PopRecords /\ x.at = "sub" /\ x.task = t
      BY <1>1, <2>1 DEF PopRecords
    <2>. HIDE DEF x
    <2>4. pop'[c] = x /\ \A d \in Consumers : d # c => pop'[d] = pop[d]
      BY <2>2 DEF PopShape
    <2>5. /\ bucket'[b] \in Seq(Tasks) /\ Len(bucket'[b]) = n - 1 /\ DOMAIN bucket'[b] = 1..(n - 1)
          /\ \A i \in 1..(n - 1) : bucket'[b][i] = bucket[b][i + 1] /\ i + 1 \in 1..n
          /\ \A d \in Buckets : d # b => bucket'[d] = bucket[d]
      <3>1. /\ Tail(bucket[b]) \in Seq(Tasks) /\ Len(Tail(bucket[b])) = n - 1
            /\ \A i \in 1..Len(Tail(bucket[b])) : Tail(bucket[b])[i] = bucket[b][i + 1]
        BY <1>3, <2>1, HeadTailProperties
      <3>2. bucket'[b] = Tail(bucket[b]) /\ \A d \in Buckets : d # b => bucket'[d] = bucket[d]
        BY <1>1, <2>2 DEF BucketShape
      <3>3. DOMAIN Tail(bucket[b]) = 1..(n - 1)
        BY <3>1, LenProperties
      <3>4. \A i \in 1..(n - 1) : i + 1 \in 1..n
        BY <2>1
      <3>. QED
        BY <3>1, <3>2, <3>3, <3>4
    <2>6. \A d \in Buckets : /\ DOMAIN bucket[d] = 1..Len(bucket[d]) /\ Len(bucket[d]) \in Nat
                             /\ \A i \in 1..Len(bucket[d]) : bucket[d][i] \in Tasks
      BY Indices
    <2>7. n <= BucketCapacity /\ 1 \in 1..n
      BY <1>1, <2>1 DEF BucketShape
    <2>8. \A d \in Buckets : \A i \in 1..Len(bucket[d]) : bucket[d][i] = t => d = b /\ i = 1
      BY <1>1, <2>6, <2>7 DEF TaskInItsBucket, t
    <2>. HIDE DEF n
    <2>9. \A d \in Buckets : \A i \in DOMAIN bucket'[d] :
             /\ bucket'[d][i] # t
             /\ \E j \in DOMAIN bucket[d] : /\ bucket'[d][i] = bucket[d][j]
                                            /\ j = IF d = b THEN i + 1 ELSE i
      <3>1. \A i \in DOMAIN bucket'[b] : /\ bucket'[b][i] # t
                                         /\ i + 1 \in DOMAIN bucket[b]
                                         /\ bucket'[b][i] = bucket[b][i + 1]
        <4>1. b \in Buckets /\ n \in Nat \ {0} /\ n = Len(bucket[b]) /\ DOMAIN bucket[b] = 1..n
          BY <1>1, <2>1, <2>6 DEF n
        <4>2. \A i \in 1..(n - 1) : i + 1 \in 1..n /\ i + 1 # 1
          BY <4>1
        <4>. QED
          BY <2>5, <2>8, <4>1, <4>2
      <3>2. \A d \in Buckets : d # b =>
               \A i \in DOMAIN bucket'[d] :
                  bucket'[d][i] # t /\ i \in DOMAIN bucket[d] /\ bucket'[d][i] = bucket[d][i]
        BY <2>5, <2>6, <2>8
      <3>. QED
        BY <3>1, <3>2
    <2>10. BucketShape'
      BY <1>1, <2>1, <2>2, <2>5, <2>7, BucketAssumption DEF BucketShape
    <2>11. CountShape' /\ PutShape'
      BY <1>1 DEF CountShape, PutShape
    <2>12. PopShape'
      BY <2>2, <2>3 DEF PopShape
    <2>13. Line'
      BY <1>1, <2>4, Indices DEF Line
    <2>14. TaskInItsBucket'
      <3>1. ASSUME NEW d \in Buckets, NEW i \in DOMAIN bucket'[d]
            PROVE  /\ d = IF Priority[bucket'[d][i]] < PriorityRange * (BucketCount - 1)
                          THEN Priority[bucket'[d][i]] \div PriorityRange ELSE BucketCount - 1
                   /\ \A e \in Consumers : pop'[e].task # bucket'[d][i]
        BY <2>3, <2>4, <2>9 DEF TaskInItsBucket
      <3>2. ASSUME NEW d \in Buckets, NEW i \in DOMAIN bucket'[d],
                   NEW e \in Buckets, NEW j \in DOMAIN bucket'[e], bucket'[e][j] = bucket'[d][i]
            PROVE  e = d /\ j = i
        <4>1. PICK k \in DOMAIN bucket[d] : /\ bucket'[d][i] = bucket[d][k]
                                            /\ k = IF d = b THEN i + 1 ELSE i
          BY <2>9
        <4>2. PICK l \in DOMAIN bucket[e] : /\ bucket'[e][j] = bucket[e][l]
                                            /\ l = IF e = b THEN j + 1 ELSE j
          BY <2>9
        <4>3. e = d /\ l = k
          BY <3>2, <4>1, <4>2 DEF TaskInItsBucket
        <4>4. i \in Int /\ j \in Int
          BY <2>10, LenProperties DEF BucketShape
        <4>. QED
          BY <4>1, <4>2, <4>3, <4>4
      <3>. QED
        BY <3>1, <3>2 DEF TaskInItsBucket
    <2>15. Handed'
      <3>1. \A p \in Producers : \A i \in 1..Len(put[p].tasks) : ToStore(p, i) => put[p].tasks[i] # t
        BY <1>1, <2>7 DEF Handed, n, t
      <3>2. ASSUME NEW p \in Producers, NEW i \in 1..Len(put[p].tasks), ToStore(p, i)
            PROVE  /\ \A d \in Buckets : \A j \in 1..Len(bucket'[d]) : bucket'[d][j] # put[p].tasks[i]
                   /\ \A e \in Consumers : pop'[e].task # put[p].tasks[i]
        <4>1. \A d \in Buckets : DOMAIN bucket'[d] = 1..Len(bucket'[d])
          BY <2>10, LenProperties DEF BucketShape
        <4>2. \A d \in Buckets : \A j \in DOMAIN bucket[d] : bucket[d][j] # put[p].tasks[i]
          BY <2>6, <3>2 DEF Handed
        <4>3. \A e \in Consumers : pop[e].task # put[p].tasks[i]
          BY <3>2 DEF Handed, Held
        <4>. QED
          BY <2>3, <2>4, <2>9, <3>1, <3>2, <4>1, <4>2, <4>3
      <3>. QED
        BY <1>1, <3>2 DEF Handed, Held, ToStore
    <2>16. TotalCounts'
      <3>1. Places' = Places \ {<<b, n>>} /\ <<b, n>> \in Places
        <4>1. n \in 1..BucketCapacity /\ n \in DOMAIN bucket[b] /\ DOMAIN bucket[b] = 1..n
          BY <1>1, <2>1, <2>6, <2>7 DEF n
        <4>2. \A d \in Buckets, i \in 1..BucketCapacity :
                 i \in DOMAIN bucket'[d] <=> i \in DOMAIN bucket[d] /\ ~(d = b /\ i = n)
          BY <2>1, <2>5, <4>1 DEF n
        <4>. QED
          BY <1>1, <4>1, <4>2 DEF Places
      <3>2. Cardinality(Places') = Cardinality(Places) - 1
        BY <3>1, PlacesFinite, Counting
      <3>3. Popping("sub")' = Popping("sub") \cup {c} /\ c \notin Popping("sub")
        BY <1>1, <2>3, <2>4 DEF Popping
      <3>4. Cardinality(Popping("sub")') = Cardinality(Popping("sub")) + 1
        BY <3>3, CallersFinite, Counting
      <3>5. Putting("add")' = Putting("add") /\ totalSize' = totalSize
        BY <1>1 DEF Putting
      <3>6. /\ Cardinality(Places) \in Nat /\ Cardinality(Putting("add")) \in Nat
            /\ Cardinality(Popping("sub")) \in Nat /\ totalSize \in Int
        BY PlacesFinite, CallersFinite, FS_CardinalityType DEF CountShape, Sizes
      <3>. QED
        BY <3>2, <3>4, <3>5, <3>6 DEF TotalCounts, Sizes
    <2>. QED
      BY <2>10, <2>11, <2>12, <2>13, <2>14, <2>15, <2>16
  <1>. QED
    BY <1>2, <1>3

LEMMA CloseBeginsKeeps ==
  ASSUME IInv, CloseBegins
  PROVE  IInv'
  <1>. USE DEF IInv
  <1>1. UNCHANGED <<buckets, totalSize, consumeCount, notEmpty, put, pop, quit>>
        /\ closed' = TRUE /\ mu' = Closer
    BY DEF CloseBegins
  <1>2. CountShape'
    BY <1>1 DEF CountShape
  <1>3. BucketShape' /\ PutShape' /\ PopShape' /\ Line' /\ Handed'
    BY <1>1 DEF BucketShape, PutShape, PopShape, Line, Handed, Held, ToStore, buckets
  <1>4. TotalCounts' /\ TaskInItsBucket'
    BY <1>1, NeutralKeeps DEF Putting, Popping, SameTasks, buckets
  <1>. QED
    BY <1>2, <1>3, <1>4

(* The buckets are closed from the lowest up: there is a next one. *)
LEMMA ClosesBucketKeeps ==
  ASSUME IInv, ClosesBucket
  PROVE  IInv'
  <1>. USE DEF IInv
  <1>1. UNCHANGED <<bucket, closed, totalSize, consumeCount, mu, notEmpty, put, pop, quit>>
        /\ shut' = shut \cup {Cardinality(shut)} /\ shut # Buckets /\ shut \in SUBSET Buckets
    BY DEF ClosesBucket, BucketShape
  <1>2. Cardinality(shut) \in Buckets
    <2>1. /\ Cardinality(shut) \in Nat /\ Cardinality(shut) <= BucketCount
          /\ Cardinality(shut) # BucketCount
      BY <1>1, PlacesFinite, FS_Subset, FS_CardinalityType
    <2>. QED
      BY <2>1, BucketAssumption DEF Buckets
  <1>3. BucketShape'
    BY <1>1, <1>2 DEF BucketShape
  <1>4. CountShape' /\ PutShape' /\ PopShape' /\ Line' /\ Handed'
    BY <1>1 DEF CountShape, PutShape, PopShape, Line, Handed, Held, ToStore
  <1>5. TotalCounts' /\ TaskInItsBucket'
    BY <1>1, NeutralKeeps DEF Putting, Popping, SameTasks
  <1>. QED
    BY <1>3, <1>4, <1>5

LEMMA CloseEndsKeeps ==
  ASSUME IInv, CloseEnds
  PROVE  IInv'
  <1>. USE DEF IInv
  <1>1. UNCHANGED <<buckets, closed, totalSize, consumeCount, put, quit>> /\ WakeAll /\ mu' = Nobody
    BY DEF CloseEnds
  <1>2. PopShape' /\ Line' /\ SameTasks /\ Popping("sub")' = Popping("sub")
    BY <1>1, WakeKeeps
  <1>3. TotalCounts' /\ TaskInItsBucket'
    BY <1>1, <1>2, NeutralKeeps DEF Putting, buckets
  <1>4. Handed'
    <2>1. \A p \in Producers : \A i \in 1..Len(put[p].tasks) : put[p].tasks[i] # NoTask
      BY Indices, CallersAssumption
    <2>. QED
      BY <1>1, <1>2, <2>1 DEF Handed, Held, ToStore, SameTasks, buckets
  <1>5. BucketShape' /\ CountShape' /\ PutShape'
    BY <1>1 DEF BucketShape, CountShape, PutShape, buckets
  <1>. QED
    BY <1>2, <1>3, <1>4, <1>5

LEMMA NextKeeps ==
  ASSUME IInv, Next
  PROVE  IInv'
  <1>1. ASSUME NEW p \in Producers, NEW t \in Tasks, NEW blocking \in BOOLEAN,
               BeginPush(p, t, blocking)
        PROVE  IInv'
    BY <1>1, BeginPushKeeps
  <1>2. ASSUME NEW p \in Producers, NEW ts \in Lists, BeginBatch(p, ts)
        PROVE  IInv'
    BY <1>2, BeginBatchKeeps
  <1>3. ASSUME NEW p \in Producers, PutStep(p)
        PROVE  IInv'
    BY <1>3, PushChecksKeeps, BucketTakesKeeps, BucketRefusesKeeps, PushAddsKeeps,
       PushSignalsKeeps, BatchBroadcastsKeeps DEF PutStep
  <1>4. ASSUME NEW c \in Consumers, NEW blocking \in PopModes, BeginPop(c, blocking)
        PROVE  IInv'
    BY <1>4, BeginPopKeeps, CallersAssumption
  <1>5. ASSUME NEW c \in Consumers, PopStep(c)
        PROVE  IInv'
    BY <1>5, PopLocksKeeps, PopReadsAgainKeeps, PopWaitsKeeps, PopCountsKeeps, PopScansKeeps,
       PopScansInVainKeeps, PopSubtractsKeeps DEF PopStep
  <1>6. ASSUME CloseBegins \/ ClosesBucket \/ CloseEnds
        PROVE  IInv'
    BY <1>6, CloseBeginsKeeps, ClosesBucketKeeps, CloseEndsKeeps
  <1>. QED
    BY <1>1, <1>2, <1>3, <1>4, <1>5, <1>6 DEF Next

LEMMA StutterKeeps ==
  ASSUME IInv, UNCHANGED vars
  PROVE  IInv'
  <1>. USE DEF IInv, vars
  <1>1. BucketShape' /\ CountShape' /\ PutShape' /\ PopShape' /\ Line' /\ Handed'
    BY DEF BucketShape, CountShape, PutShape, PopShape, Line, Handed, Held, ToStore
  <1>2. TotalCounts' /\ TaskInItsBucket'
    BY NeutralKeeps DEF Putting, Popping, SameTasks
  <1>. QED
    BY <1>1, <1>2

(* IInv holds in every state the queue reaches. *)
LEMMA Invariance == Spec => []IInv
  <1>1. Init => IInv
    BY InitIInv
  <1>2. IInv /\ [Next]_vars => IInv'
    BY NextKeeps, StutterKeeps
  <1>. QED
    BY <1>1, <1>2, PTL DEF Spec

------------------------------------------------------------------------------
(* Each stored task is once in the bucket of its priority and in nobody's  *)
(* hands, and totalSize, which Push and Pop update without pq.mu, is off   *)
(* by exactly the calls between their two updates (priority_queue.go       *)
(* Push, Pop).                                                             *)
THEOREM PriorityQueueConsistent == Spec => []BucketsConsistent
  <1>1. IInv => TypeOK
    BY DEF IInv, BucketShape, CountShape, PutShape, PutRecords, PopShape, PopRecords, Line,
       TypeOK
  <1>2. IInv => BucketsConsistent
    BY <1>1 DEF IInv, BucketsConsistent
  <1>. QED
    BY <1>2, Invariance, PTL

(* A stored task has a place, and the uncounted ones among the stored      *)
(* belong to as many producers.                                            *)
LEMMA StoredCounted ==
  ASSUME IInv
  PROVE  /\ IsFiniteSet(Stored) /\ Cardinality(Stored) <= Sizes
         /\ Cardinality(Putting("add") \ Outrun) <= Cardinality(Stored \cap Uncounted)
  <1>. USE DEF IInv
  <1>. DEFINE f == [at \in Places |-> bucket[at[1]][at[2]]]
              g == [p \in Putting("add") \ Outrun |-> Head(put[p].tasks)]
  <1>1. \A t \in Stored : \E b \in Buckets : \E i \in 1..Len(bucket[b]) : bucket[b][i] = t
    BY Indices DEF Stored
  <1>2. \A b \in Buckets : \A i \in 1..Len(bucket[b]) : <<b, i>> \in Places
    BY Indices, BucketAssumption DEF Places, BucketShape
  <1>3. f \in [Places -> Stored]
    BY Indices DEF Places, Stored
  <1>4. \A t \in Stored : \E at \in Places : f[at] = t
    <2>. SUFFICES ASSUME NEW t \in Stored PROVE \E at \in Places : f[at] = t
      OBVIOUS
    <2>1. PICK b \in Buckets : \E i \in 1..Len(bucket[b]) : bucket[b][i] = t
      BY <1>1
    <2>3. PICK i \in 1..Len(bucket[b]) : bucket[b][i] = t
      BY <2>1
    <2>2. <<b, i>> \in Places /\ f[<<b, i>>] = t
      BY <1>2, <2>3
    <2>. QED
      BY <2>2
  <1>5. f \in Surjection(Places, Stored)
    BY <1>3, <1>4 DEF Surjection
  <1>. HIDE DEF f
  <1>6. IsFiniteSet(Stored) /\ Cardinality(Stored) <= Sizes
    BY <1>5, PlacesFinite, FS_Surjection DEF Sizes
  <1>7. \A p \in Putting("add") : 1 \in 1..Len(put[p].tasks) /\ Head(put[p].tasks) = put[p].tasks[1]
    <2>1. \A p \in Putting("add") : put[p].tasks \in Seq(Tasks) /\ put[p].tasks # <<>>
      BY DEF Putting, PutShape, PutRecords
    <2>. QED
      BY <2>1, EmptySeq, HeadTailProperties, LenProperties
  <1>8. g \in [Putting("add") \ Outrun -> Stored \cap Uncounted]
    BY DEF Outrun, Uncounted
  <1>9. \A p, q \in Putting("add") \ Outrun : g[p] = g[q] => p = q
    BY <1>7 DEF Handed, Putting
  <1>10. g \in Injection(Putting("add") \ Outrun, Stored \cap Uncounted)
    BY <1>8, <1>9 DEF Injection, IsInjective
  <1>. HIDE DEF g
  <1>11. IsFiniteSet(Stored \cap Uncounted)
    BY <1>6, FS_Subset
  <1>. QED
    BY <1>6, <1>10, <1>11, FS_Injection

(* Who is told ErrQueueClosed reads totalSize = 0: no more tasks are       *)
(* stored than there are producers that have not counted theirs, and each  *)
(* of these accounts for its own task where that is still stored.          *)
LEMMA QuitStep ==
  ASSUME IInv, Next, quit' # quit
  PROVE  closed /\ Cardinality(Left) <= Cardinality(Outrun)
  <1>1. PICK c \in Consumers : PopLocks(c)
    BY DEF Next, PutStep, PopStep, BeginPush, BeginBatch, PushChecks, BucketTakes,
       BucketRefuses, PushAdds, PushSignals, BatchBroadcasts, BeginPop, PopReadsAgain,
       PopWaits, PopCounts, PopScans, PopScansInVain, PopSubtracts, CloseBegins, ClosesBucket,
       CloseEnds
  <1>2. closed /\ totalSize = 0
    BY <1>1 DEF PopLocks
  <1>. DEFINE Adding == Putting("add")
  <1>3. /\ Sizes \in Nat /\ IsFiniteSet(Adding) /\ Cardinality(Adding) \in Nat
        /\ Cardinality(Popping("sub")) \in Nat
    BY PlacesFinite, CallersFinite, FS_CardinalityType
  <1>4. 0 = Sizes - Cardinality(Adding) + Cardinality(Popping("sub"))
    BY <1>2 DEF IInv, TotalCounts
  <1>5. /\ Cardinality(Left) = Cardinality(Stored) - Cardinality(Stored \cap Uncounted)
        /\ IsFiniteSet(Left) /\ IsFiniteSet(Stored \cap Uncounted)
    BY StoredCounted, FS_Difference, FS_Subset DEF Left
  <1>6. /\ Cardinality(Adding \ Outrun) = Cardinality(Adding) - Cardinality(Outrun)
        /\ IsFiniteSet(Adding \ Outrun) /\ IsFiniteSet(Outrun)
    <2>1. Outrun \subseteq Adding /\ Adding \cap Outrun = Outrun
      BY DEF Outrun
    <2>. QED
      BY <1>3, <2>1, FS_Difference, FS_Subset
  <1>7. /\ Cardinality(Left) \in Nat /\ Cardinality(Outrun) \in Nat /\ Cardinality(Stored) \in Nat
        /\ Cardinality(Stored \cap Uncounted) \in Nat /\ Cardinality(Adding \ Outrun) \in Nat
    BY <1>5, <1>6, StoredCounted, FS_CardinalityType
  <1>. QED
    BY <1>2, <1>3, <1>4, <1>5, <1>6, <1>7, StoredCounted

(* No worker is sent home over a task whose Push has counted it, but for   *)
(* one for each producer whose own task was taken before it was counted    *)
(* (priority_queue.go Push and Pop).                                       *)
THEOREM PriorityQueueQuits == Spec => QuitLeaves
  <1>1. IInv /\ [Next]_vars =>
           [quit' # quit => closed /\ Cardinality(Left) <= Cardinality(Outrun)]_vars
    BY QuitStep
  <1>. QED
    BY <1>1, Invariance, PTL DEF Spec, QuitLeaves
==============================================================================
