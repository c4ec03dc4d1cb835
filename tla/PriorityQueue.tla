---------------------------- MODULE PriorityQueue ----------------------------
(***************************************************************************)
(* The priority queue of pkg/taskpool/priority_queue.go: one RingQueue per *)
(* range of priorities, and a counter and a condition variable of its own. *)
(*                                                                         *)
(* Push touches its bucket, the counter and the condition variable in      *)
(* three steps and without pq.mu; Pop reads the counter twice under pq.mu  *)
(* and the buckets one by one without it.  Each of these is an action.     *)
(* A bucket is the FIFO that RingQueue implements (RefinesFifo): a         *)
(* blocking Push on it goes on when there is room or it is closed.         *)
(***************************************************************************)
EXTENDS Integers, Sequences, FiniteSets

CONSTANTS
    BucketCount, BucketCapacity, PriorityRange,
    StarvationN,   \* every StarvationN-th Pop scans from the lowest bucket
    Tasks,
    Priority,      \* task -> its Priority
    Producers, Consumers,
    BatchSizes,    \* the lengths of the lists given to BatchPush
    PopModes,      \* the arguments given to Pop
    Nobody, Closer, NoTask

ASSUME BucketAssumption ==
    /\ {BucketCount, BucketCapacity, PriorityRange} \subseteq Nat \ {0}
    /\ StarvationN \in Nat
    /\ Priority \in [Tasks -> Nat]
ASSUME CallersAssumption ==
    /\ IsFiniteSet(Producers) /\ IsFiniteSet(Consumers)
    /\ BatchSizes \subseteq Nat \ {0}
    /\ PopModes \subseteq BOOLEAN
    /\ NoTask \notin Tasks
    /\ {Nobody, Closer} \cap Consumers = {} /\ Nobody # Closer

VARIABLES
    bucket,        \* bucket number -> its tasks, oldest first
    shut,          \* the buckets that have been closed
    closed,
    totalSize,
    consumeCount,  \* taken modulo StarvationN
    mu,            \* who keeps pq.mu from one step to the next: a consumer, Closer
    notEmpty,      \* consumers inside notEmpty.Wait, first in line first
    put,           \* producer -> where its Push is, and what it has to store
    pop,           \* consumer -> where its Pop is
    quit           \* workers whose loop ended: Pop told them ErrQueueClosed

buckets == <<bucket, shut>>
vars == <<bucket, shut, closed, totalSize, consumeCount, mu, notEmpty, put, pop, quit>>

Buckets == 0 .. BucketCount - 1
Stored == {t \in Tasks : \E b \in Buckets : \E i \in DOMAIN bucket[b] : bucket[b][i] = t}
NoPut == [at |-> "idle", tasks |-> <<>>, batch |-> FALSE, blocking |-> TRUE]
NoPop == [at |-> "idle", blocking |-> TRUE, forced |-> FALSE, next |-> 0, task |-> NoTask]
Putting(at) == {p \in Producers : put[p].at = at}
Popping(at) == {c \in Consumers : pop[c].at = at}

TypeOK ==
    /\ bucket \in [Buckets -> Seq(Tasks)]
    /\ \A b \in Buckets : Len(bucket[b]) <= BucketCapacity
    /\ shut \subseteq Buckets
    /\ closed \in BOOLEAN
    /\ totalSize \in Int
    /\ consumeCount \in 0..StarvationN
    /\ mu \in Consumers \cup {Nobody, Closer}
    /\ notEmpty \in Seq(Consumers)
    /\ put \in [Producers -> [at : {"idle", "push", "bucket", "add", "signal", "broadcast"},
                              tasks : Seq(Tasks), batch : BOOLEAN, blocking : BOOLEAN]]
    /\ \A p \in Producers : put[p].tasks = <<>> => put[p].at \in {"idle", "broadcast"}
    /\ pop \in [Consumers -> [at : {"idle", "top", "again", "wait", "asleep", "count",
                                    "scan", "sub"},
                              blocking : BOOLEAN, forced : BOOLEAN,
                              next : -1 .. BucketCount, task : Tasks \cup {NoTask}]]
    /\ quit \subseteq Consumers

Init ==
    /\ bucket = [b \in Buckets |-> <<>>]
    /\ shut = {}
    /\ closed = FALSE
    /\ totalSize = 0
    /\ consumeCount = 0
    /\ mu = Nobody
    /\ notEmpty = <<>>
    /\ put = [p \in Producers |-> NoPut]
    /\ pop = [c \in Consumers |-> NoPop]
    /\ quit = {}

------------------------------------------------------------------------------
(* Push and BatchPush.                                                     *)

BucketIdx(t) ==
    LET idx == Priority[t] \div PriorityRange
    IN  IF idx >= BucketCount THEN BucketCount - 1 ELSE idx

(* A producer keeps no task that is still in the queue or being taken.     *)
Fresh(t) ==
    /\ t \notin Stored
    /\ \A p \in Producers : \A i \in DOMAIN put[p].tasks : put[p].tasks[i] # t
    /\ \A c \in Consumers : pop[c].task # t

PutAt(p, at) == put' = [put EXCEPT ![p].at = at]

(* The call ends, or BatchPush goes on with its next task.                 *)
PutNext(p) ==
    LET rest == Tail(put[p].tasks)
    IN  put' = [put EXCEPT ![p] =
                  IF ~@.batch THEN NoPut
                  ELSE [@ EXCEPT !.tasks = rest,
                                 !.at = IF rest = <<>> THEN "broadcast" ELSE "push"]]

BeginPush(p, t, blocking) ==
    /\ put[p] = NoPut
    /\ Fresh(t)
    /\ put' = [put EXCEPT ![p] = [at |-> "push", tasks |-> <<t>>, batch |-> FALSE,
                                  blocking |-> blocking]]
    /\ UNCHANGED <<buckets, closed, totalSize, consumeCount, mu, notEmpty, pop, quit>>

(* BatchPush looks at closed once, and Push does so again for every task.  *)
BeginBatch(p, ts) ==
    /\ put[p] = NoPut
    /\ mu = Nobody
    /\ ~closed
    /\ \A i \in DOMAIN ts : Fresh(ts[i]) /\ \A j \in DOMAIN ts : ts[i] = ts[j] => i = j
    /\ put' = [put EXCEPT ![p] = [at |-> "push", tasks |-> ts, batch |-> TRUE,
                                  blocking |-> TRUE]]
    /\ UNCHANGED <<buckets, closed, totalSize, consumeCount, mu, notEmpty, pop, quit>>

(* The look at closed, under pq.mu.                                        *)
PushChecks(p) ==
    /\ put[p].at = "push"
    /\ mu = Nobody
    /\ put' = IF closed THEN [put EXCEPT ![p] = NoPut] ELSE [put EXCEPT ![p].at = "bucket"]
    /\ UNCHANGED <<buckets, closed, totalSize, consumeCount, mu, notEmpty, pop, quit>>

BucketTakes(p) ==
    LET t == Head(put[p].tasks)
        b == BucketIdx(t)
    IN  /\ put[p].at = "bucket"
        /\ b \notin shut
        /\ Len(bucket[b]) < BucketCapacity
        /\ bucket' = [bucket EXCEPT ![b] = Append(@, t)]
        /\ PutAt(p, "add")
        /\ UNCHANGED <<shut, closed, totalSize, consumeCount, mu, notEmpty, pop, quit>>

(* Mutant: the error of the bucket is not looked at.                       *)
BucketRefusesUnnoticed(p) ==
    LET b == BucketIdx(Head(put[p].tasks))
    IN  /\ put[p].at = "bucket"
        /\ b \in shut \/ (~put[p].blocking /\ Len(bucket[b]) = BucketCapacity)
        /\ PutAt(p, "add")
        /\ UNCHANGED <<buckets, closed, totalSize, consumeCount, mu, notEmpty, pop, quit>>

(* ErrQueueClosed, or ErrQueueFull for a Push that does not wait; the rest *)
(* of a BatchPush is given up.                                             *)
BucketRefuses(p) ==
    LET b == BucketIdx(Head(put[p].tasks))
    IN  /\ put[p].at = "bucket"
        /\ b \in shut \/ (~put[p].blocking /\ Len(bucket[b]) = BucketCapacity)
        /\ put' = [put EXCEPT ![p] = NoPut]
        /\ UNCHANGED <<buckets, closed, totalSize, consumeCount, mu, notEmpty, pop, quit>>

PushAdds(p) ==
    /\ put[p].at = "add"
    /\ totalSize' = totalSize + 1
    /\ PutAt(p, "signal")
    /\ UNCHANGED <<buckets, closed, consumeCount, mu, notEmpty, pop, quit>>

(* notEmpty.Signal, with no lock held.                                     *)
PushSignals(p) ==
    /\ put[p].at = "signal"
    /\ IF notEmpty = <<>> THEN UNCHANGED <<notEmpty, pop>>
       ELSE /\ notEmpty' = Tail(notEmpty)
            /\ pop' = [pop EXCEPT ![Head(notEmpty)].at = "top"]
    /\ PutNext(p)
    /\ UNCHANGED <<buckets, closed, totalSize, consumeCount, mu, quit>>

WakeAll ==
    /\ notEmpty' = <<>>
    /\ pop' = [c \in Consumers |->
                 IF pop[c].at = "asleep" THEN [pop[c] EXCEPT !.at = "top"] ELSE pop[c]]

BatchBroadcasts(p) ==
    /\ put[p].at = "broadcast"
    /\ WakeAll
    /\ put' = [put EXCEPT ![p] = NoPut]
    /\ UNCHANGED <<buckets, closed, totalSize, consumeCount, mu, quit>>

------------------------------------------------------------------------------
(* Pop.                                                                    *)

PopAt(c, at) == pop' = [pop EXCEPT ![c].at = at]
PopReturns(c) == pop' = [pop EXCEPT ![c] = NoPop]

BeginPop(c, blocking) ==
    /\ pop[c] = NoPop
    /\ c \notin quit
    /\ pop' = [pop EXCEPT ![c] = [NoPop EXCEPT !.at = "top", !.blocking = blocking]]
    /\ UNCHANGED <<buckets, closed, totalSize, consumeCount, mu, notEmpty, put, quit>>

(* Mutant: a closed queue is left although tasks are counted.              *)
PopLocksAndLeaves(c) ==
    /\ pop[c].at = "top"
    /\ mu = Nobody
    /\ \/ /\ closed
          /\ quit' = quit \cup {c}
          /\ PopReturns(c)
          /\ UNCHANGED mu
       \/ /\ ~closed
          /\ mu' = c
          /\ PopAt(c, "again")
          /\ UNCHANGED quit
    /\ UNCHANGED <<buckets, closed, totalSize, consumeCount, notEmpty, put>>

(* pq.mu is locked, and closed and the counter are read.  A worker that is *)
(* told ErrQueueClosed ends its loop.                                      *)
PopLocks(c) ==
    /\ pop[c].at = "top"
    /\ mu = Nobody
    /\ \/ /\ closed /\ totalSize = 0
          /\ quit' = quit \cup {c}
          /\ PopReturns(c)
          /\ UNCHANGED mu
       \/ /\ ~(closed /\ totalSize = 0)
          /\ mu' = c
          /\ PopAt(c, "again")
          /\ UNCHANGED quit
    /\ UNCHANGED <<buckets, closed, totalSize, consumeCount, notEmpty, put>>

(* The counter is read a second time, pq.mu still being held.              *)
PopReadsAgain(c) ==
    /\ pop[c].at = "again"
    /\ \/ /\ totalSize # 0
          /\ mu' = Nobody
          /\ PopAt(c, "count")
       \/ /\ totalSize = 0
          /\ ~pop[c].blocking
          /\ mu' = Nobody
          /\ PopReturns(c)
       \/ /\ totalSize = 0
          /\ pop[c].blocking
          /\ PopAt(c, "wait")
          /\ UNCHANGED mu
    /\ UNCHANGED <<buckets, closed, totalSize, consumeCount, notEmpty, put, quit>>

(* notEmpty.Wait: the caller joins the line and releases pq.mu.  Woken, it *)
(* starts again at the top.                                                *)
PopWaits(c) ==
    /\ pop[c].at = "wait"
    /\ notEmpty' = Append(notEmpty, c)
    /\ mu' = Nobody
    /\ PopAt(c, "asleep")
    /\ UNCHANGED <<buckets, closed, totalSize, consumeCount, put, quit>>

(* Mutant: no Pop is sent to the lowest bucket first.                      *)
PopCountsNothing(c) ==
    /\ pop[c].at = "count"
    /\ pop' = [pop EXCEPT ![c].at = "scan", ![c].next = BucketCount - 1]
    /\ UNCHANGED <<buckets, closed, totalSize, consumeCount, mu, notEmpty, put, quit>>

PopCounts(c) ==
    /\ pop[c].at = "count"
    /\ consumeCount' = IF StarvationN = 0 THEN 0 ELSE (consumeCount + 1) % StarvationN
    /\ LET forced == StarvationN > 0 /\ consumeCount' = 0
       IN  pop' = [pop EXCEPT ![c].at = "scan", ![c].forced = forced,
                              ![c].next = IF forced THEN 0 ELSE BucketCount - 1]
    /\ UNCHANGED <<buckets, closed, totalSize, mu, notEmpty, put, quit>>

(* Pop(false) on the next bucket of the scan.                              *)
PopScans(c) ==
    /\ pop[c].at = "scan"
    /\ pop[c].next \in Buckets
    /\ LET b == pop[c].next
       IN  IF bucket[b] = <<>>
           THEN /\ pop' = [pop EXCEPT ![c].next = IF pop[c].forced THEN @ + 1 ELSE @ - 1]
                /\ UNCHANGED bucket
           ELSE /\ pop' = [pop EXCEPT ![c].at = "sub", ![c].task = Head(bucket[b])]
                /\ bucket' = [bucket EXCEPT ![b] = Tail(@)]
    /\ UNCHANGED <<shut, closed, totalSize, consumeCount, mu, notEmpty, put, quit>>

(* Every bucket was found empty: start again, or return nil.               *)
PopScansInVain(c) ==
    /\ pop[c].at = "scan"
    /\ pop[c].next \notin Buckets
    /\ pop' = [pop EXCEPT ![c] = IF @.blocking THEN [NoPop EXCEPT !.at = "top"] ELSE NoPop]
    /\ UNCHANGED <<buckets, closed, totalSize, consumeCount, mu, notEmpty, put, quit>>

PopSubtracts(c) ==
    /\ pop[c].at = "sub"
    /\ totalSize' = totalSize - 1
    /\ PopReturns(c)
    /\ UNCHANGED <<buckets, closed, consumeCount, mu, notEmpty, put, quit>>

------------------------------------------------------------------------------
(* Close keeps pq.mu until it has closed the buckets, from the lowest up,  *)
(* and woken all that wait.                                                *)

CloseBegins ==
    /\ mu = Nobody
    /\ ~closed
    /\ closed' = TRUE
    /\ mu' = Closer
    /\ UNCHANGED <<buckets, totalSize, consumeCount, notEmpty, put, pop, quit>>

ClosesBucket ==
    /\ mu = Closer
    /\ shut # Buckets
    /\ shut' = shut \cup {Cardinality(shut)}
    /\ UNCHANGED <<bucket, closed, totalSize, consumeCount, mu, notEmpty, put, pop, quit>>

CloseEnds ==
    /\ mu = Closer
    /\ shut = Buckets
    /\ WakeAll
    /\ mu' = Nobody
    /\ UNCHANGED <<buckets, closed, totalSize, consumeCount, put, quit>>

------------------------------------------------------------------------------
PutStep(p) ==
    \/ PushChecks(p) \/ BucketTakes(p) \/ BucketRefuses(p)
    \/ PushAdds(p) \/ PushSignals(p) \/ BatchBroadcasts(p)

PopStep(c) ==
    \/ PopLocks(c) \/ PopReadsAgain(c) \/ PopWaits(c) \/ PopCounts(c)
    \/ PopScans(c) \/ PopScansInVain(c) \/ PopSubtracts(c)

Lists == UNION {[1..n -> Tasks] : n \in BatchSizes}

Next ==
    \/ \E p \in Producers :
          \/ \E t \in Tasks, blocking \in BOOLEAN : BeginPush(p, t, blocking)
          \/ \E ts \in Lists : BeginBatch(p, ts)
          \/ PutStep(p)
    \/ \E c \in Consumers :
          \/ \E blocking \in PopModes : BeginPop(c, blocking)
          \/ PopStep(c)
    \/ CloseBegins \/ ClosesBucket \/ CloseEnds

Spec == Init /\ [][Next]_vars

(* Goroutines that can go on do, and a worker calls Pop(true) again until  *)
(* it is told ErrQueueClosed.  That a mutex is granted to everyone who     *)
(* waits for it is not assumed.                                            *)
Fairness ==
    /\ \A p \in Producers : WF_vars(PutStep(p))
    /\ \A c \in Consumers : WF_vars(PopStep(c)) /\ WF_vars(BeginPop(c, TRUE))
    /\ WF_vars(ClosesBucket \/ CloseEnds)

FairSpec == Spec /\ Fairness

------------------------------------------------------------------------------
Places == {at \in Buckets \X (1..BucketCapacity) : at[2] \in DOMAIN bucket[at[1]]}
Sizes == Cardinality(Places)

(* totalSize, which Push and Pop update after the bucket and without       *)
(* pq.mu, is the number of stored tasks up to the calls between their two  *)
(* updates: it never drifts, but it may be off both ways, and be negative. *)
TotalCounts ==
    totalSize = Sizes - Cardinality(Putting("add")) + Cardinality(Popping("sub"))

(* Each stored task is in the bucket of its priority, in no other, once,   *)
(* and in nobody's hands.                                                  *)
TaskInItsBucket ==
    \A b \in Buckets : \A i \in DOMAIN bucket[b] :
        LET t == bucket[b][i]
        IN  /\ b = IF Priority[t] < PriorityRange * (BucketCount - 1)
                   THEN Priority[t] \div PriorityRange ELSE BucketCount - 1
            /\ \A d \in Buckets : \A j \in DOMAIN bucket[d] : bucket[d][j] = t => d = b /\ j = i
            /\ \A c \in Consumers : pop[c].task # t

(* Buckets and counter are what Pop takes them for (priority_queue.go).    *)
BucketsConsistent == TypeOK /\ TotalCounts /\ TaskInItsBucket

(* What is left when a worker is told ErrQueueClosed: the stored tasks     *)
(* that their Push has counted, and the producers whose task was taken     *)
(* before they counted it.                                                 *)
Uncounted == {Head(put[p].tasks) : p \in Putting("add")}
Left == Stored \ Uncounted
Outrun == {p \in Putting("add") : Head(put[p].tasks) \notin Stored}

(* A worker that is told ErrQueueClosed leaves a task behind whose Push    *)
(* has counted it only where another task was taken between the two steps  *)
(* of its own Push, one for each: the calls of Push that are between their *)
(* steps never hide more tasks than that (priority_queue.go:60-65, 72).    *)
QuitLeaves ==
    [][quit' # quit => closed /\ Cardinality(Left) <= Cardinality(Outrun)]_vars

(* Starvation prevention: as long as tasks are taken at all, the lowest    *)
(* bucket is served, however many tasks of a higher priority come in.      *)
Taken == \E c \in Consumers : pop[c].at = "sub"
LowestIsServed ==
    \A t \in Tasks :
        BucketIdx(t) = 0 =>
            \/ <>[](~Taken)
            \/ t \in Stored ~> t \notin Stored

(* The workers do not all sleep in notEmpty.Wait over tasks that have been *)
(* counted, unless a producer is about to wake one of them.                *)
NoSleepOverTasks ==
    totalSize > 0 /\ Consumers \ quit # {} /\ Consumers \ quit \subseteq Popping("asleep")
        => Putting("signal") \cup Putting("broadcast") # {}

(* "Shutdown: close when all tasks are done" (README.md:228): when the     *)
(* last worker leaves, every stored task whose Push has counted it, and    *)
(* may have returned long before Close, has been taken.                    *)
WorkersLeaveNone ==
    [][quit' = Consumers /\ quit # Consumers => Left = {}]_vars
==============================================================================
