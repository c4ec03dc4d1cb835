------------------------------ MODULE RingQueue ------------------------------
(***************************************************************************)
(* The blocking ring queue of pkg/taskpool/queue.go, shared by goroutines  *)
(* that submit tasks (Producers) and workers that take them (Consumers).   *)
(*                                                                         *)
(* q.mu is held from the start of a call, or from the return of a Wait, to *)
(* the next Wait or the return: each such stretch of code is one action.   *)
(* notEmpty and notFull are the waiters of the two condition variables,    *)
(* in the order sync.Cond wakes them; awake holds the goroutines a Signal  *)
(* or Broadcast has released and that have not got q.mu back yet, so that  *)
(* another call may run before them and take what they were woken for.     *)
(***************************************************************************)
EXTENDS Integers, Sequences, FiniteSets

CONSTANTS
    Capacity,    \* capacity given to NewRingQueue
    Producers,   \* goroutines that call Push and BatchPush
    Consumers,   \* goroutines that call Pop
    Tasks,
    Nil,         \* the nil *Task
    BatchSizes   \* the lengths of the lists given to BatchPush

ASSUME CapacityAssumption == Capacity \in Nat \ {0}
ASSUME BatchAssumption == BatchSizes \subseteq Nat \ {0}
ASSUME CallersAssumption ==
    /\ IsFiniteSet(Producers)
    /\ IsFiniteSet(Consumers)
    /\ Producers \cap Consumers = {}
ASSUME NilAssumption == Nil \notin Tasks

VARIABLES
    buffer, head, tail, size, closed,
    notEmpty,    \* consumers inside q.notEmpty.Wait, first in line first
    notFull,     \* producers inside q.notFull.Wait, first in line first
    awake,       \* callers woken from a Wait that do not hold q.mu yet
    pending,     \* producer -> tasks its suspended call still has to store
    batching,    \* producers whose suspended call is a BatchPush
    answer,      \* the last call that returned: its caller, error and task
    quit         \* workers whose loop ended: Pop told them ErrQueueClosed

ring == <<buffer, head, tail, size>>
vars == <<buffer, head, tail, size, closed,
          notEmpty, notFull, awake, pending, batching, answer, quit>>

Callers == Producers \cup Consumers
Slots == 0 .. Capacity - 1
Errors == {"none", "nil", "ErrQueueClosed", "ErrQueueFull"}
Lists == UNION {[1..n -> Tasks] : n \in BatchSizes}

Answer(t, err, task) == [to |-> t, err |-> err, task |-> task]
Elems(s) == {s[i] : i \in DOMAIN s}
Waiting == Elems(notEmpty) \cup Elems(notFull)
Idle(t) == t \notin awake \cup Waiting
Full == size = Capacity

TypeOK ==
    /\ buffer \in [Slots -> Tasks \cup {Nil}]
    /\ head \in Slots
    /\ tail \in Slots
    /\ size \in 0..Capacity
    /\ closed \in BOOLEAN
    /\ notEmpty \in Seq(Consumers)
    /\ notFull \in Seq(Producers)
    /\ awake \in SUBSET Callers
    /\ pending \in [Producers -> Seq(Tasks)]
    /\ batching \in SUBSET Producers
    /\ answer \in [to : Callers \cup {Nil}, err : Errors, task : Tasks \cup {Nil}]
    /\ quit \in SUBSET Consumers

Init ==
    /\ buffer = [i \in Slots |-> Nil]
    /\ head = 0
    /\ tail = 0
    /\ size = 0
    /\ closed = FALSE
    /\ notEmpty = <<>>
    /\ notFull = <<>>
    /\ awake = {}
    /\ pending = [p \in Producers |-> <<>>]
    /\ batching = {}
    /\ answer = Answer(Nil, "none", Nil)
    /\ quit = {}

------------------------------------------------------------------------------
(* Condition variables.  Signal releases the waiter that has waited        *)
(* longest, Broadcast all of them.                                         *)

Signalled(waiters) == IF waiters = <<>> THEN {} ELSE {Head(waiters)}
AfterSignal(waiters) == IF waiters = <<>> THEN waiters ELSE Tail(waiters)

(* The first k tasks of ts go into the ring at tail.                       *)
Put(ts, k) ==
    /\ buffer' = [i \in Slots |->
                    LET n == (i - tail + Capacity) % Capacity
                    IN  IF n < k THEN ts[n + 1] ELSE buffer[i]]
    /\ tail' = (tail + k) % Capacity
    /\ size' = size + k
    /\ UNCHANGED head

(* A producer's call returns, or waits on notFull with ts left to store.   *)
Return(p, err) ==
    /\ pending' = [pending EXCEPT ![p] = <<>>]
    /\ batching' = batching \ {p}
    /\ answer' = Answer(p, err, Nil)
    /\ UNCHANGED <<notFull, quit>>

WaitNotFull(p, ts) ==
    /\ notFull' = Append(notFull, p)
    /\ pending' = [pending EXCEPT ![p] = ts]
    /\ UNCHANGED <<answer, quit>>

------------------------------------------------------------------------------
(* Push, from q.mu.Lock or from the return of notFull.Wait.                *)

(* Mutant: Push does not look at closed after its wait loop.               *)
PushStoresAfterClose(p, task) ==
    /\ ~Full
    /\ Put(<<task>>, 1)
    /\ Return(p, "nil")
    /\ awake' = (awake \ {p}) \cup Signalled(notEmpty)
    /\ notEmpty' = AfterSignal(notEmpty)
    /\ UNCHANGED closed

PushStores(p, task) ==
    /\ ~Full
    /\ ~closed
    /\ Put(<<task>>, 1)
    /\ Return(p, "nil")
    /\ awake' = (awake \ {p}) \cup Signalled(notEmpty)
    /\ notEmpty' = AfterSignal(notEmpty)
    /\ UNCHANGED closed

PushRefused(p) ==
    /\ closed
    /\ Return(p, "ErrQueueClosed")
    /\ awake' = awake \ {p}
    /\ UNCHANGED <<ring, closed, notEmpty>>

PushFull(p) ==
    /\ Full
    /\ ~closed
    /\ Return(p, "ErrQueueFull")
    /\ UNCHANGED <<ring, closed, notEmpty, awake>>

PushWaits(p, task) ==
    /\ Full
    /\ ~closed
    /\ WaitNotFull(p, <<task>>)
    /\ awake' = awake \ {p}
    /\ UNCHANGED <<ring, closed, notEmpty, batching>>

Push(p, task, blocking) ==
    /\ Idle(p)
    /\ \/ PushStores(p, task)
       \/ PushRefused(p)
       \/ blocking /\ PushWaits(p, task)
       \/ ~blocking /\ PushFull(p)

PushResumes(p) ==
    /\ p \in awake
    /\ p \notin batching
    /\ \/ PushStores(p, Head(pending[p]))
       \/ PushRefused(p)
       \/ PushWaits(p, Head(pending[p]))

------------------------------------------------------------------------------
(* BatchPush stores while there is room, then waits for more; it announces *)
(* its tasks with one Broadcast after the last, and once started it looks  *)
(* at closed only when it finds the ring full.                             *)

BatchFills(p, ts) ==
    LET room == Capacity - size
        k == IF Len(ts) <= room THEN Len(ts) ELSE room
    IN  /\ Put(ts, k)
        /\ \/ /\ k = Len(ts)
              /\ Return(p, "nil")
              /\ awake' = (awake \ {p}) \cup Elems(notEmpty)
              /\ notEmpty' = <<>>
           \/ /\ k < Len(ts)
              /\ closed
              /\ Return(p, "ErrQueueClosed")
              /\ awake' = awake \ {p}
              /\ UNCHANGED notEmpty
           \/ /\ k < Len(ts)
              /\ ~closed
              /\ WaitNotFull(p, SubSeq(ts, k + 1, Len(ts)))
              /\ awake' = awake \ {p}
              /\ batching' = batching \cup {p}
              /\ UNCHANGED notEmpty
        /\ UNCHANGED closed

BatchPush(p, ts) ==
    /\ Idle(p)
    /\ \/ PushRefused(p)
       \/ ~closed /\ BatchFills(p, ts)

BatchResumes(p) ==
    /\ p \in awake \cap batching
    /\ BatchFills(p, pending[p])

------------------------------------------------------------------------------
(* Pop, from q.mu.Lock or from the return of notEmpty.Wait.  A worker that *)
(* is told ErrQueueClosed ends its loop (worker.go run).                   *)

(* Mutant: Pop forgets notFull.Signal.                                     *)
PopTakesSilently(c) ==
    /\ size > 0
    /\ answer' = Answer(c, "nil", buffer[head])
    /\ buffer' = [buffer EXCEPT ![head] = Nil]
    /\ head' = (head + 1) % Capacity
    /\ size' = size - 1
    /\ awake' = awake \ {c}
    /\ UNCHANGED <<tail, closed, notEmpty, notFull, pending, batching, quit>>

(* Mutant: Pop leaves the task in its slot.                                *)
PopTakesKeepingSlot(c) ==
    /\ size > 0
    /\ answer' = Answer(c, "nil", buffer[head])
    /\ head' = (head + 1) % Capacity
    /\ size' = size - 1
    /\ awake' = (awake \ {c}) \cup Signalled(notFull)
    /\ notFull' = AfterSignal(notFull)
    /\ UNCHANGED <<buffer, tail, closed, notEmpty, pending, batching, quit>>

PopTakes(c) ==
    /\ size > 0
    /\ answer' = Answer(c, "nil", buffer[head])
    /\ buffer' = [buffer EXCEPT ![head] = Nil]
    /\ head' = (head + 1) % Capacity
    /\ size' = size - 1
    /\ awake' = (awake \ {c}) \cup Signalled(notFull)
    /\ notFull' = AfterSignal(notFull)
    /\ UNCHANGED <<tail, closed, notEmpty, pending, batching, quit>>

(* Mutant: Pop looks at closed before it looks for a task.                 *)
PopReturnsLeaving(c, err) ==
    /\ size = 0 \/ closed
    /\ answer' = Answer(c, err, Nil)
    /\ awake' = awake \ {c}
    /\ quit' = IF closed THEN quit \cup {c} ELSE quit
    /\ UNCHANGED <<ring, closed, notEmpty, notFull, pending, batching>>

PopReturns(c, err) ==
    /\ size = 0
    /\ answer' = Answer(c, err, Nil)
    /\ awake' = awake \ {c}
    /\ quit' = IF closed THEN quit \cup {c} ELSE quit
    /\ UNCHANGED <<ring, closed, notEmpty, notFull, pending, batching>>

PopWaits(c) ==
    /\ size = 0
    /\ ~closed
    /\ notEmpty' = Append(notEmpty, c)
    /\ awake' = awake \ {c}
    /\ UNCHANGED <<ring, closed, notFull, pending, batching, answer, quit>>

Pop(c, blocking) ==
    /\ Idle(c)
    /\ c \notin quit
    /\ \/ PopTakes(c)
       \/ closed /\ PopReturns(c, "ErrQueueClosed")
       \/ ~closed /\ ~blocking /\ PopReturns(c, "nil")
       \/ blocking /\ PopWaits(c)

PopResumes(c) ==
    /\ c \in awake
    /\ \/ PopTakes(c)
       \/ closed /\ PopReturns(c, "ErrQueueClosed")
       \/ PopWaits(c)

(* Close a second time changes nothing.                                    *)
Close ==
    /\ ~closed
    /\ closed' = TRUE
    /\ awake' = awake \cup Waiting
    /\ notEmpty' = <<>>
    /\ notFull' = <<>>
    /\ UNCHANGED <<ring, pending, batching, answer, quit>>

------------------------------------------------------------------------------
Next ==
    \/ \E p \in Producers :
          \/ \E task \in Tasks, blocking \in BOOLEAN : Push(p, task, blocking)
          \/ \E ts \in Lists : BatchPush(p, ts)
          \/ PushResumes(p)
          \/ BatchResumes(p)
    \/ \E c \in Consumers :
          \/ \E blocking \in BOOLEAN : Pop(c, blocking)
          \/ PopResumes(c)
    \/ Close

Spec == Init /\ [][Next]_vars

(* A worker calls Pop(true) again until it is told ErrQueueClosed; the     *)
(* scheduler lets a woken goroutine take q.mu sooner or later.  Producers  *)
(* may stop calling.                                                       *)
Fairness ==
    /\ \A p \in Producers : WF_vars(PushResumes(p)) /\ WF_vars(BatchResumes(p))
    /\ \A c \in Consumers : WF_vars(PopResumes(c)) /\ WF_vars(Pop(c, TRUE))

FairSpec == Spec /\ Fairness

------------------------------------------------------------------------------
(* The i-th oldest task, and the buffer as the callers see it.             *)
Slot(i) == (head + i) % Capacity
Contents == [i \in 1..size |-> buffer[Slot(i - 1)]]

(* The indices, the size and the slots of RingQueue agree: tail is where   *)
(* the size tasks from head end, those slots hold tasks and all the others *)
(* have been cleared, so that no Pop returns nil for a task and no popped  *)
(* task is kept alive by the ring (queue.go Push, Pop, BatchPush).         *)
RingConsistent ==
    /\ tail = Slot(size)
    /\ \A i \in 0 .. Capacity - 1 : buffer[Slot(i)] # Nil <=> i < size

(* Together with the types: what every operation finds and leaves.         *)
RingInvariant == TypeOK /\ RingConsistent

(* A worker sleeps in notEmpty.Wait over a stored task only while enough   *)
(* other workers are awake to take every stored task, or while a BatchPush *)
(* still has to announce its tasks: no Signal of Push is lost although a   *)
(* Pop that was never waiting may take the task it was sent for.           *)
NoLostWakeup ==
    notEmpty # <<>> /\ batching = {} => size <= Cardinality(awake \cap Consumers)

(* A producer sleeps in notFull.Wait beside a free slot only while enough  *)
(* other producers are awake to fill every free slot.                      *)
NoLostSlot ==
    notFull # <<>> => Capacity - size <= Cardinality(awake \cap Producers)

(* After Close nobody sleeps and nobody goes to sleep again.               *)
ClosedWakesAll == closed => Waiting = {}

(* No signal of either condition variable is lost, although Push and Pop   *)
(* wake one waiter, who may come too late, and Close wakes all.            *)
NoLostSignal == NoLostWakeup /\ NoLostSlot /\ ClosedWakesAll

(* The queue implements the bounded FIFO buffer.                           *)
Fifo == INSTANCE BoundedFifo WITH items <- Contents, owed <- pending
RefinesFifo == Fifo!Spec

(* While the queue is open the oldest task does not stay: some worker      *)
(* takes it, whoever keeps pushing and whichever worker was signalled.     *)
OldestIsTaken ==
    \A i \in Slots : (size > 0 /\ head = i) ~> (head # i \/ closed)

(* A producer blocked in Push or BatchPush is woken sooner or later: the   *)
(* workers keep freeing slots and Signal serves the longest waiter first.  *)
WaiterIsWoken ==
    \A p \in Producers : p \in Elems(notFull) ~> p \notin Elems(notFull)

(* After Close every call returns and the workers, each of which keeps     *)
(* popping until it is told ErrQueueClosed, leave nothing behind: what     *)
(* the drain of TaskPool.Shutdown rests on.  A BatchPush that was          *)
(* suspended when the last worker left may still store tasks: excluded.    *)
ClosedDrains ==
    closed /\ batching = {} /\ quit # Consumers
        ~> [](size = 0 /\ \A p \in Producers : pending[p] = <<>>)

(* What TaskPool needs of its queue (queue.go:39-142).                     *)
QueueServes == OldestIsTaken /\ WaiterIsWoken /\ ClosedDrains
==============================================================================
