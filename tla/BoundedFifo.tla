----------------------------- MODULE BoundedFifo -----------------------------
(***************************************************************************)
(* What a taskpool Queue promises its callers: a bounded first-in          *)
(* first-out buffer.  A producer owes the tasks of the call it is inside   *)
(* of; they enter the buffer in order, some or all at a time, each once.   *)
(* A consumer takes the oldest task, and learns that the queue is closed   *)
(* only when nothing is left to take.                                      *)
(***************************************************************************)
EXTENDS Integers, Sequences

CONSTANTS Capacity, Producers, Consumers, Tasks, Nil,
    BatchSizes  \* how many tasks one BatchPush may ask to store

VARIABLES
    items,      \* the tasks in the buffer, oldest first
    closed,     \* whether Close has been called
    owed,       \* producer -> the tasks its call has not stored yet
    answer      \* the last call that returned: its caller, error and task

vars == <<items, closed, owed, answer>>

Answer(t, err, task) == [to |-> t, err |-> err, task |-> task]

Init ==
    /\ items = <<>>
    /\ closed = FALSE
    /\ owed = [p \in Producers |-> <<>>]
    /\ answer = Answer(Nil, "none", Nil)

(* A call asks for ts to be stored.  The first k of them are stored at     *)
(* once; the call answers only if it is finished or must give up.          *)
Store(p, ts, k) ==
    /\ k \in 0..Len(ts)
    /\ Len(items) + k <= Capacity
    /\ items' = items \o SubSeq(ts, 1, k)
    /\ \/ /\ k = Len(ts)
          /\ owed' = [owed EXCEPT ![p] = <<>>]
          /\ answer' = Answer(p, "nil", Nil)
       \/ /\ k < Len(ts)
          /\ owed' = [owed EXCEPT ![p] = SubSeq(ts, k + 1, Len(ts))]
          /\ UNCHANGED answer
       \/ /\ k < Len(ts)
          /\ closed
          /\ owed' = [owed EXCEPT ![p] = <<>>]
          /\ answer' = Answer(p, "ErrQueueClosed", Nil)
    /\ UNCHANGED closed

(* A call that gives up and stores nothing more.                           *)
Refuse(p, err) ==
    /\ owed' = [owed EXCEPT ![p] = <<>>]
    /\ answer' = Answer(p, err, Nil)
    /\ UNCHANGED <<items, closed>>

Lists == UNION {[1..n -> Tasks] : n \in BatchSizes \cup {1}}

(* Only an open queue accepts a new call, and only a full one may refuse   *)
(* it with ErrQueueFull, when the call would not wait.                     *)
NewCall(p) ==
    /\ owed[p] = <<>>
    /\ \/ /\ ~closed
          /\ \E ts \in Lists : \E k \in 0..Len(ts) : Store(p, ts, k)
       \/ closed /\ Refuse(p, "ErrQueueClosed")
       \/ Len(items) = Capacity /\ Refuse(p, "ErrQueueFull")

(* A call already begun may go on storing after Close.                     *)
GoOn(p) ==
    /\ owed[p] # <<>>
    /\ \/ \E k \in 1..Len(owed[p]) : Store(p, owed[p], k)
       \/ closed /\ Refuse(p, "ErrQueueClosed")

Take(c) ==
    /\ items # <<>>
    /\ items' = Tail(items)
    /\ answer' = Answer(c, "nil", Head(items))
    /\ UNCHANGED <<closed, owed>>

TakeNothing(c) ==
    /\ items = <<>>
    /\ \E err \in {"nil", "ErrQueueClosed"} :
          /\ err = "ErrQueueClosed" <=> closed
          /\ answer' = Answer(c, err, Nil)
    /\ UNCHANGED <<items, closed, owed>>

Shut ==
    /\ closed' = TRUE
    /\ UNCHANGED <<items, owed, answer>>

Next ==
    \/ \E p \in Producers : NewCall(p) \/ GoOn(p)
    \/ \E c \in Consumers : Take(c) \/ TakeNothing(c)
    \/ Shut

Spec == Init /\ [][Next]_vars
==============================================================================
