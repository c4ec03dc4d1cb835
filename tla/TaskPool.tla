------------------------------ MODULE TaskPool -------------------------------
(***************************************************************************)
(* The task pool of pkg/taskpool: callers submit tasks, workers take them  *)
(* from the bounded queue and run them, Resize and the scaling loop change *)
(* the number of workers, Shutdown and ShutdownNow end the pool.           *)
(*                                                                         *)
(* The queue is the FIFO buffer that RingQueue implements (RefinesFifo):   *)
(* a blocking Push waits while it is full and a blocking Pop while it is   *)
(* empty, until it is closed.  Every read or write of an atomic, a channel *)
(* or the queue, and every stretch under p.mu, is an action of its own.    *)
(***************************************************************************)
EXTENDS Integers, Sequences, FiniteSets

CONSTANTS
    Submitters,    \* goroutines that submit tasks
    Calls,         \* by Submit ("push"), SubmitAsync ("pushAsync") or
                   \* SubmitAndWait ("pushWait")
    Resizers,      \* goroutines that call Resize
    Closers,       \* goroutines that call Shutdown or ShutdownNow
    Modes,         \* which of "Shutdown" and "ShutdownNow" they may call
    Tasks,         \* each is submitted at most once (newTask numbers them)
    TimedTasks,    \* those with a Timeout
    Workers,       \* identities for worker goroutines; a bound on their number
    MinWorkers, MaxWorkers, QueueSize,
    AutoScale,     \* whether New starts scaleLoop
    NoTask

ASSUME BoundsAssumption ==
    /\ MinWorkers \in Nat
    /\ MaxWorkers \in Nat
    /\ MinWorkers <= MaxWorkers
    /\ QueueSize \in Nat \ {0}
ASSUME TasksAssumption ==
    /\ TimedTasks \subseteq Tasks
    /\ NoTask \notin Tasks
    /\ AutoScale \in BOOLEAN
    /\ Modes \subseteq {"Shutdown", "ShutdownNow"}
    /\ Calls \subseteq {"push", "pushAsync", "pushWait"}
ASSUME WorkersAssumption ==
    /\ IsFiniteSet(Workers)
    /\ Cardinality(Workers) >= MinWorkers

VARIABLES
    queue, qclosed,  \* the tasks in p.queue, and whether it is closed
    closed,          \* p.closed
    cancelled,       \* p.ctx is cancelled
    scaleCancelled,  \* p.scaleCtx is cancelled
    workers,         \* p.workers
    stopped,         \* running workers whose stopChan is closed
    wpc,             \* worker -> where its goroutine is; "none": no goroutine
    job,             \* worker -> the task it executes
    fn,              \* task -> its function: "none", "running", "ok" or "panic"
    future,          \* task -> its Future: "none", "open" or how it completed
    counted,         \* tasks that Metrics.recordTaskComplete has counted
    accepted,        \* tasks whose Push returned nil
    call,            \* submitter -> its call: where it is and with which task
    resize,          \* resizer -> workers it has still to add (> 0) or remove
    scaler,          \* scaleLoop: where it is, and what it has read so far
    closer           \* closer -> where its Shutdown or ShutdownNow is

queueVars == <<queue, qclosed>>
callVars == <<accepted, call>>
runVars == <<job, fn, counted>>
sizeVars == <<workers, stopped, resize, scaler>>
endVars == <<closed, cancelled, scaleCancelled, closer>>
vars == <<queueVars, callVars, runVars, sizeVars, endVars, wpc, future>>

Outcomes == {"done", "panic", "timeout"}
InSlice == {workers[i] : i \in DOMAIN workers}
Live == {w \in Workers : wpc[w] # "none"}
Running == {w \in Workers : wpc[w] \in {"select", "finish"} \cup Outcomes}  \* p.runningTasks
Spare == {w \in Workers : wpc[w] = "none" /\ w \notin InSlice}
AllDone == Live = {} /\ scaler.at = "exited"    \* p.wg is zero

Idle == [at |-> "idle", task |-> NoTask]
Asleep == [at |-> "ticker", queueLen |-> 0, runningTasks |-> 0, left |-> 0]

TypeOK ==
    /\ queue \in Seq(Tasks) /\ Len(queue) <= QueueSize
    /\ {qclosed, closed, cancelled, scaleCancelled} \subseteq BOOLEAN
    /\ workers \in Seq(Workers)
    /\ stopped \subseteq Workers
    /\ wpc \in [Workers -> {"none", "loop", "pop", "start", "select", "finish"} \cup Outcomes]
    /\ job \in [Workers -> Tasks \cup {NoTask}]
    /\ fn \in [Tasks -> {"none", "running", "ok", "panic"}]
    /\ future \in [Tasks -> {"none", "open", "ErrPoolClosed", "ErrQueueClosed"} \cup Outcomes]
    /\ counted \subseteq Tasks
    /\ accepted \subseteq Tasks
    /\ call \in [Submitters -> [at : {"idle", "push", "pushAsync", "pushWait", "await"},
                                task : Tasks \cup {NoTask}]]
    /\ resize \in [Resizers -> Int]
    /\ scaler \in [at : {"ticker", "readRunning", "readWorkers", "scale", "exited"},
                   queueLen : 0..QueueSize, runningTasks : Nat, left : Int]
    /\ closer \in [Closers -> {"idle", "nil", "timeout", "now",
                               "drained", "S.close", "S.scale", "S.wait", "S.done",
                               "N.scale", "N.cancel", "N.close", "N.wait"}]

(* New starts MinWorkers workers, and the scaling loop if asked to.        *)
Init ==
    /\ queue = <<>>
    /\ qclosed = FALSE /\ closed = FALSE
    /\ cancelled = FALSE /\ scaleCancelled = FALSE
    /\ \E first \in {s \in [1..MinWorkers -> Workers] :
                        \A i, j \in 1..MinWorkers : s[i] = s[j] => i = j} :
          /\ workers = first
          /\ wpc = [w \in Workers |-> IF \E i \in 1..MinWorkers : first[i] = w
                                      THEN "loop" ELSE "none"]
    /\ stopped = {}
    /\ job = [w \in Workers |-> NoTask]
    /\ fn = [t \in Tasks |-> "none"]
    /\ future = [t \in Tasks |-> "none"]
    /\ counted = {}
    /\ accepted = {}
    /\ call = [s \in Submitters |-> Idle]
    /\ resize = [r \in Resizers |-> 0]
    /\ scaler = [Asleep EXCEPT !.at = IF AutoScale THEN "ticker" ELSE "exited"]
    /\ closer = [k \in Closers |-> "idle"]

------------------------------------------------------------------------------
(* Submitting.  p.closed is read first and the task is pushed later;       *)
(* BatchSubmit is a caller that submits its tasks one after the other.     *)

Fresh(t) ==
    /\ t \notin accepted
    /\ future[t] = "none"
    /\ \A s \in Submitters : call[s].task # t

(* Submit ("push"), SubmitAsync ("pushAsync") or SubmitAndWait ("pushWait"), *)
(* up to the Push.  SubmitAsync makes no Future.                           *)
BeginSubmit(s, t, push) ==
    /\ call[s] = Idle
    /\ Fresh(t)
    /\ \/ /\ closed
          /\ push # "pushAsync"
          /\ future' = [future EXCEPT ![t] = "ErrPoolClosed"]
          /\ UNCHANGED call
       \/ /\ ~closed
          /\ future' = [future EXCEPT ![t] = IF push = "pushAsync" THEN "none" ELSE "open"]
          /\ call' = [call EXCEPT ![s] = [at |-> push, task |-> t]]
    /\ UNCHANGED <<queueVars, accepted, runVars, sizeVars, endVars, wpc>>

(* After the Push, SubmitAndWait waits and the others return.              *)
Pushed(s) ==
    call' = [call EXCEPT ![s] = IF @.at = "pushWait" THEN [@ EXCEPT !.at = "await"] ELSE Idle]

PushAccepted(s) ==
    /\ call[s].at \in {"push", "pushAsync", "pushWait"}
    /\ ~qclosed
    /\ Len(queue) < QueueSize
    /\ queue' = Append(queue, call[s].task)
    /\ accepted' = accepted \cup {call[s].task}
    /\ Pushed(s)
    /\ UNCHANGED <<qclosed, runVars, sizeVars, endVars, wpc, future>>

(* Submit completes the Future itself; SubmitAsync returns the error, also *)
(* that of a full queue.                                                   *)
PushRefused(s) ==
    /\ call[s].at \in {"push", "pushAsync", "pushWait"}
    /\ \/ qclosed
       \/ call[s].at = "pushAsync" /\ Len(queue) = QueueSize
    /\ future' = [future EXCEPT ![call[s].task] =
                     IF call[s].at = "pushAsync" THEN "none" ELSE "ErrQueueClosed"]
    /\ Pushed(s)
    /\ UNCHANGED <<queueVars, accepted, runVars, sizeVars, endVars, wpc>>

AwaitReturns(s) ==
    /\ call[s].at = "await"
    /\ future[call[s].task] # "open"
    /\ call' = [call EXCEPT ![s] = Idle]
    /\ UNCHANGED <<queueVars, accepted, runVars, sizeVars, endVars, wpc, future>>

(* The context of SubmitAndWait ends first; the task goes on.              *)
AwaitCancelled(s) ==
    /\ call[s].at = "await"
    /\ call' = [call EXCEPT ![s] = Idle]
    /\ UNCHANGED <<queueVars, accepted, runVars, sizeVars, endVars, wpc, future>>

------------------------------------------------------------------------------
(* A worker: run and executeTask.                                          *)

WorkerAt(w, pc) == wpc' = [wpc EXCEPT ![w] = pc]

(* The select at the head of the loop.                                     *)
WorkerLoops(w) ==
    /\ wpc[w] = "loop"
    /\ IF cancelled \/ w \in stopped
       THEN /\ WorkerAt(w, "none")
            /\ stopped' = stopped \ {w}
       ELSE /\ WorkerAt(w, "pop")
            /\ UNCHANGED stopped
    /\ UNCHANGED <<queueVars, callVars, runVars, workers, resize, scaler, endVars, future>>

(* Mutant: after Close a worker leaves although tasks are queued.          *)
WorkerPopsUnlessClosed(w) ==
    /\ wpc[w] = "pop"
    /\ \/ /\ queue # <<>>
          /\ ~qclosed
          /\ job' = [job EXCEPT ![w] = Head(queue)]
          /\ queue' = Tail(queue)
          /\ WorkerAt(w, "start")
          /\ UNCHANGED stopped
       \/ /\ qclosed
          /\ WorkerAt(w, "none")
          /\ stopped' = stopped \ {w}
          /\ UNCHANGED <<job, queue>>
    /\ UNCHANGED <<qclosed, callVars, fn, counted, workers, resize, scaler, endVars, future>>

(* Mutant: a worker looks at its stop channel again after Pop, and leaves. *)
WorkerPopsThenStops(w) ==
    /\ wpc[w] = "pop"
    /\ \/ /\ queue # <<>>
          /\ job' = IF w \in stopped THEN job ELSE [job EXCEPT ![w] = Head(queue)]
          /\ queue' = Tail(queue)
          /\ WorkerAt(w, IF w \in stopped THEN "none" ELSE "start")
          /\ stopped' = stopped \ {w}
       \/ /\ queue = <<>>
          /\ qclosed
          /\ WorkerAt(w, "none")
          /\ stopped' = stopped \ {w}
          /\ UNCHANGED <<job, queue>>
    /\ UNCHANGED <<qclosed, callVars, fn, counted, workers, resize, scaler, endVars, future>>

(* Pop(true): the stop channel is not looked at while it waits, so a       *)
(* worker that was removed in the meantime still takes one task.           *)
WorkerPops(w) ==
    /\ wpc[w] = "pop"
    /\ \/ /\ queue # <<>>
          /\ job' = [job EXCEPT ![w] = Head(queue)]
          /\ queue' = Tail(queue)
          /\ WorkerAt(w, "start")
          /\ UNCHANGED stopped
       \/ /\ queue = <<>>
          /\ qclosed
          /\ WorkerAt(w, "none")
          /\ stopped' = stopped \ {w}
          /\ UNCHANGED <<job, queue>>
    /\ UNCHANGED <<qclosed, callVars, fn, counted, workers, resize, scaler, endVars, future>>

(* runningTasks is incremented, the function gets a goroutine of its own.  *)
StartTask(w) ==
    /\ wpc[w] = "start"
    /\ fn' = [fn EXCEPT ![job[w]] = "running"]
    /\ WorkerAt(w, "select")
    /\ UNCHANGED <<queueVars, callVars, job, counted, sizeVars, endVars, future>>

FnReturns(t) ==
    /\ fn[t] = "running"
    /\ \E how \in {"ok", "panic"} : fn' = [fn EXCEPT ![t] = how]
    /\ UNCHANGED <<queueVars, callVars, job, counted, sizeVars, endVars, wpc, future>>

(* The select of executeTask: taskCtx ends with the pool's context or when *)
(* the timeout of the task runs out, and the function may still run.       *)
TaskOutcome(w) ==
    /\ wpc[w] = "select"
    /\ \/ fn[job[w]] = "ok" /\ WorkerAt(w, "done")
       \/ fn[job[w]] = "panic" /\ WorkerAt(w, "panic")
       \/ (cancelled \/ job[w] \in TimedTasks) /\ WorkerAt(w, "timeout")
    /\ UNCHANGED <<queueVars, callVars, runVars, sizeVars, endVars, future>>

(* The deferred calls, last one first: the metrics, the Future, and then   *)
(* runningTasks goes down.                                                 *)
RecordTask(w) ==
    /\ wpc[w] \in Outcomes
    /\ job[w] \notin counted
    /\ counted' = counted \cup {job[w]}
    /\ UNCHANGED <<queueVars, callVars, job, fn, sizeVars, endVars, wpc, future>>

(* Mutant: the Future is completed without waiting for the metrics.        *)
CompleteFirst(w) ==
    /\ wpc[w] \in Outcomes
    /\ future' = IF future[job[w]] = "none" THEN future
                 ELSE [future EXCEPT ![job[w]] = wpc[w]]
    /\ WorkerAt(w, "finish")
    /\ UNCHANGED <<queueVars, callVars, runVars, sizeVars, endVars>>

CompleteFuture(w) ==
    /\ wpc[w] \in Outcomes
    /\ job[w] \in counted
    /\ future' = IF future[job[w]] = "none" THEN future
                 ELSE [future EXCEPT ![job[w]] = wpc[w]]
    /\ WorkerAt(w, "finish")
    /\ UNCHANGED <<queueVars, callVars, runVars, sizeVars, endVars>>

FinishTask(w) ==
    /\ wpc[w] = "finish"
    /\ job' = [job EXCEPT ![w] = NoTask]
    /\ WorkerAt(w, "loop")
    /\ UNCHANGED <<queueVars, callVars, fn, counted, sizeVars, endVars, future>>

WorkerStep(w) ==
    \/ WorkerLoops(w) \/ WorkerPops(w) \/ StartTask(w) \/ TaskOutcome(w)
    \/ RecordTask(w) \/ CompleteFuture(w) \/ FinishTask(w)

------------------------------------------------------------------------------
(* The number of workers: p.mu is held by one addWorker or removeWorker at *)
(* a time, but not between the steps of Resize or checkAndScale.           *)

addWorker ==
    \E w \in Spare :
        /\ workers' = Append(workers, w)
        /\ UNCHANGED stopped
        /\ WorkerAt(w, "loop")

(* The last worker is cut from the slice and told to stop.                 *)
removeWorker ==
    /\ IF workers = <<>> THEN UNCHANGED <<workers, stopped>>
       ELSE /\ workers' = SubSeq(workers, 1, Len(workers) - 1)
            /\ stopped' = stopped \cup ({workers[Len(workers)]} \cap Live)
    /\ UNCHANGED wpc

(* Mutant: the range of n is not checked.                                  *)
ResizeAnywhere(r, n) ==
    /\ resize[r] = 0
    /\ resize' = [resize EXCEPT ![r] = n - Len(workers)]
    /\ UNCHANGED <<queueVars, callVars, runVars, workers, stopped, scaler, endVars, wpc, future>>

(* Resize(n) reads currentWorkers once and goes by that.                   *)
Resize(r, n) ==
    /\ resize[r] = 0
    /\ MinWorkers <= n /\ n <= MaxWorkers
    /\ resize' = [resize EXCEPT ![r] = n - Len(workers)]
    /\ UNCHANGED <<queueVars, callVars, runVars, workers, stopped, scaler, endVars, wpc, future>>

ResizeStep(r) ==
    /\ \/ /\ resize[r] > 0
          /\ addWorker
          /\ resize' = [resize EXCEPT ![r] = @ - 1]
       \/ /\ resize[r] < 0
          /\ removeWorker
          /\ resize' = [resize EXCEPT ![r] = @ + 1]
    /\ UNCHANGED <<queueVars, callVars, runVars, scaler, endVars, future>>

(* Mutant: ScaleUpCount does not cut the step at the maximum.              *)
ScaleByWholeSteps(queueLen, runningTasks, current) ==
    IF current < MaxWorkers /\ 10 * queueLen > 8 * QueueSize THEN 2
    ELSE IF /\ current > MinWorkers
            /\ 10 * queueLen < 2 * QueueSize
            /\ 2 * runningTasks < current
    THEN -1
    ELSE 0

(* The default strategy: two more workers when the queue is more than 0.8  *)
(* full, one less when it is less than 0.2 full and fewer than half of the *)
(* workers run a task, within MinWorkers and MaxWorkers.                   *)
ScaleBy(queueLen, runningTasks, current) ==
    IF current < MaxWorkers /\ 10 * queueLen > 8 * QueueSize
    THEN IF current + 2 > MaxWorkers THEN MaxWorkers - current ELSE 2
    ELSE IF /\ current > MinWorkers
            /\ 10 * queueLen < 2 * QueueSize
            /\ 2 * runningTasks < current
    THEN -1
    ELSE 0

ScaleTick ==
    /\ scaler.at = "ticker"
    /\ scaler' = [scaler EXCEPT !.at = "readRunning", !.queueLen = Len(queue)]
    /\ UNCHANGED <<queueVars, callVars, runVars, workers, stopped, resize, endVars, wpc, future>>

ScaleReadsRunning ==
    /\ scaler.at = "readRunning"
    /\ scaler' = [scaler EXCEPT !.at = "readWorkers", !.runningTasks = Cardinality(Running)]
    /\ UNCHANGED <<queueVars, callVars, runVars, workers, stopped, resize, endVars, wpc, future>>

ScaleDecides ==
    /\ scaler.at = "readWorkers"
    /\ LET left == ScaleBy(scaler.queueLen, scaler.runningTasks, Len(workers))
       IN  scaler' = IF left = 0 THEN Asleep
                     ELSE [Asleep EXCEPT !.at = "scale", !.left = left]
    /\ UNCHANGED <<queueVars, callVars, runVars, workers, stopped, resize, endVars, wpc, future>>

ScaleStep ==
    /\ scaler.at = "scale"
    /\ \/ /\ scaler.left > 0
          /\ addWorker
          /\ scaler' = IF scaler.left = 1 THEN Asleep ELSE [scaler EXCEPT !.left = @ - 1]
       \/ /\ scaler.left < 0
          /\ removeWorker
          /\ scaler' = IF scaler.left = -1 THEN Asleep ELSE [scaler EXCEPT !.left = @ + 1]
    /\ UNCHANGED <<queueVars, callVars, runVars, resize, endVars, future>>

ScaleLoopEnds ==
    /\ scaler.at = "ticker"
    /\ scaleCancelled
    /\ scaler' = [scaler EXCEPT !.at = "exited"]
    /\ UNCHANGED <<queueVars, callVars, runVars, workers, stopped, resize, endVars, wpc, future>>

------------------------------------------------------------------------------
(* Shutdown and ShutdownNow.  Whoever finds p.closed already set returns   *)
(* nil at once, however far the other call has got.                        *)

CloserAt(k, at) == closer' = [closer EXCEPT ![k] = at]

SwapClosed(k, mode) ==
    /\ closer[k] = "idle"
    /\ CloserAt(k, IF closed THEN "nil" ELSE IF mode = "Shutdown" THEN "S.close" ELSE "N.scale")
    /\ closed' = TRUE
    /\ UNCHANGED <<queueVars, callVars, runVars, sizeVars, cancelled, scaleCancelled, wpc, future>>

CloseQueue(k) ==
    /\ \/ closer[k] = "S.close" /\ CloserAt(k, "S.scale")
       \/ closer[k] = "N.close" /\ CloserAt(k, "N.wait")
    /\ qclosed' = TRUE
    /\ UNCHANGED <<queue, callVars, runVars, sizeVars, closed, cancelled, scaleCancelled, wpc, future>>

(* Mutant: the scaling loop is not told to end.                            *)
CancelScalingForgotten(k) ==
    /\ \/ closer[k] = "S.scale" /\ CloserAt(k, "S.wait")
       \/ closer[k] = "N.scale" /\ CloserAt(k, "N.cancel")
    /\ UNCHANGED <<queueVars, callVars, runVars, sizeVars, closed, cancelled, scaleCancelled,
                   wpc, future>>

CancelScaling(k) ==
    /\ \/ closer[k] = "S.scale" /\ CloserAt(k, "S.wait")
       \/ closer[k] = "N.scale" /\ CloserAt(k, "N.cancel")
    /\ scaleCancelled' = TRUE
    /\ UNCHANGED <<queueVars, callVars, runVars, sizeVars, closed, cancelled, wpc, future>>

CancelNow(k) ==
    /\ closer[k] = "N.cancel"
    /\ CloserAt(k, "N.close")
    /\ cancelled' = TRUE
    /\ UNCHANGED <<queueVars, callVars, runVars, sizeVars, closed, scaleCancelled, wpc, future>>

(* wg.Wait returns; in Shutdown it does so in a goroutine of its own.      *)
WaitReturns(k) ==
    /\ AllDone
    /\ \/ closer[k] = "S.wait" /\ CloserAt(k, "S.done")
       \/ closer[k] = "N.wait" /\ CloserAt(k, "now")
    /\ UNCHANGED <<queueVars, callVars, runVars, sizeVars, closed, cancelled, scaleCancelled,
                   wpc, future>>

ShutdownDrained(k) ==
    /\ closer[k] = "S.done"
    /\ CloserAt(k, "drained")
    /\ cancelled' = TRUE
    /\ UNCHANGED <<queueVars, callVars, runVars, sizeVars, closed, scaleCancelled, wpc, future>>

(* The context given to Shutdown ends first.                               *)
ShutdownTimesOut(k) ==
    /\ closer[k] \in {"S.wait", "S.done"}
    /\ CloserAt(k, "timeout")
    /\ cancelled' = TRUE
    /\ UNCHANGED <<queueVars, callVars, runVars, sizeVars, closed, scaleCancelled, wpc, future>>

CloserStep(k) ==
    \/ CloseQueue(k) \/ CancelScaling(k) \/ CancelNow(k)
    \/ WaitReturns(k) \/ ShutdownDrained(k)

------------------------------------------------------------------------------
Next ==
    \/ \E s \in Submitters :
          \/ \E t \in Tasks, push \in Calls : BeginSubmit(s, t, push)
          \/ PushAccepted(s) \/ PushRefused(s)
          \/ AwaitReturns(s) \/ AwaitCancelled(s)
    \/ \E w \in Workers : WorkerStep(w)
    \/ \E t \in Tasks : FnReturns(t)
    \/ \E r \in Resizers : ResizeStep(r) \/ \E n \in 0 .. MaxWorkers + 1 : Resize(r, n)
    \/ ScaleTick \/ ScaleReadsRunning \/ ScaleDecides \/ ScaleStep \/ ScaleLoopEnds
    \/ \E k \in Closers :
          \/ \E mode \in Modes : SwapClosed(k, mode)
          \/ CloserStep(k) \/ ShutdownTimesOut(k)

Spec == Init /\ [][Next]_vars

(* Goroutines that can go on do, the function of a task without a Timeout  *)
(* returns and a Timeout runs out.  Nobody has to submit, resize or close, *)
(* and neither context of a caller has to end.  Strong fairness: select    *)
(* chooses at random among the channels that are ready, and a WaitGroup    *)
(* releases its waiters whenever its counter reaches zero.                 *)
Fairness ==
    /\ \A w \in Workers : WF_vars(WorkerStep(w))
    /\ \A t \in Tasks \ TimedTasks : WF_vars(FnReturns(t))
    /\ \A s \in Submitters : WF_vars(PushAccepted(s) \/ PushRefused(s) \/ AwaitReturns(s))
    /\ \A r \in Resizers : WF_vars(ResizeStep(r))
    /\ WF_vars(ScaleReadsRunning \/ ScaleDecides \/ ScaleStep)
    /\ SF_vars(ScaleLoopEnds)
    /\ \A k \in Closers : WF_vars(CloserStep(k)) /\ SF_vars(WaitReturns(k))

FairSpec == Spec /\ Fairness

------------------------------------------------------------------------------
(* A task that Push accepted is in the queue or with one worker until its  *)
(* execution has been counted, and in one place only, whatever the workers *)
(* are told meanwhile: none is lost by a worker that is stopped or told to *)
(* leave, none runs twice (worker.go run, executeTask).                    *)
TaskInOnePlace ==
    \A t \in Tasks :
        LET places == Cardinality({i \in DOMAIN queue : queue[i] = t})
                      + Cardinality({w \in Workers : job[w] = t})
        IN  /\ places <= 1
            /\ t \in accepted \ counted => places = 1
            /\ t \notin accepted => places = 0 /\ fn[t] = "none"

(* A Future tells what happened: "done" and "panic" only after the function *)
(* ended that way, ErrTimeout only for a Timeout or a cancelled pool, an   *)
(* error of Push only for a task nobody will run; and whoever has seen a   *)
(* result of an execution finds it in the metrics.                         *)
FutureHonest ==
    \A t \in Tasks :
        /\ future[t] = "done" => fn[t] = "ok"
        /\ future[t] = "panic" => fn[t] = "panic"
        /\ future[t] = "timeout" => t \in TimedTasks \/ cancelled
        /\ future[t] \in {"ErrPoolClosed", "ErrQueueClosed"} => t \notin accepted
        /\ future[t] \in Outcomes => t \in counted

(* Every worker counted in p.workers serves: it has a goroutine that has   *)
(* not been told to stop, unless the pool is being closed.                 *)
SliceServes ==
    /\ \A i, j \in DOMAIN workers : workers[i] = workers[j] => i = j
    /\ InSlice \cap stopped = {}
    /\ ~qclosed /\ ~cancelled => InSlice \subseteq Live

(* MinWorkers and MaxWorkers bound the number of workers, as long as one   *)
(* caller at a time, Resize or the scaling loop, adds and removes them; and *)
(* each of them serves.                                                    *)
WorkersBounded ==
    /\ TypeOK /\ SliceServes
    /\ MinWorkers <= Len(workers) /\ Len(workers) <= MaxWorkers

(* When Shutdown has waited for the workers and returns nil, every task    *)
(* that was ever accepted has been executed, its Future is complete and    *)
(* the metrics have it; only a task with a Timeout was given up.  A worker *)
(* that Resize adds after that finds nothing to do.                        *)
ShutdownDrains ==
    \A k \in Closers : closer[k] = "drained" =>
        /\ queue = <<>>
        /\ accepted = counted
        /\ \A t \in accepted : future[t] # "open"
                               /\ (fn[t] \notin {"ok", "panic"} => t \in TimedTasks)

(* Tasks are given up: by ShutdownNow, or by a Shutdown that ran out of    *)
(* time.                                                                   *)
Discarding ==
    \E k \in Closers :
        closer[k] \in {"timeout", "N.scale", "N.cancel", "N.close", "N.wait", "now"}

(* An accepted task is executed, whichever workers are stopped and however *)
(* the pool shrinks, as long as no task is discarded.                      *)
AcceptedIsRun == \A t \in Tasks : t \in accepted ~> t \in counted \/ Discarding

(* SubmitAndWait returns, whatever happens to the task and also when it is *)
(* refused because Shutdown came first, as long as no task is discarded.   *)
SubmitReturns == \A s \in Submitters : call[s] # Idle ~> call[s] = Idle \/ Discarding

(* Shutdown and ShutdownNow return, also while functions run on, Resize    *)
(* adds workers and the scaling loop ticks.                                *)
ShutdownReturns ==
    \A k \in Closers :
        closer[k] # "idle" ~> closer[k] \in {"nil", "drained", "timeout", "now"}

(* Nobody who calls the pool waits for ever (taskpool.go:109-206).         *)
CallsReturn == SubmitReturns /\ ShutdownReturns
==============================================================================
