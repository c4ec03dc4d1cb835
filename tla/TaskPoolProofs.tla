---------------------------- MODULE TaskPoolProofs -----------------------------
(* What TaskPool promises of the tasks, of their Futures, of the number of *)
(* workers and of Shutdown, for every set of callers, workers and tasks,   *)
(* every queue size and whichever calls are made, with the proofs.         *)
EXTENDS TaskPool, TLAPS, FiniteSetTheorems, SequenceTheorems

Pushing == {"push", "pushAsync", "pushWait"}
Holding == {"start", "select", "finish"} \cup Outcomes

(* What the fields hold. *)
QueueShape == queue \in Seq(Tasks) /\ Len(queue) <= QueueSize /\ qclosed \in BOOLEAN
WorkerShape ==
    /\ wpc \in [Workers -> {"none", "loop", "pop"} \cup Holding]
    /\ job \in [Workers -> Tasks \cup {NoTask}]
    /\ \A w \in Workers : job[w] # NoTask <=> wpc[w] \in Holding
TaskShape ==
    /\ fn \in [Tasks -> {"none", "running", "ok", "panic"}]
    /\ future \in [Tasks -> {"none", "open", "ErrPoolClosed", "ErrQueueClosed"} \cup Outcomes]
    /\ counted \subseteq accepted /\ accepted \subseteq Tasks
CallShape ==
    /\ call \in [Submitters -> [at : {"idle", "await"} \cup Pushing, task : Tasks \cup {NoTask}]]
    /\ \A s \in Submitters : call[s].task = NoTask <=> call[s].at = "idle"
SizeShape ==
    /\ workers \in Seq(Workers) /\ stopped \subseteq Workers
    /\ resize \in [Resizers -> Int]
    /\ scaler \in [at : {"ticker", "readRunning", "readWorkers", "scale", "exited"},
                   queueLen : 0..QueueSize, runningTasks : Nat, left : Int]
EndShape ==
    /\ closed \in BOOLEAN /\ cancelled \in BOOLEAN /\ scaleCancelled \in BOOLEAN
    /\ closer \in [Closers -> {"idle", "nil", "timeout", "now",
                               "drained", "S.close", "S.scale", "S.wait", "S.done",
                               "N.scale", "N.cancel", "N.close", "N.wait"}]
Shape == QueueShape /\ WorkerShape /\ TaskShape /\ CallShape /\ SizeShape /\ EndShape

(* A task that is being pushed belongs to one call, has not been accepted  *)
(* and its Future is not complete.                                         *)
Submitted ==
    /\ \A r, s \in Submitters : call[r].task = call[s].task /\ call[s].task # NoTask => r = s
    /\ \A s \in Submitters : call[s].at \in Pushing =>
          call[s].task \notin accepted /\ future[call[s].task] \in {"none", "open"}

(* An accepted task is in the queue, or a worker holds it, until it has    *)
(* been counted, and nowhere twice.                                        *)
InQueue(t) == \E i \in 1..Len(queue) : queue[i] = t
Held(t) == \E w \in Workers : job[w] = t
Placed ==
    /\ \A i, j \in 1..Len(queue) : queue[i] = queue[j] => i = j
    /\ \A v, w \in Workers : job[v] = job[w] /\ job[w] # NoTask => v = w
    /\ \A i \in 1..Len(queue) : queue[i] \in accepted \ counted /\ ~Held(queue[i])
    /\ \A w \in Workers : job[w] # NoTask => job[w] \in accepted
    /\ \A w \in Workers : wpc[w] \in {"start", "select"} => job[w] \notin counted
    /\ \A w \in Workers : wpc[w] = "finish" => job[w] \in counted
    /\ \A t \in accepted \ counted : InQueue(t) \/ Held(t)

(* The function of a task ends before its outcome is taken, unless the     *)
(* task is given up.                                                       *)
GivenUp(t) == t \in TimedTasks \/ cancelled
Executed ==
    /\ \A t \in Tasks \ accepted : fn[t] = "none"
    /\ \A w \in Workers : /\ wpc[w] = "done" => fn[job[w]] = "ok"
                          /\ wpc[w] = "panic" => fn[job[w]] = "panic"
                          /\ wpc[w] = "timeout" => GivenUp(job[w])
    /\ \A t \in counted : fn[t] \in {"ok", "panic"} \/ GivenUp(t)

(* A Future is completed with the outcome that the worker has found, and   *)
(* by no one else.                                                         *)
Completed ==
    /\ FutureHonest
    /\ \A i \in 1..Len(queue) : future[queue[i]] \in {"none", "open"}
    /\ \A w \in Workers : wpc[w] \in {"start", "select"} \cup Outcomes =>
          future[job[w]] \in {"none", "open"}
    /\ \A t \in counted : future[t] = "open" =>
          \E w \in Workers : job[w] = t /\ wpc[w] \in Outcomes

(* The workers of the slice serve as long as there may be something to do. *)
Serving ==
    /\ \A i, j \in 1..Len(workers) : workers[i] = workers[j] => i = j
    /\ \A i \in 1..Len(workers) : workers[i] \notin stopped
    /\ \A w \in stopped : wpc[w] # "none"
    /\ ~cancelled /\ (~qclosed \/ queue # <<>>) =>
          \A i \in 1..Len(workers) : wpc[workers[i]] # "none"

(* One call shuts the pool down.                                           *)
Closing ==
    /\ ~closed => ~cancelled /\ \A k \in Closers : closer[k] = "idle"
    /\ \A j, k \in Closers : {closer[j], closer[k]} \cap {"idle", "nil"} = {} => j = k
    /\ \A k \in Closers : closer[k] \in {"S.scale", "S.wait", "S.done", "drained"} => qclosed
    /\ \A k \in Closers : closer[k] \in {"S.close", "S.scale", "S.wait", "S.done"} => ~cancelled

(* If one caller at a time changes the number of workers, that number and  *)
(* what it is on its way to are within the limits.                         *)
OneResizer == (AutoScale => Resizers = {}) /\ \A q, r \in Resizers : q = r
Sized ==
    OneResizer =>
        /\ MinWorkers <= Len(workers) /\ Len(workers) <= MaxWorkers
        /\ \A r \in Resizers : MinWorkers <= Len(workers) + resize[r]
                               /\ Len(workers) + resize[r] <= MaxWorkers
        /\ MinWorkers <= Len(workers) + scaler.left /\ Len(workers) + scaler.left <= MaxWorkers
        /\ ~AutoScale => scaler.at = "exited"
        /\ scaler.at # "scale" => scaler.left = 0

(* From the moment wg.Wait has returned in Shutdown, nothing is left to do. *)
Drained ==
    OneResizer /\ MinWorkers > 0 =>
        \A k \in Closers : closer[k] \in {"S.done", "drained"} =>
            /\ queue = <<>>
            /\ accepted = counted
            /\ \A t \in accepted :
                  future[t] # "open" /\ (fn[t] \notin {"ok", "panic"} => t \in TimedTasks)

IInv ==
    /\ Shape /\ Submitted /\ Placed /\ Executed /\ Completed /\ Serving /\ Closing
    /\ Sized /\ Drained

------------------------------------------------------------------------------
(* Indices of the queue and of the slice of workers. *)
LEMMA Indices ==
  ASSUME QueueShape, SizeShape
  PROVE  /\ Len(queue) \in Nat /\ DOMAIN queue = 1..Len(queue)
         /\ \A i \in 1..Len(queue) : queue[i] \in Tasks
         /\ Len(workers) \in Nat /\ DOMAIN workers = 1..Len(workers)
         /\ \A i \in 1..Len(workers) : workers[i] \in Workers
  BY LenProperties, ElementOfSeq DEF QueueShape, SizeShape

(* A worker that holds no task, and takes none, disturbs nobody's task. *)
LEMMA MoveKeeps ==
  ASSUME WorkerShape, Placed, Executed, Completed,
         NEW w \in Workers, wpc[w] \notin Holding,
         NEW at \in {"none", "loop", "pop"}, wpc' = [wpc EXCEPT ![w] = at],
         UNCHANGED <<queue, job, fn, future, counted, accepted, cancelled>>
  PROVE  WorkerShape' /\ Placed' /\ Executed' /\ Completed'
  <1>. at \notin Holding
    BY DEF Holding, Outcomes
  <1>1. \A v \in Workers : \/ wpc'[v] = wpc[v]
                           \/ wpc'[v] \notin Holding /\ wpc[v] \notin Holding
    <2>1. wpc'[w] = at /\ \A v \in Workers : v # w => wpc'[v] = wpc[v]
      BY DEF WorkerShape
    <2>. QED
      BY <2>1
  <1>2. WorkerShape'
    BY DEF WorkerShape, Holding, Outcomes
  <1>3. Placed'
    BY <1>1 DEF Placed, InQueue, Held, Holding
  <1>4. Executed'
    BY <1>1 DEF Executed, GivenUp, Holding, Outcomes
  <1>5. Completed'
    BY <1>1 DEF Completed, FutureHonest, Holding, Outcomes
  <1>. QED
    BY <1>2, <1>3, <1>4, <1>5

(* A worker that is added gets a goroutine and a place at the end of the   *)
(* slice.                                                                  *)
LEMMA AddWorkerKeeps ==
  ASSUME IInv, addWorker, UNCHANGED <<queueVars, callVars, runVars, endVars, future>>
  PROVE  /\ WorkerShape' /\ Placed' /\ Executed' /\ Completed' /\ Serving'
         /\ workers' \in Seq(Workers) /\ Len(workers') = Len(workers) + 1 /\ stopped' = stopped
  <1>. USE DEF IInv, Shape
  <1>1. PICK w \in Spare : workers' = Append(workers, w) /\ UNCHANGED stopped /\ WorkerAt(w, "loop")
    BY DEF addWorker
  <1>2. w \in Workers /\ wpc[w] = "none" /\ \A i \in 1..Len(workers) : workers[i] # w
    BY Indices DEF Spare, InSlice
  <1>3. /\ workers' \in Seq(Workers) /\ Len(workers') = Len(workers) + 1
        /\ \A i \in 1..Len(workers) : workers'[i] = workers[i]
        /\ workers'[Len(workers) + 1] = w
    BY <1>1, <1>2, AppendProperties DEF SizeShape
  <1>4. \A i \in 1..Len(workers') : i \in 1..Len(workers) \/ i = Len(workers) + 1
    BY <1>3, Indices
  <1>5. WorkerShape' /\ Placed' /\ Executed' /\ Completed'
    BY <1>1, <1>2, MoveKeeps DEF WorkerAt, Holding, Outcomes, queueVars, callVars, runVars,
       endVars
  <1>6. \A v \in Workers : wpc[v] # "none" => wpc'[v] # "none"
    BY <1>1, <1>2 DEF WorkerAt, WorkerShape
  <1>7. wpc'[w] # "none"
    BY <1>1, <1>2 DEF WorkerAt, WorkerShape
  <1>8. Serving'
    BY <1>1, <1>2, <1>3, <1>4, <1>6, <1>7, Indices DEF Serving, queueVars, endVars, SizeShape
  <1>. QED
    BY <1>1, <1>3, <1>5, <1>8

(* The last worker of the slice is cut from it and told to stop, if its    *)
(* goroutine is still there.                                               *)
LEMMA RemoveWorkerKeeps ==
  ASSUME IInv, removeWorker, UNCHANGED <<queueVars, callVars, runVars, endVars, future>>
  PROVE  /\ WorkerShape' /\ Placed' /\ Executed' /\ Completed' /\ Serving'
         /\ workers' \in Seq(Workers) /\ stopped' \subseteq Workers
         /\ Len(workers') = IF Len(workers) = 0 THEN 0 ELSE Len(workers) - 1
  <1>. USE DEF IInv, Shape
  <1>1. WorkerShape' /\ Placed' /\ Executed' /\ Completed'
    BY DEF removeWorker, queueVars, callVars, runVars, endVars, WorkerShape, Placed, InQueue,
       Held, Executed, GivenUp, Completed, FutureHonest
  <1>2. CASE workers = <<>>
    BY <1>1, <1>2, EmptySeq DEF removeWorker, SizeShape, Serving, queueVars, endVars
  <1>3. CASE workers # <<>>
    <2>. DEFINE n == Len(workers)
    <2>1. n \in Nat \ {0}
      BY <1>3, EmptySeq, Indices DEF SizeShape
    <2>2. /\ workers' \in Seq(Workers) /\ Len(workers') = n - 1
          /\ \A i \in 1..(n - 1) : workers'[i] = workers[i]
      <3>1. workers' = SubSeq(workers, 1, n - 1)
        BY <1>3 DEF removeWorker
      <3>2. 1 \in Int /\ n - 1 \in Int /\ \A i \in 1..(n - 1) : workers[i] \in Workers
        BY <2>1, Indices
      <3>3. /\ SubSeq(workers, 1, n - 1) \in Seq(Workers)
            /\ Len(SubSeq(workers, 1, n - 1)) = IF 1 <= n - 1 THEN n - 1 - 1 + 1 ELSE 0
            /\ \A i \in 1..(n - 1 - 1 + 1) : SubSeq(workers, 1, n - 1)[i] = workers[1 + i - 1]
        BY <3>2, SubSeqProperties
      <3>4. (IF 1 <= n - 1 THEN n - 1 - 1 + 1 ELSE 0) = n - 1 /\ n - 1 - 1 + 1 = n - 1
            /\ \A i \in 1..(n - 1) : 1 + i - 1 = i
        <4>. HIDE DEF n
        <4>. QED
          BY <2>1
      <3>. HIDE DEF n
      <3>. QED
        BY <3>1, <3>3, <3>4
    <2>3. stopped' = stopped \cup ({workers[n]} \cap Live) /\ wpc' = wpc
      BY <1>3 DEF removeWorker
    <2>4. \A i \in 1..(n - 1) : i \in 1..n /\ workers[i] # workers[n]
      BY <2>1 DEF Serving
    <2>. HIDE DEF n
    <2>5. Serving'
      BY <2>1, <2>2, <2>3, <2>4 DEF Serving, Live, queueVars, endVars, n
    <2>6. stopped' \subseteq Workers
      BY <2>3 DEF Live, SizeShape
    <2>. QED
      BY <1>1, <2>1, <2>2, <2>5, <2>6 DEF n
  <1>. QED
    BY <1>2, <1>3

------------------------------------------------------------------------------
(* The invariant holds at the start, and each action keeps it. *)
LEMMA InitIInv == Init => IInv
  <1>. SUFFICES ASSUME Init PROVE IInv
    OBVIOUS
  <1>. USE BoundsAssumption, TasksAssumption, WorkersAssumption
      DEF Init, Idle, Asleep, Outcomes
  <1>1. QueueShape
    <2>1. Len(<<>>) = 0 /\ <<>> \in Seq(Tasks) /\ 0 <= QueueSize
      BY EmptySeq, BoundsAssumption
    <2>. QED
      BY <2>1 DEF Init, QueueShape
  <1>2. WorkerShape
    BY DEF Holding, WorkerShape
  <1>3. TaskShape
    BY DEF Holding, TaskShape
  <1>4. CallShape
    BY DEF Holding, CallShape, Pushing
  <1>5. SizeShape
    <2>1. workers \in [1..MinWorkers -> Workers]
      BY DEF Init
    <2>2. workers \in Seq(Workers)
      BY <2>1, BoundsAssumption, SeqDef
    <2>3. stopped \subseteq Workers /\ resize \in [Resizers -> Int]
      BY DEF Init
    <2>4. scaler \in [at : {"ticker", "readRunning", "readWorkers", "scale", "exited"},
                       queueLen : 0..QueueSize, runningTasks : Nat, left : Int]
      BY BoundsAssumption DEF Init, Asleep
    <2>. QED
      BY <2>2, <2>3, <2>4 DEF SizeShape
  <1>6. EndShape
    BY DEF Holding, EndShape
  <1>7. Submitted
    BY DEF Holding, Submitted, Pushing
  <1>8. Placed
    BY DEF Holding, Placed, InQueue, Held
  <1>9. Executed
    BY DEF Holding, Executed, GivenUp
  <1>10. Completed
    BY DEF Holding, Completed, FutureHonest
  <1>11. Serving
    BY DEF Holding, Serving
  <1>12. Closing
    BY DEF Holding, Closing
  <1>13. Sized
    BY DEF Holding, Sized
  <1>14. Drained
    BY DEF Holding, Drained
  <1>. QED
    BY <1>1, <1>2, <1>3, <1>4, <1>5, <1>6, <1>7, <1>8, <1>9, <1>10, <1>11, <1>12, <1>13, <1>14
       DEF IInv, Shape

LEMMA BeginSubmitKeeps ==
  ASSUME IInv, NEW s \in Submitters, NEW t \in Tasks, NEW push \in Calls, BeginSubmit(s, t, push)
  PROVE  IInv'
  <1>. USE TasksAssumption DEF IInv, Shape, Outcomes
  <1>1. QueueShape' /\ WorkerShape' /\ SizeShape' /\ EndShape'
    BY DEF BeginSubmit, queueVars, runVars, sizeVars, endVars, Holding, QueueShape,
       WorkerShape, SizeShape, EndShape
  <1>2. Placed' /\ Executed' /\ Serving' /\ Closing' /\ Sized'
    BY DEF BeginSubmit, queueVars, runVars, sizeVars, endVars, GivenUp, Held, InQueue, Placed,
       Executed, Serving, Closing, Sized
  <1>3. TaskShape'
    BY DEF BeginSubmit, Fresh, Idle, queueVars, runVars, sizeVars, endVars, TaskShape
  <1>4. CallShape'
    BY DEF BeginSubmit, Fresh, Idle, queueVars, runVars, sizeVars, endVars, CallShape, Pushing
  <1>5. Submitted'
    <2>1. accepted' = accepted /\ t \notin accepted /\ \A u \in Tasks \ {t} : future'[u] = future[u]
      BY DEF BeginSubmit, Fresh, TaskShape
    <2>2. \A r \in Submitters : call[r].task # t
      BY DEF BeginSubmit, Fresh
    <2>3. CASE call' = call
      BY <2>1, <2>2, <2>3 DEF CallShape, Submitted, Pushing
    <2>4. CASE /\ call' = [call EXCEPT ![s] = [at |-> push, task |-> t]]
               /\ future'[t] \in {"none", "open"}
      <3>1. call'[s].task = t /\ \A r \in Submitters : r # s => call'[r] = call[r]
        BY <2>4 DEF CallShape
      <3>. QED
        BY <2>1, <2>2, <2>4, <3>1 DEF CallShape, Submitted, Pushing
    <2>. QED
      BY <2>3, <2>4 DEF BeginSubmit, TaskShape
  <1>6. Completed'
    <2>1. /\ \A u \in Tasks \ {t} : future'[u] = future[u]
          /\ t \notin accepted /\ future'[t] \in {"none", "open", "ErrPoolClosed"}
      BY DEF BeginSubmit, Fresh, TaskShape
    <2>2. UNCHANGED <<accepted, counted, fn, job, wpc, queue, cancelled>>
      BY DEF BeginSubmit, queueVars, runVars, endVars
    <2>. QED
      BY <2>1, <2>2 DEF TaskShape, QueueShape, WorkerShape, Placed, Holding, Completed,
         FutureHonest
  <1>7. Drained'
    <2>1. /\ \A u \in Tasks \ {t} : future'[u] = future[u]
          /\ t \notin accepted /\ UNCHANGED <<accepted, counted, fn, queue, closer, workers>>
      BY DEF BeginSubmit, Fresh, TaskShape, queueVars, runVars, sizeVars, endVars
    <2>. QED
      BY <2>1 DEF TaskShape, Drained
  <1>. QED
    BY <1>1, <1>2, <1>3, <1>4, <1>5, <1>6, <1>7

LEMMA PushAcceptedKeeps ==
  ASSUME IInv, NEW s \in Submitters, PushAccepted(s)
  PROVE  IInv'
  <1>. USE TasksAssumption DEF IInv, Shape, Outcomes
  <1>. DEFINE t == call[s].task
  <1>1. t \in Tasks /\ t \notin accepted /\ call[s].at \in Pushing
    BY DEF PushAccepted, Pushing, CallShape, Submitted
  <1>2. /\ queue' \in Seq(Tasks) /\ Len(queue') = Len(queue) + 1
        /\ \A i \in 1..Len(queue) : queue'[i] = queue[i]
        /\ queue'[Len(queue) + 1] = t
        /\ \A i \in 1..Len(queue') : i \in 1..Len(queue) \/ i = Len(queue) + 1
    BY <1>1, AppendProperties, LenProperties DEF PushAccepted, QueueShape
  <1>3. /\ \A r \in Submitters : r # s => call'[r] = call[r] /\ call[r].task # t
        /\ \/ call'[s] = Idle
           \/ call'[s] = [at |-> "await", task |-> t]
    <2>1. call[s] \in [at : {"idle", "await"} \cup Pushing, task : Tasks \cup {NoTask}]
      BY DEF CallShape
    <2>2. call[s].at \in Pushing => [call[s] EXCEPT !.at = "await"] = [at |-> "await", task |-> t]
      BY <2>1
    <2>3. \A r \in Submitters : r # s => call'[r] = call[r]
      BY DEF PushAccepted, Pushed, CallShape
    <2>4. \A r \in Submitters : r # s => call[r].task # t
      BY <1>1 DEF Submitted
    <2>. QED
      BY <1>1, <2>2, <2>3, <2>4 DEF PushAccepted, Pushed, CallShape
  <1>4. WorkerShape' /\ SizeShape' /\ EndShape'
    BY DEF PushAccepted, runVars, sizeVars, endVars, Holding, WorkerShape, SizeShape, EndShape
  <1>5. Closing' /\ Sized'
    BY DEF PushAccepted, runVars, sizeVars, endVars, Closing, Sized
  <1>6. QueueShape'
    BY <1>2, LenProperties, BoundsAssumption DEF PushAccepted, QueueShape
  <1>7. TaskShape'
    BY <1>1 DEF PushAccepted, runVars, TaskShape
  <1>8. CallShape'
    BY DEF PushAccepted, Pushed, Idle, Pushing, runVars, sizeVars, endVars, CallShape
  <1>9. Submitted'
    <2>1. accepted' = accepted \cup {t} /\ future' = future
      BY DEF PushAccepted
    <2>. QED
      BY <1>1, <1>3, <2>1 DEF CallShape, Submitted, Pushing, Idle
  <1>10. Placed'
    <2>1. ~InQueue(t) /\ ~Held(t)
      BY <1>1 DEF Placed, InQueue, Held
    <2>2. UNCHANGED <<job, wpc, counted>> /\ accepted' = accepted \cup {t}
      BY DEF PushAccepted, runVars
    <2>3. \A i, j \in 1..Len(queue') : queue'[i] = queue'[j] => i = j
      BY <1>2, <2>1 DEF Placed, InQueue
    <2>4. t \notin counted
      BY <1>1 DEF TaskShape
    <2>5. \A i \in 1..Len(queue') : queue'[i] \in accepted' \ counted' /\ ~Held(queue[i])'
      BY <1>1, <1>2, <2>1, <2>2, <2>4 DEF Placed, Held
    <2>6. \A u : u = t \/ InQueue(u) => InQueue(u)'
      <3>1. Len(queue) + 1 \in 1..Len(queue') /\ 1..Len(queue) \subseteq 1..Len(queue')
        BY <1>2, Indices
      <3>2. ASSUME NEW u, u = t PROVE InQueue(u)'
        BY <1>2, <3>1, <3>2 DEF InQueue
      <3>3. ASSUME NEW u, NEW i \in 1..Len(queue), queue[i] = u PROVE InQueue(u)'
        BY <1>2, <3>1, <3>3 DEF InQueue
      <3>. QED
        BY <3>2, <3>3 DEF InQueue
    <2>7. \A u : Held(u)' <=> Held(u)
      BY <2>2 DEF Held
    <2>8. \A u \in accepted' \ counted' : InQueue(u)' \/ Held(u)'
      <3>1. \A u \in accepted \ counted : InQueue(u) \/ Held(u)
        BY DEF Placed
      <3>. QED
        BY <2>2, <2>6, <2>7, <3>1
    <2>9. \A v, w \in Workers : job'[v] = job'[w] /\ job'[w] # NoTask => v = w
      BY <2>2 DEF Placed
    <2>10. /\ \A w \in Workers : job'[w] # NoTask => job'[w] \in accepted'
           /\ \A w \in Workers : wpc'[w] \in {"start", "select"} => job'[w] \notin counted'
           /\ \A w \in Workers : wpc'[w] = "finish" => job'[w] \in counted'
      BY <2>2 DEF Placed
    <2>. QED
      BY <2>3, <2>5, <2>8, <2>9, <2>10, Zenon DEF Placed
  <1>11. Executed'
    BY DEF PushAccepted, Pushed, Idle, Pushing, runVars, sizeVars, endVars, Executed, GivenUp
  <1>12. Completed'
    <2>1. UNCHANGED <<job, wpc, counted, fn, future, cancelled>> /\ accepted' = accepted \cup {t}
      BY DEF PushAccepted, runVars, endVars
    <2>2. future[t] \in {"none", "open"}
      BY <1>1 DEF Submitted
    <2>. QED
      BY <1>1, <1>2, <2>1, <2>2 DEF Completed, FutureHonest
  <1>13. Serving'
    BY DEF PushAccepted, Pushed, Idle, Pushing, runVars, sizeVars, endVars, Serving
  <1>14. Drained'
    BY DEF PushAccepted, endVars, Closing, Drained
  <1>. QED
    BY <1>4, <1>5, <1>6, <1>7, <1>8, <1>9, <1>10, <1>11, <1>12, <1>13, <1>14

LEMMA PushRefusedKeeps ==
  ASSUME IInv, NEW s \in Submitters, PushRefused(s)
  PROVE  IInv'
  <1>. USE TasksAssumption DEF IInv, Shape, Outcomes
  <1>. DEFINE t == call[s].task
  <1>1. t \in Tasks /\ t \notin accepted /\ call[s].at \in Pushing
    BY DEF PushRefused, Pushing, CallShape, Submitted
  <1>2. /\ \A r \in Submitters : r # s => call'[r] = call[r] /\ call[r].task # t
        /\ \/ call'[s] = Idle
           \/ call'[s] = [at |-> "await", task |-> t]
    <2>1. call[s] \in [at : {"idle", "await"} \cup Pushing, task : Tasks \cup {NoTask}]
      BY DEF CallShape
    <2>2. call[s].at \in Pushing => [call[s] EXCEPT !.at = "await"] = [at |-> "await", task |-> t]
      BY <2>1
    <2>3. \A r \in Submitters : r # s => call'[r] = call[r]
      BY DEF PushRefused, Pushed, CallShape
    <2>4. \A r \in Submitters : r # s => call[r].task # t
      BY <1>1 DEF Submitted
    <2>. QED
      BY <1>1, <2>2, <2>3, <2>4 DEF PushRefused, Pushed, CallShape
  <1>3. QueueShape' /\ WorkerShape' /\ SizeShape' /\ EndShape'
    BY DEF PushRefused, queueVars, runVars, sizeVars, endVars, Holding, QueueShape,
       WorkerShape, SizeShape, EndShape
  <1>4. Placed' /\ Executed' /\ Serving' /\ Closing' /\ Sized'
    BY DEF PushRefused, queueVars, runVars, sizeVars, endVars, GivenUp, Held, InQueue, Placed,
       Executed, Serving, Closing, Sized
  <1>5. TaskShape'
    BY DEF PushRefused, Pushed, Idle, Pushing, queueVars, runVars, sizeVars, endVars, TaskShape
  <1>6. CallShape'
    BY DEF PushRefused, Pushed, Idle, Pushing, queueVars, runVars, sizeVars, endVars, CallShape
  <1>7. Submitted'
    <2>1. accepted' = accepted /\ \A u \in Tasks \ {t} : future'[u] = future[u]
      BY DEF PushRefused, TaskShape
    <2>. QED
      BY <1>1, <1>2, <2>1 DEF CallShape, TaskShape, Submitted, Pushing, Idle
  <1>8. Completed'
    <2>1. /\ t \in Tasks /\ t \notin accepted
          /\ \A u \in Tasks \ {t} : future'[u] = future[u]
          /\ future'[t] \in {"none", "ErrQueueClosed"}
      BY <1>1 DEF PushRefused, Pushing, TaskShape, CallShape, Submitted
    <2>2. UNCHANGED <<accepted, counted, fn, job, wpc, queue, cancelled>>
      BY DEF PushRefused, queueVars, runVars, endVars
    <2>. QED
      BY <2>1, <2>2 DEF TaskShape, QueueShape, WorkerShape, Placed, Holding, Completed,
         FutureHonest
  <1>9. Drained'
    BY DEF PushRefused, Pushed, Idle, Pushing, queueVars, runVars, sizeVars, endVars, Drained
  <1>. QED
    BY <1>3, <1>4, <1>5, <1>6, <1>7, <1>8, <1>9

LEMMA AwaitReturnsKeeps ==
  ASSUME IInv, NEW s \in Submitters, AwaitReturns(s)
  PROVE  IInv'
  <1>. USE TasksAssumption DEF IInv, Shape, Outcomes
  <1>1. QueueShape' /\ WorkerShape' /\ TaskShape' /\ SizeShape' /\ EndShape'
    BY DEF AwaitReturns, queueVars, runVars, sizeVars, endVars, Holding, QueueShape,
       WorkerShape, TaskShape, SizeShape, EndShape
  <1>2. Placed' /\ Executed' /\ Completed' /\ Serving' /\ Closing' /\ Sized' /\ Drained'
    BY DEF AwaitReturns, queueVars, runVars, sizeVars, endVars, FutureHonest, GivenUp, Held,
       InQueue, Placed, Executed, Completed, Serving, Closing, Sized, Drained
  <1>3. CallShape'
    BY DEF AwaitReturns, Idle, queueVars, runVars, sizeVars, endVars, CallShape, Pushing
  <1>4. Submitted'
    BY DEF AwaitReturns, Idle, queueVars, runVars, sizeVars, endVars, Submitted, Pushing
  <1>. QED
    BY <1>1, <1>2, <1>3, <1>4

LEMMA AwaitCancelledKeeps ==
  ASSUME IInv, NEW s \in Submitters, AwaitCancelled(s)
  PROVE  IInv'
  <1>. USE TasksAssumption DEF IInv, Shape, Outcomes
  <1>1. QueueShape' /\ WorkerShape' /\ TaskShape' /\ SizeShape' /\ EndShape'
    BY DEF AwaitCancelled, queueVars, runVars, sizeVars, endVars, Holding, QueueShape,
       WorkerShape, TaskShape, SizeShape, EndShape
  <1>2. Placed' /\ Executed' /\ Completed' /\ Serving' /\ Closing' /\ Sized' /\ Drained'
    BY DEF AwaitCancelled, queueVars, runVars, sizeVars, endVars, FutureHonest, GivenUp, Held,
       InQueue, Placed, Executed, Completed, Serving, Closing, Sized, Drained
  <1>3. CallShape'
    BY DEF AwaitCancelled, Idle, queueVars, runVars, sizeVars, endVars, CallShape, Pushing
  <1>4. Submitted'
    BY DEF AwaitCancelled, Idle, queueVars, runVars, sizeVars, endVars, Submitted, Pushing
  <1>. QED
    BY <1>1, <1>2, <1>3, <1>4

LEMMA WorkerLoopsKeeps ==
  ASSUME IInv, NEW w \in Workers, WorkerLoops(w)
  PROVE  IInv'
  <1>. USE TasksAssumption DEF IInv, Shape, Outcomes
  <1>1. \E at \in {"none", "pop"} : wpc' = [wpc EXCEPT ![w] = at]
    BY DEF WorkerLoops, WorkerAt
  <1>2. WorkerShape' /\ Placed' /\ Executed' /\ Completed'
    BY <1>1, MoveKeeps DEF WorkerLoops, Holding, queueVars, callVars, runVars, endVars
  <1>3. QueueShape' /\ TaskShape' /\ CallShape' /\ EndShape'
    BY DEF WorkerLoops, queueVars, callVars, runVars, endVars, Pushing, QueueShape, TaskShape,
       CallShape, EndShape
  <1>4. Submitted' /\ Closing' /\ Sized' /\ Drained'
    BY DEF WorkerLoops, queueVars, callVars, runVars, endVars, Pushing, Submitted, Closing,
       Sized, Drained
  <1>5. SizeShape'
    BY DEF WorkerLoops, WorkerAt, queueVars, callVars, runVars, endVars, SizeShape
  <1>6. Serving'
    <2>1. \A v \in Workers : \/ wpc'[v] # "none" \/ wpc[v] = "none"
                             \/ v = w /\ (cancelled \/ w \in stopped)
      <3>1. \/ wpc' = [wpc EXCEPT ![w] = "none"] /\ (cancelled \/ w \in stopped)
            \/ wpc' = [wpc EXCEPT ![w] = "pop"]
        BY DEF WorkerLoops, WorkerAt
      <3>2. \E at \in {"none", "pop"} :
               /\ wpc'[w] = at /\ \A v \in Workers : v # w => wpc'[v] = wpc[v]
               /\ at = "none" => cancelled \/ w \in stopped
        BY <3>1 DEF WorkerShape
      <3>. QED
        BY <3>2
    <2>2. stopped' \subseteq stopped /\ \A v \in stopped' : wpc'[v] # "none"
      BY DEF WorkerLoops, WorkerAt, WorkerShape, SizeShape, Serving
    <2>3. UNCHANGED <<workers, queue, qclosed, cancelled>>
      BY DEF WorkerLoops, queueVars, endVars
    <2>. QED
      BY <2>1, <2>2, <2>3, Indices DEF Serving
  <1>. QED
    BY <1>2, <1>3, <1>4, <1>5, <1>6

LEMMA WorkerPopsKeeps ==
  ASSUME IInv, NEW w \in Workers, WorkerPops(w)
  PROVE  IInv'
  <1>. USE TasksAssumption DEF IInv, Shape, Outcomes
  <1>. DEFINE t == Head(queue)
  <1>. DEFINE goal == QueueShape' /\ WorkerShape' /\ Placed' /\ Executed' /\ Completed' /\ Serving'
  <1>1. ASSUME queue # <<>>, job' = [job EXCEPT ![w] = t], queue' = Tail(queue),
               WorkerAt(w, "start"), UNCHANGED stopped
        PROVE  goal
    <2>. HIDE DEF t
    <2>1. /\ Len(queue) \in Nat \ {0} /\ t = queue[1] /\ t \in Tasks
          /\ queue' \in Seq(Tasks) /\ Len(queue') = Len(queue) - 1
          /\ \A i \in 1..Len(queue') : queue'[i] = queue[i + 1] /\ i + 1 \in 1..Len(queue)
      BY <1>1, HeadTailProperties, EmptySeq, Indices DEF QueueShape, t
    <2>2. wpc[w] = "pop" /\ job[w] = NoTask /\ w \notin {v \in Workers : wpc[v] \in Holding}
      BY DEF WorkerPops, WorkerShape, Holding
    <2>3. \A v \in Workers : v # w => job'[v] = job[v] /\ wpc'[v] = wpc[v]
      BY <1>1 DEF WorkerAt, WorkerShape
    <2>4. job'[w] = t /\ wpc'[w] = "start"
      BY <1>1 DEF WorkerAt, WorkerShape
    <2>5. UNCHANGED <<fn, future, counted, accepted, cancelled, qclosed, workers, closer>>
      BY DEF WorkerPops, callVars, endVars
    <2>6. t \in accepted \ counted /\ ~Held(t) /\ \A i \in 1..Len(queue') : queue'[i] # t
      BY <2>1, Indices DEF Placed
    <2>7. QueueShape'
      BY <2>1, <2>5, BoundsAssumption DEF QueueShape
    <2>8. WorkerShape'
      BY <1>1, <2>1, <2>2, <2>3, <2>4 DEF WorkerAt, WorkerShape, Holding
    <2>9. Placed'
      <3>1. \A i, j \in 1..Len(queue') : queue'[i] = queue'[j] => i = j
        BY <2>1, Indices DEF Placed
      <3>2. \A u \in Tasks : Held(u)' <=> Held(u) \/ u = t
        BY <2>2, <2>3, <2>4 DEF Held
      <3>3. \A i \in 1..Len(queue') : queue'[i] \in accepted' \ counted' /\ ~Held(queue[i])'
        BY <2>1, <2>5, <2>6, <3>2, Indices DEF Placed
      <3>4. \A v, x \in Workers : job'[v] = job'[x] /\ job'[x] # NoTask => v = x
        BY <2>3, <2>4, <2>6 DEF Placed, Held
      <3>5. /\ \A v \in Workers : job'[v] # NoTask => job'[v] \in accepted'
            /\ \A v \in Workers : wpc'[v] \in {"start", "select"} => job'[v] \notin counted'
            /\ \A v \in Workers : wpc'[v] = "finish" => job'[v] \in counted'
        BY <2>3, <2>4, <2>5, <2>6 DEF Placed
      <3>6. \A u : InQueue(u) => InQueue(u)' \/ u = t
        <4>1. ASSUME NEW u, NEW i \in 1..Len(queue), i # 1, queue[i] = u PROVE InQueue(u)'
          <5>1. i - 1 \in 1..Len(queue') /\ queue'[i - 1] = u
            BY <2>1, <4>1
          <5>. QED
            BY <5>1 DEF InQueue
        <4>. QED
          BY <2>1, <4>1 DEF InQueue
      <3>7. \A u \in accepted' \ counted' : InQueue(u)' \/ Held(u)'
        <4>1. \A u \in accepted \ counted : InQueue(u) \/ Held(u)
          BY DEF Placed
        <4>. QED
          BY <2>5, <3>2, <3>6, <4>1 DEF TaskShape
      <3>. QED
        BY <3>1, <3>3, <3>4, <3>5, <3>7, Zenon DEF Placed
    <2>10. Executed'
      BY <2>2, <2>3, <2>4, <2>5 DEF Executed, GivenUp
    <2>11. Completed'
      <3>1. FutureHonest'
        BY <2>5 DEF Completed, FutureHonest
      <3>2. \A i \in 1..Len(queue') : future'[queue'[i]] \in {"none", "open"}
        BY <2>1, <2>5 DEF Completed
      <3>3. \A v \in Workers : wpc'[v] \in {"start", "select"} \cup Outcomes =>
               future'[job'[v]] \in {"none", "open"}
        <4>1. future[t] \in {"none", "open"}
          BY <2>1 DEF Completed
        <4>. QED
          BY <2>3, <2>4, <2>5, <4>1 DEF Completed
      <3>4. \A u \in counted' : future'[u] = "open" =>
               \E v \in Workers : job'[v] = u /\ wpc'[v] \in Outcomes
        BY <2>2, <2>3, <2>5 DEF Completed
      <3>. QED
        BY <3>1, <3>2, <3>3, <3>4 DEF Completed
    <2>12. Serving'
      <3>1. \A v \in Workers : wpc[v] # "none" <=> wpc'[v] # "none"
        BY <2>2, <2>3, <2>4
      <3>. QED
        BY <1>1, <2>5, <3>1, Indices DEF Serving, SizeShape
    <2>. QED
      BY <2>7, <2>8, <2>9, <2>10, <2>11, <2>12
  <1>2. ASSUME queue = <<>>, qclosed, WorkerAt(w, "none"), stopped' = stopped \ {w},
               UNCHANGED <<job, queue>>
        PROVE  goal
    <2>1. UNCHANGED <<fn, future, counted, accepted, cancelled, qclosed, workers>>
      BY DEF WorkerPops, callVars, endVars
    <2>2. WorkerShape' /\ Placed' /\ Executed' /\ Completed'
      BY <1>2, <2>1, MoveKeeps DEF WorkerPops, WorkerAt, Holding, Outcomes
    <2>3. QueueShape' /\ Serving'
      BY <1>2, <2>1 DEF QueueShape, WorkerShape, WorkerAt, SizeShape, Serving
    <2>. QED
      BY <2>2, <2>3
  <1>3. QueueShape' /\ WorkerShape' /\ Placed' /\ Executed' /\ Completed' /\ Serving'
    BY <1>1, <1>2, Zenon DEF WorkerPops
  <1>4. TaskShape' /\ CallShape' /\ EndShape'
    BY DEF WorkerPops, callVars, endVars, Pushing, TaskShape, CallShape, EndShape
  <1>5. Submitted' /\ Closing' /\ Sized'
    BY DEF WorkerPops, callVars, endVars, Pushing, Submitted, Closing, Sized
  <1>6. SizeShape'
    BY DEF WorkerPops, WorkerAt, callVars, endVars, SizeShape
  <1>7. Drained'
    BY DEF WorkerPops, callVars, endVars, Drained
  <1>. QED
    BY <1>3, <1>4, <1>5, <1>6, <1>7

LEMMA StartTaskKeeps ==
  ASSUME IInv, NEW w \in Workers, StartTask(w)
  PROVE  IInv'
  <1>. USE TasksAssumption DEF IInv, Shape, Outcomes
  <1>1. QueueShape' /\ CallShape' /\ SizeShape' /\ EndShape'
    BY DEF StartTask, queueVars, callVars, sizeVars, endVars, Pushing, QueueShape, CallShape,
       SizeShape, EndShape
  <1>2. Submitted' /\ Closing' /\ Sized'
    BY DEF StartTask, queueVars, callVars, sizeVars, endVars, Pushing, Submitted, Closing,
       Sized
  <1>3. TaskShape'
    BY DEF StartTask, WorkerAt, queueVars, callVars, sizeVars, endVars, TaskShape
  <1>4. WorkerShape'
    BY DEF StartTask, WorkerAt, queueVars, callVars, sizeVars, endVars, WorkerShape, Holding
  <1>5. Placed'
    BY DEF StartTask, WorkerAt, queueVars, callVars, sizeVars, endVars, Placed, InQueue, Held
  <1>6. Executed'
    <2>1. \A v \in Workers : v # w => wpc'[v] = wpc[v]
      BY DEF StartTask, WorkerAt, WorkerShape
    <2>2. wpc'[w] = "select" /\ job[w] \in accepted \ counted
      BY DEF StartTask, WorkerAt, WorkerShape, Holding, Placed
    <2>3. \A t \in Tasks : t # job[w] => fn'[t] = fn[t]
      BY DEF StartTask, TaskShape
    <2>4. \A v \in Workers : v # w /\ wpc[v] \in Outcomes => job[v] # job[w] /\ job[v] \in Tasks
      BY <2>2 DEF Placed, WorkerShape, Holding, TaskShape
    <2>5. UNCHANGED <<job, accepted, counted, cancelled>>
      BY DEF StartTask, callVars, endVars
    <2>. QED
      BY <2>1, <2>2, <2>3, <2>4, <2>5 DEF TaskShape, Executed, GivenUp
  <1>7. Completed'
    BY DEF StartTask, WorkerAt, queueVars, callVars, sizeVars, endVars, Completed, FutureHonest
  <1>8. Serving'
    BY DEF StartTask, WorkerAt, queueVars, callVars, sizeVars, endVars, Serving
  <1>9. Drained'
    <2>1. job[w] \in accepted \ counted
      BY DEF StartTask, WorkerShape, Holding, Placed
    <2>. QED
      BY <2>1 DEF StartTask, queueVars, callVars, endVars, Drained
  <1>. QED
    BY <1>1, <1>2, <1>3, <1>4, <1>5, <1>6, <1>7, <1>8, <1>9

LEMMA FnReturnsKeeps ==
  ASSUME IInv, NEW t \in Tasks, FnReturns(t)
  PROVE  IInv'
  <1>. USE TasksAssumption DEF IInv, Shape, Outcomes
  <1>1. QueueShape' /\ WorkerShape' /\ CallShape' /\ SizeShape' /\ EndShape'
    BY DEF FnReturns, queueVars, callVars, sizeVars, endVars, Holding, Pushing, QueueShape,
       WorkerShape, CallShape, SizeShape, EndShape
  <1>2. Submitted' /\ Placed' /\ Serving' /\ Closing' /\ Sized'
    BY DEF FnReturns, queueVars, callVars, sizeVars, endVars, Held, InQueue, Pushing,
       Submitted, Placed, Serving, Closing, Sized
  <1>3. TaskShape'
    BY DEF FnReturns, queueVars, callVars, sizeVars, endVars, TaskShape
  <1>4. Executed'
    BY DEF FnReturns, queueVars, callVars, sizeVars, endVars, Executed, GivenUp
  <1>5. Completed'
    BY DEF FnReturns, queueVars, callVars, sizeVars, endVars, Completed, FutureHonest
  <1>6. Drained'
    BY DEF FnReturns, queueVars, callVars, sizeVars, endVars, Drained
  <1>. QED
    BY <1>1, <1>2, <1>3, <1>4, <1>5, <1>6

LEMMA TaskOutcomeKeeps ==
  ASSUME IInv, NEW w \in Workers, TaskOutcome(w)
  PROVE  IInv'
  <1>. USE TasksAssumption DEF IInv, Shape, Outcomes
  <1>1. /\ \A v \in Workers : v # w => wpc'[v] = wpc[v]
        /\ wpc[w] = "select" /\ wpc'[w] \in Outcomes
        /\ wpc'[w] = "done" => fn[job[w]] = "ok"
        /\ wpc'[w] = "panic" => fn[job[w]] = "panic"
        /\ wpc'[w] = "timeout" => GivenUp(job[w])
    BY DEF TaskOutcome, WorkerAt, WorkerShape, GivenUp
  <1>2. UNCHANGED <<queue, qclosed, job, fn, counted, accepted, future, workers, stopped, cancelled>>
    BY DEF TaskOutcome, queueVars, callVars, runVars, sizeVars, endVars
  <1>3. QueueShape' /\ TaskShape' /\ CallShape' /\ SizeShape' /\ EndShape'
    BY DEF TaskOutcome, queueVars, callVars, runVars, sizeVars, endVars, Pushing, QueueShape,
       TaskShape, CallShape, SizeShape, EndShape
  <1>4. Submitted' /\ Closing' /\ Sized' /\ Drained'
    BY DEF TaskOutcome, queueVars, callVars, runVars, sizeVars, endVars, Pushing, Submitted,
       Closing, Sized, Drained
  <1>5. WorkerShape'
    BY DEF TaskOutcome, WorkerAt, queueVars, callVars, runVars, sizeVars, endVars, WorkerShape,
       Holding
  <1>6. Placed'
    BY <1>1, <1>2 DEF Placed, InQueue, Held
  <1>7. Executed'
    BY <1>1, <1>2 DEF Executed, GivenUp
  <1>8. Completed'
    BY <1>1, <1>2 DEF Completed, FutureHonest, Placed
  <1>9. Serving'
    BY <1>1, <1>2, SMTT(30) DEF Serving, SizeShape
  <1>. QED
    BY <1>3, <1>4, <1>5, <1>6, <1>7, <1>8, <1>9

LEMMA RecordTaskKeeps ==
  ASSUME IInv, NEW w \in Workers, RecordTask(w)
  PROVE  IInv'
  <1>. USE TasksAssumption DEF IInv, Shape, Outcomes
  <1>1. /\ wpc[w] \in Outcomes /\ job[w] \in accepted /\ job[w] \in Tasks
        /\ counted' = counted \cup {job[w]}
        /\ UNCHANGED <<queue, job, fn, accepted, future, wpc, cancelled, closer>>
    BY DEF RecordTask, WorkerShape, Holding, Placed, queueVars, callVars, endVars
  <1>2. QueueShape' /\ WorkerShape' /\ CallShape' /\ SizeShape' /\ EndShape'
    BY DEF RecordTask, queueVars, callVars, sizeVars, endVars, Holding, Pushing, QueueShape,
       WorkerShape, CallShape, SizeShape, EndShape
  <1>3. Submitted' /\ Serving' /\ Closing' /\ Sized'
    BY DEF RecordTask, queueVars, callVars, sizeVars, endVars, Pushing, Submitted, Serving,
       Closing, Sized
  <1>4. TaskShape'
    BY <1>1 DEF TaskShape
  <1>5. Placed'
    <2>1. \A v \in Workers : wpc[v] \in {"start", "select"} => job[v] # job[w]
      BY <1>1 DEF Placed, WorkerShape, Holding
    <2>2. \A i \in 1..Len(queue) : queue[i] # job[w]
      BY DEF Placed, Held
    <2>. QED
      BY <1>1, <2>1, <2>2 DEF Placed, InQueue, Held
  <1>6. Executed'
    BY DEF RecordTask, queueVars, callVars, sizeVars, endVars, Executed, GivenUp
  <1>7. Completed'
    BY DEF RecordTask, queueVars, callVars, sizeVars, endVars, Completed, FutureHonest
  <1>8. Drained'
    <2>1. job[w] \in accepted \ counted
      BY <1>1 DEF RecordTask
    <2>. QED
      BY <1>1, <2>1 DEF Drained
  <1>. QED
    BY <1>2, <1>3, <1>4, <1>5, <1>6, <1>7, <1>8

LEMMA CompleteFutureKeeps ==
  ASSUME IInv, NEW w \in Workers, CompleteFuture(w)
  PROVE  IInv'
  <1>. USE TasksAssumption DEF IInv, Shape, Outcomes
  <1>. DEFINE t == job[w]
  <1>1. /\ wpc[w] \in Outcomes /\ t \in accepted /\ t \in Tasks /\ t \in counted
        /\ future' = IF future[t] = "none" THEN future ELSE [future EXCEPT ![t] = wpc[w]]
        /\ wpc' = [wpc EXCEPT ![w] = "finish"]
        /\ UNCHANGED <<queue, qclosed, job, fn, accepted, counted, call, cancelled, closer,
                       workers, stopped>>
    BY DEF CompleteFuture, WorkerAt, WorkerShape, Holding, Placed, queueVars, callVars,
       runVars, sizeVars, endVars
  <1>2. /\ \A v \in Workers : v # w => wpc'[v] = wpc[v]
        /\ wpc'[w] = "finish"
        /\ \A u \in Tasks : u # t => future'[u] = future[u]
        /\ future'[t] \in {"none", wpc[w]}
    BY <1>1 DEF WorkerShape, TaskShape, Completed
  <1>. HIDE DEF t
  <1>3. QueueShape' /\ CallShape' /\ SizeShape' /\ EndShape'
    BY DEF CompleteFuture, queueVars, callVars, runVars, sizeVars, endVars, Pushing,
       QueueShape, CallShape, SizeShape, EndShape
  <1>4. Closing' /\ Sized'
    BY DEF CompleteFuture, queueVars, callVars, runVars, sizeVars, endVars, Closing, Sized
  <1>5. TaskShape'
    BY DEF CompleteFuture, WorkerAt, queueVars, callVars, runVars, sizeVars, endVars, TaskShape
  <1>6. WorkerShape'
    BY DEF CompleteFuture, WorkerAt, queueVars, callVars, runVars, sizeVars, endVars,
       WorkerShape, Holding
  <1>7. Submitted'
    BY <1>1, <1>2 DEF Submitted, Pushing, CallShape
  <1>8. Placed'
    BY DEF CompleteFuture, WorkerAt, queueVars, callVars, runVars, sizeVars, endVars, Placed,
       InQueue, Held
  <1>9. Executed'
    BY DEF CompleteFuture, WorkerAt, queueVars, callVars, runVars, sizeVars, endVars, Executed,
       GivenUp
  <1>10. Completed'
    <2>1. FutureHonest'
      BY <1>1, <1>2 DEF Completed, FutureHonest, Executed, GivenUp, t
    <2>2. \A i \in 1..Len(queue) : queue[i] # t /\ queue[i] \in Tasks
      BY <1>1, Indices DEF Placed
    <2>3. \A v \in Workers : v # w /\ wpc[v] \in Holding => job[v] # t /\ job[v] \in Tasks
      BY <1>1 DEF Placed, WorkerShape, Holding, t
    <2>. QED
      BY <1>1, <1>2, <2>1, <2>2, <2>3 DEF Completed, Holding, TaskShape, t
  <1>11. Serving'
    BY DEF CompleteFuture, WorkerAt, queueVars, callVars, runVars, sizeVars, endVars, Serving
  <1>12. Drained'
    BY DEF CompleteFuture, WorkerAt, queueVars, callVars, runVars, sizeVars, endVars, Drained
  <1>. QED
    BY <1>3, <1>4, <1>5, <1>6, <1>7, <1>8, <1>9, <1>10, <1>11, <1>12

LEMMA FinishTaskKeeps ==
  ASSUME IInv, NEW w \in Workers, FinishTask(w)
  PROVE  IInv'
  <1>. USE TasksAssumption DEF IInv, Shape, Outcomes
  <1>. DEFINE t == job[w]
  <1>1. /\ wpc[w] = "finish" /\ t \in counted
        /\ \A v \in Workers : v # w => wpc'[v] = wpc[v] /\ job'[v] = job[v]
        /\ wpc'[w] = "loop" /\ job'[w] = NoTask
        /\ UNCHANGED <<queue, accepted, counted>>
    BY DEF FinishTask, WorkerAt, WorkerShape, Placed, queueVars, callVars
  <1>. HIDE DEF t
  <1>2. QueueShape' /\ TaskShape' /\ CallShape' /\ SizeShape' /\ EndShape'
    BY DEF FinishTask, queueVars, callVars, sizeVars, endVars, Pushing, QueueShape, TaskShape,
       CallShape, SizeShape, EndShape
  <1>3. Submitted' /\ Closing' /\ Sized' /\ Drained'
    BY DEF FinishTask, queueVars, callVars, sizeVars, endVars, Pushing, Submitted, Closing,
       Sized, Drained
  <1>4. WorkerShape'
    BY DEF FinishTask, WorkerAt, queueVars, callVars, sizeVars, endVars, WorkerShape, Holding
  <1>5. Placed'
    <2>1. \A u : Held(u)' /\ u # NoTask => Held(u)
      BY <1>1 DEF Held
    <2>2. \A u : Held(u) => Held(u)' \/ u = t
      BY <1>1 DEF Held, t
    <2>3. \A i \in 1..Len(queue) : queue[i] # NoTask
      BY Indices
    <2>4. \A i \in 1..Len(queue') : queue'[i] \in accepted' \ counted' /\ ~Held(queue[i])'
      BY <1>1, <2>1, <2>3 DEF Placed
    <2>5. \A u \in accepted' \ counted' : InQueue(u)' \/ Held(u)'
      <3>1. \A u \in accepted \ counted : InQueue(u) \/ Held(u)
        BY DEF Placed
      <3>2. \A u : InQueue(u)' <=> InQueue(u)
        BY <1>1 DEF InQueue
      <3>. QED
        BY <1>1, <2>2, <3>1, <3>2
    <2>6. /\ \A v, x \in Workers : job'[v] = job'[x] /\ job'[x] # NoTask => v = x
          /\ \A v \in Workers : job'[v] # NoTask => job'[v] \in accepted'
          /\ \A v \in Workers : wpc'[v] \in {"start", "select"} => job'[v] \notin counted'
          /\ \A v \in Workers : wpc'[v] = "finish" => job'[v] \in counted'
          /\ \A i, j \in 1..Len(queue') : queue'[i] = queue'[j] => i = j
      BY <1>1 DEF Placed
    <2>. QED
      BY <1>1, <2>4, <2>5, <2>6, Zenon DEF Placed
  <1>6. Executed'
    BY DEF FinishTask, WorkerAt, queueVars, callVars, sizeVars, endVars, Executed, GivenUp
  <1>7. Completed'
    BY DEF FinishTask, WorkerAt, queueVars, callVars, sizeVars, endVars, Completed,
       FutureHonest
  <1>8. Serving'
    BY DEF FinishTask, WorkerAt, queueVars, callVars, sizeVars, endVars, Serving
  <1>. QED
    BY <1>2, <1>3, <1>4, <1>5, <1>6, <1>7, <1>8

LEMMA ResizeKeeps ==
  ASSUME IInv, NEW r \in Resizers, NEW n \in 0..MaxWorkers + 1, Resize(r, n)
  PROVE  IInv'
  <1>. USE TasksAssumption DEF IInv, Shape, Outcomes
  <1>1. QueueShape' /\ WorkerShape' /\ TaskShape' /\ CallShape' /\ EndShape'
    BY DEF Resize, queueVars, callVars, runVars, endVars, Holding, Pushing, QueueShape,
       WorkerShape, TaskShape, CallShape, EndShape
  <1>2. Submitted' /\ Placed' /\ Executed' /\ Completed' /\ Serving' /\ Closing' /\ Drained'
    BY DEF Resize, queueVars, callVars, runVars, endVars, FutureHonest, GivenUp, Held, InQueue,
       Pushing, Submitted, Placed, Executed, Completed, Serving, Closing, Drained
  <1>3. SizeShape'
    BY DEF Resize, queueVars, callVars, runVars, endVars, SizeShape
  <1>4. Sized'
    BY DEF Resize, queueVars, callVars, runVars, endVars, Sized
  <1>. QED
    BY <1>1, <1>2, <1>3, <1>4

LEMMA ResizeStepKeeps ==
  ASSUME IInv, NEW r \in Resizers, ResizeStep(r)
  PROVE  IInv'
  <1>. USE TasksAssumption DEF IInv, Shape, Outcomes
  <1>1. UNCHANGED <<queueVars, callVars, runVars, endVars, future>>
    BY DEF ResizeStep
  <1>2. addWorker \/ removeWorker
    BY DEF ResizeStep
  <1>3. WorkerShape' /\ Placed' /\ Executed' /\ Completed' /\ Serving'
    BY <1>1, <1>2, AddWorkerKeeps, RemoveWorkerKeeps
  <1>4. QueueShape' /\ TaskShape' /\ CallShape' /\ EndShape'
    BY DEF ResizeStep, queueVars, callVars, runVars, endVars, Pushing, QueueShape, TaskShape,
       CallShape, EndShape
  <1>5. Submitted' /\ Closing' /\ Drained'
    BY DEF ResizeStep, queueVars, callVars, runVars, endVars, Pushing, Submitted, Closing,
       Drained
  <1>6. SizeShape'
    <2>1. workers' \in Seq(Workers) /\ stopped' \subseteq Workers
      BY <1>1, <1>2, AddWorkerKeeps, RemoveWorkerKeeps DEF SizeShape
    <2>2. resize' \in [Resizers -> Int] /\ scaler' = scaler
      BY DEF ResizeStep, SizeShape
    <2>. QED
      BY <2>1, <2>2 DEF SizeShape
  <1>7. Sized'
    <2>. SUFFICES ASSUME OneResizer PROVE Sized'
      BY DEF Sized
    <2>1. /\ \A q \in Resizers : q = r
          /\ ~AutoScale /\ scaler' = scaler
      BY TasksAssumption DEF OneResizer, ResizeStep
    <2>2. /\ Len(workers') + resize'[r] = Len(workers) + resize[r]
          /\ MinWorkers <= Len(workers') /\ Len(workers') <= MaxWorkers
      <3>1. Len(workers) \in Nat /\ resize[r] \in Int
        BY Indices DEF SizeShape
      <3>2. /\ MinWorkers <= Len(workers) /\ Len(workers) <= MaxWorkers
            /\ MinWorkers <= Len(workers) + resize[r] /\ Len(workers) + resize[r] <= MaxWorkers
        BY DEF Sized
      <3>3. CASE resize[r] > 0
        <4>1. Len(workers') = Len(workers) + 1 /\ resize'[r] = resize[r] - 1
          BY <1>1, <3>1, <3>3, AddWorkerKeeps DEF ResizeStep, SizeShape
        <4>. QED
          BY <3>1, <3>2, <3>3, <4>1, BoundsAssumption
      <3>4. CASE resize[r] < 0
        <4>1. /\ Len(workers') = IF Len(workers) = 0 THEN 0 ELSE Len(workers) - 1
              /\ resize'[r] = resize[r] + 1
          BY <1>1, <3>1, <3>4, RemoveWorkerKeeps DEF ResizeStep, SizeShape
        <4>. QED
          BY <3>1, <3>2, <3>4, <4>1, BoundsAssumption
      <3>. QED
        BY <3>3, <3>4 DEF ResizeStep
    <2>3. scaler.left = 0
      BY <2>1 DEF Sized
    <2>4. Len(workers') \in Nat
      BY <1>1, <1>2, AddWorkerKeeps, RemoveWorkerKeeps, LenProperties
    <2>. QED
      BY <2>1, <2>2, <2>3, <2>4 DEF Sized
  <1>. QED
    BY <1>3, <1>4, <1>5, <1>6, <1>7

LEMMA ScaleTickKeeps ==
  ASSUME IInv, ScaleTick
  PROVE  IInv'
  <1>. USE TasksAssumption DEF IInv, Shape, Outcomes
  <1>1. QueueShape' /\ WorkerShape' /\ TaskShape' /\ CallShape' /\ EndShape'
    BY DEF ScaleTick, queueVars, callVars, runVars, endVars, Holding, Pushing, QueueShape,
       WorkerShape, TaskShape, CallShape, EndShape
  <1>2. Submitted' /\ Placed' /\ Executed' /\ Completed' /\ Serving' /\ Closing' /\ Drained'
    BY DEF ScaleTick, queueVars, callVars, runVars, endVars, FutureHonest, GivenUp, Held,
       InQueue, Pushing, Submitted, Placed, Executed, Completed, Serving, Closing, Drained
  <1>3. SizeShape'
    <2>1. Len(queue) \in 0..QueueSize
      BY Indices, BoundsAssumption DEF QueueShape
    <2>. QED
      BY <2>1 DEF ScaleTick, SizeShape
  <1>4. Sized'
    BY DEF ScaleTick, queueVars, callVars, runVars, endVars, Sized
  <1>. QED
    BY <1>1, <1>2, <1>3, <1>4

LEMMA ScaleReadsRunningKeeps ==
  ASSUME IInv, ScaleReadsRunning
  PROVE  IInv'
  <1>. USE TasksAssumption DEF IInv, Shape, Outcomes
  <1>1. QueueShape' /\ WorkerShape' /\ TaskShape' /\ CallShape' /\ EndShape'
    BY DEF ScaleReadsRunning, queueVars, callVars, runVars, endVars, Holding, Pushing,
       QueueShape, WorkerShape, TaskShape, CallShape, EndShape
  <1>2. Submitted' /\ Placed' /\ Executed' /\ Completed' /\ Serving' /\ Closing' /\ Drained'
    BY DEF ScaleReadsRunning, queueVars, callVars, runVars, endVars, FutureHonest, GivenUp,
       Held, InQueue, Pushing, Submitted, Placed, Executed, Completed, Serving, Closing,
       Drained
  <1>3. SizeShape'
    <2>1. Cardinality(Running) \in Nat
      BY WorkersAssumption, FS_Subset, FS_CardinalityType DEF Running
    <2>. QED
      BY <2>1 DEF ScaleReadsRunning, SizeShape
  <1>4. Sized'
    BY DEF ScaleReadsRunning, queueVars, callVars, runVars, endVars, Sized
  <1>. QED
    BY <1>1, <1>2, <1>3, <1>4

LEMMA ScaleDecidesKeeps ==
  ASSUME IInv, ScaleDecides
  PROVE  IInv'
  <1>. USE TasksAssumption DEF IInv, Shape, Outcomes
  <1>1. QueueShape' /\ WorkerShape' /\ TaskShape' /\ CallShape' /\ EndShape'
    BY DEF ScaleDecides, queueVars, callVars, runVars, endVars, Holding, Pushing, QueueShape,
       WorkerShape, TaskShape, CallShape, EndShape
  <1>2. Submitted' /\ Placed' /\ Executed' /\ Completed' /\ Serving' /\ Closing' /\ Drained'
    BY DEF ScaleDecides, queueVars, callVars, runVars, endVars, FutureHonest, GivenUp, Held,
       InQueue, Pushing, Submitted, Placed, Executed, Completed, Serving, Closing, Drained
  <1>. DEFINE left == ScaleBy(scaler.queueLen, scaler.runningTasks, Len(workers))
  <1>3. /\ left \in Int
        /\ Sized /\ OneResizer => MinWorkers <= Len(workers) + left
                                 /\ Len(workers) + left <= MaxWorkers
    <2>1. /\ Len(workers) \in Nat /\ MinWorkers \in Nat /\ MaxWorkers \in Nat
          /\ QueueSize \in Nat /\ scaler.queueLen \in Nat /\ scaler.runningTasks \in Nat
      BY Indices, BoundsAssumption DEF SizeShape
    <2>2. /\ left \in Int
          /\ Len(workers) <= MaxWorkers => Len(workers) + left <= MaxWorkers
          /\ MinWorkers <= Len(workers) => MinWorkers <= Len(workers) + left
      BY <2>1 DEF ScaleBy
    <2>. QED
      BY <2>2 DEF Sized
  <1>. HIDE DEF left
  <1>5. SizeShape'
    <2>1. Asleep \in [at : {"ticker", "readRunning", "readWorkers", "scale", "exited"},
                      queueLen : 0..QueueSize, runningTasks : Nat, left : Int]
      BY BoundsAssumption DEF Asleep
    <2>. QED
      BY <1>3, <2>1 DEF ScaleDecides, SizeShape, left
  <1>4. Sized'
    <2>1. /\ workers' = workers /\ resize' = resize
          /\ scaler'.left = left /\ (scaler'.at # "scale" => left = 0)
          /\ scaler.at = "readWorkers"
      BY DEF ScaleDecides, Asleep, left
    <2>. QED
      BY <1>3, <2>1 DEF Sized
  <1>. QED
    BY <1>1, <1>2, <1>4, <1>5

LEMMA ScaleStepKeeps ==
  ASSUME IInv, ScaleStep
  PROVE  IInv'
  <1>. USE TasksAssumption DEF IInv, Shape, Outcomes
  <1>1. UNCHANGED <<queueVars, callVars, runVars, endVars, future>>
    BY DEF ScaleStep
  <1>2. addWorker \/ removeWorker
    BY DEF ScaleStep
  <1>3. WorkerShape' /\ Placed' /\ Executed' /\ Completed' /\ Serving'
    BY <1>1, <1>2, AddWorkerKeeps, RemoveWorkerKeeps
  <1>4. QueueShape' /\ TaskShape' /\ CallShape' /\ EndShape'
    BY DEF ScaleStep, queueVars, callVars, runVars, endVars, Pushing, QueueShape, TaskShape,
       CallShape, EndShape
  <1>5. Submitted' /\ Closing' /\ Drained'
    BY DEF ScaleStep, queueVars, callVars, runVars, endVars, Pushing, Submitted, Closing,
       Drained
  <1>6. SizeShape'
    <2>1. workers' \in Seq(Workers) /\ stopped' \subseteq Workers
      BY <1>1, <1>2, AddWorkerKeeps, RemoveWorkerKeeps DEF SizeShape
    <2>2. scaler' \in [at : {"ticker", "readRunning", "readWorkers", "scale", "exited"},
                        queueLen : 0..QueueSize, runningTasks : Nat, left : Int]
      <3>1. Asleep \in [at : {"ticker", "readRunning", "readWorkers", "scale", "exited"},
                         queueLen : 0..QueueSize, runningTasks : Nat, left : Int]
        BY BoundsAssumption DEF Asleep
      <3>. QED
        BY <3>1 DEF ScaleStep, SizeShape
    <2>. QED
      BY <2>1, <2>2 DEF ScaleStep, SizeShape
  <1>7. Sized'
    <2>. SUFFICES ASSUME OneResizer PROVE Sized'
      BY DEF Sized
    <2>1. AutoScale /\ Resizers = {} /\ scaler.at = "scale"
      BY DEF OneResizer, ScaleStep, Sized
    <2>2. Len(workers) \in Nat /\ scaler.left \in Int /\ MinWorkers \in Nat /\ MaxWorkers \in Nat
      BY Indices, BoundsAssumption DEF SizeShape
    <2>3. /\ MinWorkers <= Len(workers) /\ Len(workers) <= MaxWorkers
          /\ MinWorkers <= Len(workers) + scaler.left /\ Len(workers) + scaler.left <= MaxWorkers
      BY DEF Sized
    <2>4. /\ Len(workers') + scaler'.left = Len(workers) + scaler.left
          /\ MinWorkers <= Len(workers') /\ Len(workers') <= MaxWorkers
          /\ scaler'.at # "scale" => scaler'.left = 0
      <3>1. CASE scaler.left > 0
        <4>1. Len(workers') = Len(workers) + 1
          BY <1>1, <2>2, <3>1, AddWorkerKeeps DEF ScaleStep
        <4>2. scaler'.left = scaler.left - 1 /\ (scaler'.at # "scale" => scaler'.left = 0)
          BY <2>1, <2>2, <3>1 DEF ScaleStep, Asleep, SizeShape
        <4>. QED
          BY <2>2, <2>3, <3>1, <4>1, <4>2
      <3>2. CASE scaler.left < 0
        <4>1. Len(workers') = IF Len(workers) = 0 THEN 0 ELSE Len(workers) - 1
          BY <1>1, <2>2, <3>2, RemoveWorkerKeeps DEF ScaleStep
        <4>2. scaler'.left = scaler.left + 1 /\ (scaler'.at # "scale" => scaler'.left = 0)
          BY <2>1, <2>2, <3>2 DEF ScaleStep, Asleep, SizeShape
        <4>. QED
          BY <2>2, <2>3, <3>2, <4>1, <4>2
      <3>. QED
        BY <3>1, <3>2 DEF ScaleStep
    <2>. QED
      BY <2>1, <2>2, <2>3, <2>4 DEF Sized
  <1>. QED
    BY <1>3, <1>4, <1>5, <1>6, <1>7

LEMMA ScaleLoopEndsKeeps ==
  ASSUME IInv, ScaleLoopEnds
  PROVE  IInv'
  <1>. USE TasksAssumption DEF IInv, Shape, Outcomes
  <1>1. QueueShape' /\ WorkerShape' /\ TaskShape' /\ CallShape' /\ EndShape'
    BY DEF ScaleLoopEnds, queueVars, callVars, runVars, endVars, Holding, Pushing, QueueShape,
       WorkerShape, TaskShape, CallShape, EndShape
  <1>2. Submitted' /\ Placed' /\ Executed' /\ Completed' /\ Serving' /\ Closing' /\ Drained'
    BY DEF ScaleLoopEnds, queueVars, callVars, runVars, endVars, FutureHonest, GivenUp, Held,
       InQueue, Pushing, Submitted, Placed, Executed, Completed, Serving, Closing, Drained
  <1>3. SizeShape'
    BY DEF ScaleLoopEnds, queueVars, callVars, runVars, endVars, SizeShape
  <1>4. Sized'
    BY DEF ScaleLoopEnds, queueVars, callVars, runVars, endVars, Sized
  <1>. QED
    BY <1>1, <1>2, <1>3, <1>4

LEMMA SwapClosedKeeps ==
  ASSUME IInv, NEW k \in Closers, NEW mode \in Modes, SwapClosed(k, mode)
  PROVE  IInv'
  <1>. USE TasksAssumption DEF IInv, Shape, Outcomes
  <1>1. QueueShape' /\ WorkerShape' /\ TaskShape' /\ CallShape' /\ SizeShape'
    BY DEF SwapClosed, queueVars, callVars, runVars, sizeVars, Holding, Pushing, QueueShape,
       WorkerShape, TaskShape, CallShape, SizeShape
  <1>2. Submitted' /\ Placed' /\ Executed' /\ Completed' /\ Serving' /\ Sized'
    BY DEF SwapClosed, queueVars, callVars, runVars, sizeVars, FutureHonest, GivenUp, Held,
       InQueue, Pushing, Submitted, Placed, Executed, Completed, Serving, Sized
  <1>3. EndShape'
    BY DEF SwapClosed, CloserAt, queueVars, callVars, runVars, sizeVars, EndShape
  <1>4. Closing'
    BY DEF SwapClosed, CloserAt, queueVars, callVars, runVars, sizeVars, Closing
  <1>5. Drained'
    BY DEF SwapClosed, CloserAt, queueVars, callVars, runVars, sizeVars, Drained
  <1>. QED
    BY <1>1, <1>2, <1>3, <1>4, <1>5

LEMMA CloseQueueKeeps ==
  ASSUME IInv, NEW k \in Closers, CloseQueue(k)
  PROVE  IInv'
  <1>. USE TasksAssumption DEF IInv, Shape, Outcomes
  <1>1. WorkerShape' /\ TaskShape' /\ CallShape' /\ SizeShape'
    BY DEF CloseQueue, callVars, runVars, sizeVars, Holding, Pushing, WorkerShape, TaskShape,
       CallShape, SizeShape
  <1>2. Submitted' /\ Placed' /\ Executed' /\ Completed' /\ Sized'
    BY DEF CloseQueue, callVars, runVars, sizeVars, FutureHonest, GivenUp, Held, InQueue,
       Pushing, Submitted, Placed, Executed, Completed, Sized
  <1>3. QueueShape'
    BY DEF CloseQueue, CloserAt, callVars, runVars, sizeVars, QueueShape
  <1>4. EndShape'
    BY DEF CloseQueue, CloserAt, callVars, runVars, sizeVars, EndShape
  <1>5. Serving'
    BY DEF CloseQueue, CloserAt, callVars, runVars, sizeVars, Serving
  <1>6. Closing'
    BY DEF CloseQueue, CloserAt, EndShape, callVars, runVars, sizeVars, Closing
  <1>7. Drained'
    BY DEF CloseQueue, CloserAt, EndShape, callVars, runVars, sizeVars, Drained
  <1>. QED
    BY <1>1, <1>2, <1>3, <1>4, <1>5, <1>6, <1>7

LEMMA CancelScalingKeeps ==
  ASSUME IInv, NEW k \in Closers, CancelScaling(k)
  PROVE  IInv'
  <1>. USE TasksAssumption DEF IInv, Shape, Outcomes
  <1>1. QueueShape' /\ WorkerShape' /\ TaskShape' /\ CallShape' /\ SizeShape'
    BY DEF CancelScaling, queueVars, callVars, runVars, sizeVars, Holding, Pushing, QueueShape,
       WorkerShape, TaskShape, CallShape, SizeShape
  <1>2. Submitted' /\ Placed' /\ Executed' /\ Completed' /\ Serving' /\ Sized'
    BY DEF CancelScaling, queueVars, callVars, runVars, sizeVars, FutureHonest, GivenUp, Held,
       InQueue, Pushing, Submitted, Placed, Executed, Completed, Serving, Sized
  <1>3. EndShape'
    BY DEF CancelScaling, CloserAt, queueVars, callVars, runVars, sizeVars, EndShape
  <1>4. Closing'
    BY DEF CancelScaling, CloserAt, EndShape, queueVars, callVars, runVars, sizeVars, Closing
  <1>5. Drained'
    BY DEF CancelScaling, CloserAt, EndShape, queueVars, callVars, runVars, sizeVars, Drained
  <1>. QED
    BY <1>1, <1>2, <1>3, <1>4, <1>5

LEMMA CancelNowKeeps ==
  ASSUME IInv, NEW k \in Closers, CancelNow(k)
  PROVE  IInv'
  <1>. USE TasksAssumption DEF IInv, Shape, Outcomes
  <1>1. QueueShape' /\ WorkerShape' /\ TaskShape' /\ CallShape' /\ SizeShape'
    BY DEF CancelNow, queueVars, callVars, runVars, sizeVars, Holding, Pushing, QueueShape,
       WorkerShape, TaskShape, CallShape, SizeShape
  <1>2. Submitted' /\ Placed' /\ Sized'
    BY DEF CancelNow, queueVars, callVars, runVars, sizeVars, Held, InQueue, Pushing,
       Submitted, Placed, Sized
  <1>3. EndShape'
    BY DEF CancelNow, CloserAt, queueVars, callVars, runVars, sizeVars, EndShape
  <1>4. Executed'
    BY DEF CancelNow, CloserAt, queueVars, callVars, runVars, sizeVars, Executed, GivenUp
  <1>5. Completed'
    BY DEF CancelNow, CloserAt, queueVars, callVars, runVars, sizeVars, Completed, FutureHonest
  <1>6. Serving'
    BY DEF CancelNow, CloserAt, queueVars, callVars, runVars, sizeVars, Serving
  <1>7. Closing'
    BY DEF CancelNow, CloserAt, queueVars, callVars, runVars, sizeVars, Closing
  <1>8. Drained'
    BY DEF CancelNow, CloserAt, queueVars, callVars, runVars, sizeVars, Drained
  <1>. QED
    BY <1>1, <1>2, <1>3, <1>4, <1>5, <1>6, <1>7, <1>8

LEMMA WaitReturnsKeeps ==
  ASSUME IInv, NEW k \in Closers, WaitReturns(k)
  PROVE  IInv'
  <1>. USE TasksAssumption DEF IInv, Shape, Outcomes
  <1>1. QueueShape' /\ WorkerShape' /\ TaskShape' /\ CallShape' /\ SizeShape'
    BY DEF WaitReturns, queueVars, callVars, runVars, sizeVars, Holding, Pushing, QueueShape,
       WorkerShape, TaskShape, CallShape, SizeShape
  <1>2. Submitted' /\ Placed' /\ Executed' /\ Completed' /\ Serving' /\ Sized'
    BY DEF WaitReturns, queueVars, callVars, runVars, sizeVars, FutureHonest, GivenUp, Held,
       InQueue, Pushing, Submitted, Placed, Executed, Completed, Serving, Sized
  <1>3. EndShape'
    BY DEF WaitReturns, CloserAt, queueVars, callVars, runVars, sizeVars, EndShape
  <1>4. Closing'
    BY DEF WaitReturns, CloserAt, EndShape, queueVars, callVars, runVars, sizeVars, Closing
  <1>5. Drained'
    <2>. SUFFICES ASSUME OneResizer, MinWorkers > 0, closer[k] = "S.wait" PROVE Drained'
      BY DEF WaitReturns, CloserAt, EndShape, queueVars, callVars, runVars, sizeVars, Drained,
         Closing
    <2>1. qclosed /\ ~cancelled
      BY DEF Closing
    <2>2. \A w \in Workers : wpc[w] = "none" /\ job[w] = NoTask
      BY DEF WaitReturns, AllDone, Live, WorkerShape, Holding
    <2>3. 1 \in 1..Len(workers)
      BY Indices, BoundsAssumption DEF Sized
    <2>4. queue = <<>>
      BY <2>1, <2>2, <2>3, Indices DEF Serving
    <2>5. \A t : ~InQueue(t)
      BY <2>4 DEF InQueue
    <2>6. \A t \in Tasks : ~Held(t)
      BY <2>2 DEF Held
    <2>7. accepted = counted
      BY <2>5, <2>6 DEF Placed, TaskShape
    <2>8. \A t \in accepted :
             future[t] # "open" /\ (fn[t] \notin {"ok", "panic"} => t \in TimedTasks)
      BY <2>1, <2>2, <2>7 DEF Executed, GivenUp, Completed, TaskShape
    <2>. QED
      BY <2>4, <2>7, <2>8 DEF WaitReturns, queueVars, callVars, runVars, Drained
  <1>. QED
    BY <1>1, <1>2, <1>3, <1>4, <1>5

LEMMA ShutdownDrainedKeeps ==
  ASSUME IInv, NEW k \in Closers, ShutdownDrained(k)
  PROVE  IInv'
  <1>. USE TasksAssumption DEF IInv, Shape, Outcomes
  <1>1. QueueShape' /\ WorkerShape' /\ TaskShape' /\ CallShape' /\ SizeShape'
    BY DEF ShutdownDrained, queueVars, callVars, runVars, sizeVars, Holding, Pushing,
       QueueShape, WorkerShape, TaskShape, CallShape, SizeShape
  <1>2. Submitted' /\ Placed' /\ Sized'
    BY DEF ShutdownDrained, queueVars, callVars, runVars, sizeVars, Held, InQueue, Pushing,
       Submitted, Placed, Sized
  <1>3. EndShape'
    BY DEF ShutdownDrained, CloserAt, queueVars, callVars, runVars, sizeVars, EndShape
  <1>4. Executed'
    BY DEF ShutdownDrained, CloserAt, queueVars, callVars, runVars, sizeVars, Executed, GivenUp
  <1>5. Completed'
    BY DEF ShutdownDrained, CloserAt, queueVars, callVars, runVars, sizeVars, Completed,
       FutureHonest
  <1>6. Serving'
    BY DEF ShutdownDrained, CloserAt, queueVars, callVars, runVars, sizeVars, Serving
  <1>7. Closing'
    BY DEF ShutdownDrained, CloserAt, EndShape, queueVars, callVars, runVars, sizeVars, Closing
  <1>8. Drained'
    BY DEF ShutdownDrained, CloserAt, queueVars, callVars, runVars, sizeVars, Drained
  <1>. QED
    BY <1>1, <1>2, <1>3, <1>4, <1>5, <1>6, <1>7, <1>8

LEMMA ShutdownTimesOutKeeps ==
  ASSUME IInv, NEW k \in Closers, ShutdownTimesOut(k)
  PROVE  IInv'
  <1>. USE TasksAssumption DEF IInv, Shape, Outcomes
  <1>1. QueueShape' /\ WorkerShape' /\ TaskShape' /\ CallShape' /\ SizeShape'
    BY DEF ShutdownTimesOut, queueVars, callVars, runVars, sizeVars, Holding, Pushing,
       QueueShape, WorkerShape, TaskShape, CallShape, SizeShape
  <1>2. Submitted' /\ Placed' /\ Sized'
    BY DEF ShutdownTimesOut, queueVars, callVars, runVars, sizeVars, Held, InQueue, Pushing,
       Submitted, Placed, Sized
  <1>3. EndShape'
    BY DEF ShutdownTimesOut, CloserAt, queueVars, callVars, runVars, sizeVars, EndShape
  <1>4. Executed'
    BY DEF ShutdownTimesOut, CloserAt, queueVars, callVars, runVars, sizeVars, Executed,
       GivenUp
  <1>5. Completed'
    BY DEF ShutdownTimesOut, CloserAt, queueVars, callVars, runVars, sizeVars, Completed,
       FutureHonest
  <1>6. Serving'
    BY DEF ShutdownTimesOut, CloserAt, queueVars, callVars, runVars, sizeVars, Serving
  <1>7. Closing'
    BY DEF ShutdownTimesOut, CloserAt, EndShape, queueVars, callVars, runVars, sizeVars,
       Closing
  <1>8. Drained'
    BY DEF ShutdownTimesOut, CloserAt, queueVars, callVars, runVars, sizeVars, Drained
  <1>. QED
    BY <1>1, <1>2, <1>3, <1>4, <1>5, <1>6, <1>7, <1>8

LEMMA NextKeeps ==
  ASSUME IInv, Next
  PROVE  IInv'
  <1>1. ASSUME NEW s \in Submitters, NEW t \in Tasks, NEW push \in Calls, BeginSubmit(s, t, push)
        PROVE  IInv'
    BY <1>1, BeginSubmitKeeps
  <1>2. ASSUME NEW s \in Submitters,
               PushAccepted(s) \/ PushRefused(s) \/ AwaitReturns(s) \/ AwaitCancelled(s)
        PROVE  IInv'
    BY <1>2, PushAcceptedKeeps, PushRefusedKeeps, AwaitReturnsKeeps, AwaitCancelledKeeps
  <1>3. ASSUME NEW w \in Workers, WorkerStep(w)
        PROVE  IInv'
    BY <1>3, WorkerLoopsKeeps, WorkerPopsKeeps, StartTaskKeeps, TaskOutcomeKeeps,
       RecordTaskKeeps, CompleteFutureKeeps, FinishTaskKeeps DEF WorkerStep
  <1>4. ASSUME NEW t \in Tasks, FnReturns(t)
        PROVE  IInv'
    BY <1>4, FnReturnsKeeps
  <1>5. ASSUME NEW r \in Resizers, ResizeStep(r) \/ \E n \in 0..MaxWorkers + 1 : Resize(r, n)
        PROVE  IInv'
    BY <1>5, ResizeStepKeeps, ResizeKeeps
  <1>6. ASSUME ScaleTick \/ ScaleReadsRunning \/ ScaleDecides \/ ScaleStep \/ ScaleLoopEnds
        PROVE  IInv'
    BY <1>6, ScaleTickKeeps, ScaleReadsRunningKeeps, ScaleDecidesKeeps, ScaleStepKeeps,
       ScaleLoopEndsKeeps
  <1>7. ASSUME NEW k \in Closers, NEW mode \in Modes, SwapClosed(k, mode)
        PROVE  IInv'
    BY <1>7, SwapClosedKeeps
  <1>8. ASSUME NEW k \in Closers, CloserStep(k) \/ ShutdownTimesOut(k)
        PROVE  IInv'
    BY <1>8, CloseQueueKeeps, CancelScalingKeeps, CancelNowKeeps, WaitReturnsKeeps,
       ShutdownDrainedKeeps, ShutdownTimesOutKeeps DEF CloserStep
  <1>. QED
    BY <1>1, <1>2, <1>3, <1>4, <1>5, <1>6, <1>7, <1>8 DEF Next

LEMMA StutterKeeps ==
  ASSUME IInv, UNCHANGED vars
  PROVE  IInv'
  <1>. USE DEF IInv, Shape, vars, queueVars, callVars, runVars, sizeVars, endVars
  <1>1. QueueShape' /\ WorkerShape' /\ TaskShape' /\ CallShape' /\ SizeShape' /\ EndShape'
    BY DEF QueueShape, WorkerShape, TaskShape, CallShape, SizeShape, EndShape
  <1>2. Submitted' /\ Placed' /\ Executed' /\ Completed'
    BY DEF Submitted, Placed, InQueue, Held, Executed, GivenUp, Completed, FutureHonest
  <1>3. Serving' /\ Closing' /\ Sized' /\ Drained'
    BY DEF Serving, Closing, Sized, Drained
  <1>. QED
    BY <1>1, <1>2, <1>3

(* IInv holds in every state the pool reaches. *)
LEMMA Invariance == Spec => []IInv
  <1>1. Init => IInv
    BY InitIInv
  <1>2. IInv /\ [Next]_vars => IInv'
    BY NextKeeps, StutterKeeps
  <1>. QED
    BY <1>1, <1>2, PTL DEF Spec

------------------------------------------------------------------------------
(* The places of a task, counted. *)
LEMMA AtMostOne ==
  ASSUME NEW S, \A x, y \in S : x = y
  PROVE  /\ S = {} => Cardinality(S) = 0
         /\ S # {} => Cardinality(S) = 1
  <1>1. ASSUME NEW x \in S PROVE S = {x}
    BY <1>1
  <1>. QED
    BY <1>1, FS_EmptySet, FS_Singleton

LEMMA OnePlace == IInv => TaskInOnePlace
  <1>. SUFFICES ASSUME IInv, NEW t \in Tasks
       PROVE  LET places == Cardinality({i \in DOMAIN queue : queue[i] = t})
                            + Cardinality({w \in Workers : job[w] = t})
              IN  /\ places <= 1
                  /\ t \in accepted \ counted => places = 1
                  /\ t \notin accepted => places = 0 /\ fn[t] = "none"
    BY DEF TaskInOnePlace
  <1>. DEFINE Q == {i \in DOMAIN queue : queue[i] = t}
              W == {w \in Workers : job[w] = t}
  <1>1. DOMAIN queue = 1..Len(queue) /\ t # NoTask
    BY Indices, TasksAssumption DEF IInv, Shape
  <1>2. \A i, j \in Q : i = j
    BY <1>1 DEF IInv, Placed
  <1>3. \A v, w \in W : v = w
    BY <1>1 DEF IInv, Placed
  <1>4. /\ Q = {} \/ W = {}
        /\ t \in accepted \ counted => Q # {} \/ W # {}
        /\ t \notin accepted => Q = {} /\ W = {}
    BY <1>1 DEF IInv, Placed, InQueue, Held
  <1>5. /\ Q = {} => Cardinality(Q) = 0
        /\ Q # {} => Cardinality(Q) = 1
    <2>. HIDE DEF Q
    <2>. QED
      BY <1>2, AtMostOne
  <1>6. /\ W = {} => Cardinality(W) = 0
        /\ W # {} => Cardinality(W) = 1
    <2>. HIDE DEF W
    <2>. QED
      BY <1>3, AtMostOne
  <1>7. t \notin accepted => fn[t] = "none"
    BY DEF IInv, Executed
  <1>. HIDE DEF Q, W
  <1>8. /\ Cardinality(Q) + Cardinality(W) <= 1
        /\ t \in accepted \ counted => Cardinality(Q) + Cardinality(W) = 1
        /\ t \notin accepted => Cardinality(Q) + Cardinality(W) = 0
    BY <1>4, <1>5, <1>6
  <1>. QED
    BY <1>7, <1>8 DEF Q, W

(* A task that Push accepted waits in the queue or is with one worker until *)
(* its execution has been counted, whatever happens to the workers, and    *)
(* nowhere twice (worker.go run, executeTask).                             *)
THEOREM TaskPoolPlaces == Spec => []TaskInOnePlace
  BY Invariance, OnePlace, PTL

(* A Future tells what happened to its task, however submitting, executing *)
(* and shutting down interleave (taskpool.go SubmitWithContext, worker.go  *)
(* executeTask).                                                           *)
THEOREM TaskPoolFutures == Spec => []FutureHonest
  <1>1. IInv => FutureHonest
    BY DEF IInv, Completed
  <1>. QED
    BY <1>1, Invariance, PTL

LEMMA Serves == IInv => TypeOK /\ SliceServes
  <1>. SUFFICES ASSUME IInv PROVE TypeOK /\ SliceServes
    OBVIOUS
  <1>. USE DEF IInv, Shape
  <1>1. TypeOK
    <2>1. call \in [Submitters -> [at : {"idle", "push", "pushAsync", "pushWait", "await"},
                                   task : Tasks \cup {NoTask}]]
      <3>1. {"idle", "await"} \cup Pushing = {"idle", "push", "pushAsync", "pushWait", "await"}
        BY DEF Pushing
      <3>. QED
        BY <3>1 DEF CallShape
    <2>2. wpc \in [Workers -> {"none", "loop", "pop", "start", "select", "finish"} \cup Outcomes]
      BY DEF WorkerShape, Holding
    <2>. QED
      BY <2>1, <2>2 DEF TypeOK, QueueShape, WorkerShape, TaskShape, SizeShape, EndShape
  <1>2. SliceServes
    <2>1. DOMAIN workers = 1..Len(workers) /\ \A i \in 1..Len(workers) : workers[i] \in Workers
      BY Indices
    <2>. QED
      BY <2>1 DEF SliceServes, InSlice, Live, Serving, EndShape
  <1>. QED
    BY <1>1, <1>2

(* A worker of the slice is not told to stop, is there once, and has a     *)
(* goroutine as long as the pool is open, however many goroutines call     *)
(* Resize (taskpool.go addWorker, removeWorker).                           *)
THEOREM TaskPoolServes == Spec => [](TypeOK /\ SliceServes)
  BY Invariance, Serves, PTL

(* The number of workers stays within the limits, and each of them serves, *)
(* as long as one goroutine at a time, Resize or the scaling loop, changes *)
(* it (taskpool.go Resize, scale.go checkAndScale).                        *)
THEOREM TaskPoolBounded == Spec => [](OneResizer => WorkersBounded)
  <1>1. IInv => (OneResizer => WorkersBounded)
    BY Serves DEF IInv, Sized, WorkersBounded
  <1>. QED
    BY <1>1, Invariance, PTL

(* Shutdown returns nil only after every accepted task has been executed   *)
(* and counted and its Future is complete, if a worker is left to do it    *)
(* (taskpool.go Shutdown).                                                 *)
THEOREM TaskPoolDrains == Spec => [](OneResizer /\ MinWorkers > 0 => ShutdownDrains)
  <1>1. IInv => (OneResizer /\ MinWorkers > 0 => ShutdownDrains)
    BY DEF IInv, Drained, ShutdownDrains
  <1>. QED
    BY <1>1, Invariance, PTL
==============================================================================
