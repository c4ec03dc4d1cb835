# go-kitbox in TLA+

A verification project for go-kitbox, a toolkit of independent Go packages:
TLA+ modules translated from the code under `src/`, TLC runs that check them on
small instances, and proofs checked by TLAPS. Paths below are relative to the
repository root; `taskpool/queue.go` is short for `src/pkg/taskpool/queue.go`.

## The system

Each package stands alone except for the arrows listed below the table. What makes the
toolkit hard is the same everywhere: a struct behind a mutex, goroutines that
outlive the call which started them, and decisions taken on a value that was
read under a lock that has been given back.

| Component | State | Operations | Hard part | What makes it correct |
|---|---|---|---|---|
| Ring queue (`taskpool/queue.go`) | ring buffer with head, tail, size; two condition variables; closed | Push, BatchPush, Pop, Close | wakeups: who is signalled and who gets there first | bounded FIFO; nobody sleeps beside what he waits for; closing drains |
| Priority queue (`taskpool/priority_queue.go`) | ten ring queues, an atomic counter, a condition variable | Push, BatchPush, Pop, Close | counter, buckets and signal are updated in separate steps | the counter never drifts; no accepted task is slept over or left behind; no starvation |
| Task pool (`taskpool/taskpool.go`, `worker.go`, `task.go`, `scale.go`) | a queue, a slice of workers, futures, metrics, contexts | Submit, SubmitAndWait, SubmitAsync, BatchSubmit, Resize, scaling loop, Shutdown, ShutdownNow | workers started and stopped while they pop; shutdown racing submits | an accepted task runs once, its future tells the truth, shutdown leaves nothing |
| Lifecycle manager (`lifecycle/`) | workers, their order, their contexts; running; a WaitGroup; errChan | AddWorker, StopWorker, Run, Shutdown, hooks | workers added and finishing during startup and shutdown | every worker can be stopped, is told to end, and ends before the hooks |
| Timer manager (`timer/`) | id -> timer; per timer a ticker and a stop channel | CreateTimer, CreateOnceTimer, RemoveTimer, ResetTimer, StopAll; Debounce, Throttle, retries | goroutines read the timer's channels while ResetTimer replaces them | a listed timer fires, a removed one stops |
| Fillp (`fillp/`) | connection state, send and receive windows, retransmission queue, byte rings | Connect, Listen, Send, Receive, Close; workers for receiving, sending, retransmission, keep-alive | lost, reordered and duplicated packets; workers sharing sequence numbers | a reliable byte stream; both ends agree on being connected |
| Network connections (`netconn/`) | the client's fd, stop channel and running flag; the server's listener, stop channel and handlers by fd; a registry of connections at each side | Connect, Close, StartBaseListener, StopBaseListener, SendBytes, CloseConn; receive, accept and read loops | loops that read the fields anew in each turn, while Stop, Close and a second Connect replace them | what is open has a handler; who closes one end is noticed at the other; OnDisconnected comes once |
| Configuration (`config/manager.go`) | the configuration, its file, a watcher, a watch loop | LoadConfig, GetConfig, SaveConfig, ReloadConfig, EnableWatch, Close | a reload racing another one, editors of the file, a crash during a save | the file is old or new; callbacks and GetConfig agree; a change that was seen is loaded |
| Router (`zallocrout/`) | a trie for each method, a sharded hot cache, object pools | AddRoute, Match, the handler chain; cache load, store, evict, clear | Match walks while AddRoute inserts; stale entries; eviction from a snapshot | a match is what the registered routes say; the cache stays within its size |
| State machines (`statemachine/`) | the current state, rules, a hierarchy, callbacks, a queue of events, a group | AddTransition, Trigger, Reset, Start, Stop, TriggerAsync, snapshots, TriggerAll | callbacks that fail halfway, paths through the hierarchy, Stop with a full queue | exit and enter callbacks agree with the state; events are handled in order |
| Congestion control (`congestion/`) | window, threshold, RTT estimates, bytes in flight, samples | OnPacketSent, OnAckReceived, OnPacketLost | bounds and recovery under any order of events | the window stays within its limits and opens again after losses |
| Binary packing (`binpack/`) | struct tags, a compiled codec | Marshal, MarshalTo, MarshalWithPool, Unmarshal | sizes counted in one pass and used in another; variable, repeated, conditional and bit fields; short data | what was packed is unpacked, or refused |
| Logger, byte conversion, the binpack generator, examples | - | log; cast; generate | - | - |

Interactions: the task pool's workers take from a ring queue or a priority
queue (an interface of Push, Pop, BatchPush, Len, Close), and the priority queue
is built of ring queues. Fillp calls a congestion
controller; netconn runs over TCP or Fillp. Users combine the
pool with the lifecycle manager by registering it as a worker with a StopFunc.

## Modules

| Module | Models | How |
|---|---|---|
| `BoundedFifo` | what a queue promises | an abstract buffer: who put what, in which order it is taken |
| `RingQueue` | `taskpool/queue.go` | one action per stretch under `q.mu` |
| `RingQueueProofs` | | proofs about `RingQueue` |
| `PriorityQueue` | `taskpool/priority_queue.go` | one action per access to shared state; buckets are bounded FIFOs |
| `PriorityQueueProofs` | | proofs about `PriorityQueue` |
| `TaskPool` | `taskpool.go`, `worker.go`, `task.go`, `scale.go` | workers, submitters, resizers, closers and the scaling loop as processes |
| `TaskPoolProofs` | | proofs about `TaskPool` |
| `Lifecycle` | `lifecycle/manager.go`, `hook.go`, `worker.go` | callers of Run and Shutdown, and the goroutines of workers |
| `LifecycleProofs` | | proofs about `Lifecycle` |
| `Timer` | `timer/timer.go` | timers, and the goroutines that wait on their channels |
| `Fillp` | `fillp/connection.go`, `buffer.go` | two ends and the network; a handler is one action, the send worker takes three steps, the retransmission worker two |
| `FillpProofs` | | proofs about `Fillp` |
| `Netconn` | `netconn/client.go`, `server.go`, `manager.go` | a client and a server, their loops and registries |
| `NetconnProofs` | | proofs about the server and the client of `Netconn` |
| `ConfigManager` | `config/manager.go` | callers, watch loops, editors of the file, crashes |
| `ConfigManagerProofs` | | proofs about `ConfigManager` |
| `Router` | `zallocrout/router.go`, `node.go`, `cache.go`, `preprocess.go` | AddRoute and Match node by node, one shard of the cache |
| `StateMachines` | `statemachine/` | Trigger as one action, the asynchronous queue, the group, snapshots |
| `Congestion` | `congestion/` | the four controllers with a sender and a network |
| `Binpack` | `binpack/` | tags, codec, Marshal and Unmarshal as operators; a behaviour is one value on its way |
| `LibraryProofs` | | proofs about `Timer`, `Router`, `StateMachines`, `Congestion` and `Binpack` |
| `MCLibraries` | | `StateMachines`, `Congestion` and `Timer` in one run: the initial state says which of them a behaviour is of |
| `MCRouter`, `MCPacking` | | `Router` and `Binpack` in one run, in the same way; the structs for `Binpack` |
| `MC...` | | the instance of each for TLC, with its symmetry and data |

**RingQueue.** `buffer`, `head`, `tail`, `size`, `closed` are the fields of the
struct. `notEmpty` and `notFull` are the waiters of the condition variables in
the order `sync.Cond` releases them; `awake` holds the callers released that do
not have `q.mu` yet. Between a Signal and the return of the Wait it answers any
other call may run, which is the whole difficulty of the component. A Push that
waits keeps its task in `pending`; a BatchPush its tail. `PushResumes`,
`BatchResumes` and `PopResumes` are the loops around `Wait`.

**PriorityQueue.** `Push` is five steps: the look at `closed` under `pq.mu`, the
bucket's own Push, `totalSize.Add`, `notEmpty.Signal`, and the return. `Pop`
locks, reads `closed` and the counter, reads the counter again, then waits or
unlocks and scans the buckets one at a time. `mu` says who keeps `pq.mu` between
two steps. That a bucket is an atomic bounded FIFO is what `RefinesFifo` shows
of `RingQueue`.

**TaskPool.** `wpc` and `job` are where each worker is and what it holds;
`workers` is the slice, `stopped` those whose `stopChan` is closed. A stopped
worker looks at `stopChan` only at the top of its loop, so it may take one more
task. `fn` is what the user's function does and `future` what its Future says:
they are separate, so that `FutureHonest` can compare them. An execution with
its retries is one step from start to outcome. Shutdown is the sequence of the
code: swap `closed`, close the queue, cancel scaling, wait in a goroutine of its
own, and either that wait or the caller's context ends first.

**Lifecycle.** `registered`, `order` and `ctxOf` are the three registries. `gs`
lists the goroutines ever started for workers; the context made for each is
identified with it, with a flag for those derived from the root context
(AddWorker at run time) instead of the context of Run. `told` is what a
goroutine has been told: its context cancelled, its StopFunc called. `mark` is a
history variable: the goroutines there were when a caller cancelled them.

**Timer.** `obj` is the Timer structs. A timer's ticker and stopChan are
replaced together by ResetTimer and are known by the number of the reset;
`open` is the one not yet stopped. The goroutine of a periodic timer reads
`timer.ticker`, then `timer.stopChan`, without the lock, each time it reaches its
select, and both reads are steps.

**Fillp.** Both ends run the same code, one calls Connect, the other Listen. A
byte is its position in its sender's stream, so that the receiver's bytes can be
compared with the sender's without knowing them: `received` is all that was ever
written to the receive buffer, of which `taken` bytes have been read. A packet
carries what the handlers read of it; `net` is the set of packets under way,
from which any may be delivered next or lost, and a packet sent again is the
duplicate of one that is still under way. What `retransQueue` keeps is trimmed,
split and answered as `TrimUpTo` does, entry by entry. A handler runs under
`c.mu` and is atomic; `worker` is where the send worker is between reading the
send buffer, writing the packet and advancing `sendSeq`, which it does without
`c.mu`; `expired` holds what the retransmission worker has collected. `mishaps`
is a history variable, explained with the exceptions below. A keep-alive is sent
when nothing is under way, as it takes ten seconds of silence. Close is atomic:
the worst it can meet between its steps, a packet for a closing end, is as good
as lost. So is the end of Connect, which stores the state first and counts up
`sendSeq` last, without `c.mu` (`connection.go:252-254`): the application is assumed to
send when Connect has returned, and a Send before that, which the state would let
through in between and which would go out under the old number, is left out.

**Netconn.** A connection is the number of the Connect that made it, which stands
for the fd at either end; `open`, `unread` and `registered` say for each side what
becomes of it. `receive` and `accept` are the client's and the server's loops, one
for each Connect and each start, with the fields of the struct they have read so
far: `c.stopChan`, `s.stopChan` and `s.listener` are read again in each turn, and
without a lock. `handler` is where the goroutine of `handleConnection` is.
`abandoned` stands for a Fillp socket whose Listen has timed out: it keeps the
port (see the exceptions). Over Fillp the close of one end reaches the other by a
single FIN: `FinLost` loses it, `unheard` says of which connections, and `ReadFails` is
then not enabled for the end that is still open. What helps is to send:
bytes that nobody acknowledges are retransmitted until Fillp closes the connection
(`SendsInVain`), unless the peer's window was full, so that nothing went out. `ended`
counts the calls of OnDisconnected.

**ConfigManager.** `cm` is the struct. `file` and `tmp` are the contents of the
file and of SaveConfig's temporary file: a configuration is a number, a file
that is being written is `Torn`. `watches` are the inotify watches, which follow
the file and not its name; `loops` are the goroutines of `watchLoop`, which pick
up `cm.watcher` again in each turn. What happens under `cm.mu` is one action but
for SaveConfig, in which the process may crash.

**Router.** A node is the path of edges that leads to it. AddRoute takes one step
per node and one at the last, as it locks one node at a time and SetHandler sets the
parameter names with the handler; Match takes one step per node, then reads the handler,
counts the hit and
stores in the cache in three steps: look at the counter, evict from the snapshot
it took, insert. `bound` lists the registrations in the order they took effect,
`asOf` how many there were when a Match began: they tell what the right answer
was, independently of the trie. `MaxParams` is the room for parameters in an answer,
32 in the code and one in the run.

The components of `LibraryProofs` share nothing; that it extends them all is why the
definitions of all but the router carry a prefix (`TimerInit`, `MachinesNext`).

**StateMachines.** `machine`, `rules`, `queue` and `workers` are the fields and
the goroutines of `processEvents`. `entered` is what the callbacks were told: the
chain of states entered and not left. `Ancestors` is the loop of `getAncestors`, one
parent in each turn; the hierarchy has no cycle, in which it would go on for ever and
which AddState does not refuse. ExitPath and EnterPath are computed as
`hsm.go` does, from the two ancestor lists; `CallbacksFollow` compares the
outcome with the nesting itself.

**Congestion.** One action each for a packet sent, acknowledged, acknowledged
again and lost; what a controller makes of it is an operator named for it
(`RenoAck`, `CubicLost`, ...). Sizes are in small units. CUBIC's function of the
time is a clock that does not go back; BBR's timers expire whenever they like.

**Binpack.** `validateStructType`, `CompileCodec`, `EncodeSize`, `encodeToBuffer`
and `Decode` are operators over layouts, values and bytes; the loops over the fields
are recursive functions. A byte is the set of its bits that are 1 (`BitsPerByte`,
eight in the code, two in the run), and a number is taken apart into its bits and put
together from them (`Ones`, `Number`). A hex digit is a byte that shows half of
another and has its own upper half full. A string may be shorter or longer than a
field of fixed size: it is copied as far as both reach (`Copied`), and decoded with the
size of the field. A slice of structs (`Structs`) has elements of a struct of
`Elements`, each with a codec of its own: `EncodeStructs` steps by what was written for an
element, `DecodeStructs` by what would be counted for it (`ElementSize`), and panics
when the next one would begin behind the data, which is the result `crashed` and not
`rejected`. Elements hold no slices of structs themselves, and their hex strings have a
size that is even; that is the part of `PackingAssumption` about `Elements`. A behaviour
takes a layout and a value,
encodes it into a fresh, pooled, short or long buffer, cuts the bytes off somewhere,
and decodes the rest.

## Runs

All with `tlc -workers 2 -config X.cfg M`. The last two show each a statement of
the documentation that the code does not keep; they are the findings in PROJECT.json.

| Run | Asks | Result |
|---|---|---|
| `ring_queue` | the ring and its signals, the refinement of the FIFO, liveness | holds, 70 thousand states |
| `pool_safety` | no task lost, run twice or misreported, with Resize and either shutdown | holds, 600 thousand states |
| `pool_live` | tasks run, SubmitAndWait and shutdown return, with the scaling loop | holds, 136 thousand states |
| `priority` | the counter, the buckets, who may leave, starvation | holds, 370 thousand states |
| `lifecycle` | registries, hooks, and that a shutdown needs no timeout | holds, 152 thousand states |
| `fillp` | the stream, the acknowledgements, what is kept until then, and that nothing is forgotten in the send buffer | holds, 580 thousand states |
| `router_packing` | answers of the router fit the request, are the right ones, and the cache keeps to its size; the round trip of 59 struct layouts | holds, 470 thousand states |
| `config` | the file, the callbacks, and that a change that was seen is loaded | holds, 293 thousand states |
| `netconn` | connections, handlers and registries end together, ends are noticed unless the FIN is lost | holds, 197 thousand states |
| `libraries` | callbacks and events of the state machines, the windows of the four controllers; a listed timer is served, a removed one ends | holds, 88 thousand states |
| `fillp_two_senders` | is Fillp a reliable transport, safe for many goroutines (`fillp/README.md:7`, `:514`)? | no: the send worker and the ACK handler send under one number (`connection.go:723`) |
| `priority_stranded` | does Shutdown close when all tasks are done (`taskpool/README.md:228`)? | no: one Push has returned; a worker takes the task of another Push that is stored and not yet counted, so that `totalSize` is 0 and the last worker leaves the first task behind (`priority_queue.go:72`) |

Further configurations are kept for a reader who wants the counterexample. Each ends
with a violation; they are not among the runs. Seven refute what the documentation, a
comment or a test says, and are bugs or disagreements like the two above:

| Configuration (of module) | Statement | Counterexample |
|---|---|---|
| `TimerExecuted.cfg` (`Timer`) | "a one-shot timer can be reset, whether it has been executed or not" (`timer/README.md:95`) | its goroutine removes it after the callback, ResetTimer answers "not found" (`timer.go:103`, `:167`). The tests expect the removal (`timer_test.go:428`), so code and README disagree |
| `TimerNewer.cfg` (`Timer`) | a one-shot is removed after its execution (`timer.go:103`) | it was removed during its callback and the id used again: the newer timer is removed |
| `TimerTwoLoops.cfg` (`Timer`) | ResetTimer stops the old goroutine (`timer.go:172`) | one that is in its callback adopts the new ticker and channel (`timer.go:182`) |
| `NetconnLostFin.cfg` (`MCNetconn`) | the server is told of a client that disconnects (`netconn/README.md:243`) | the only FIN is lost (`fillp/connection.go:427`) |
| `NetconnUnhandled.cfg` (`MCNetconn`) | a client that could connect gets a handler (`netconn/README.md:241`) | a Fillp socket whose Listen gave up answers it (`server.go:122`) |
| `PackingCut.cfg` (`MCPacking`) | data that are too short give an error (`array_test.go:247`, `binpack/README.md:617`) | they end before a slice of structs: Unmarshal panics (`reflect_codec.go:347`) |
| `PackingStrides.cfg` (`MCPacking`) | the size of each element is worked out, variable fields in it included (`binpack/README.md:355`) | an element whose variable field is absent: EncodeTo writes less than Encode counts, and the next one is read from the wrong place (`reflect_codec.go:239-250`, `:351`) |

Two show what one might expect, though nothing in the repository says so:

| Configuration (of module) | Expects | Counterexample |
|---|---|---|
| `PriorityQueueLost.cfg` (`MCPriorityQueue`) | workers do not sleep over counted tasks | Push signals between a worker's look at `totalSize` and its Wait (`priority_queue.go:63`) |
| `LifecycleStartup.cfg` (`MCLifecycle`) | every running worker is reachable by name, also one added during startup | AddWorker and startWorkers both start it (`manager.go:62`) |

### Bounds

* Ring: two slots make head and tail wrap in every direction; two producers and
  two consumers fill each wait list twice over. Longer rings, more callers and
  longer lists are covered by the proofs.
* Priority queue: two buckets (the lowest and the last, which takes every
  priority above it) with one slot each, so that a bucket is full while others
  are not; every second Pop is sent to the lowest bucket. `priority_stranded` has
  two tasks and no BatchPush.
* Pool: two workers in `pool_safety`, of which Resize removes and adds one; three
  with `MaxWorkers` 2 in `pool_live`, so that a removed worker is still running
  when its replacement starts; a queue of one, so that Push waits; `b` has a
  Timeout, `a` has none. A worker that has ended stands for the next one as well.
* Lifecycle: two names and two goroutines in any order of adding, ending and
  adding again; `y` heeds its StopFunc only, as a blocking server does.
* Timer: two timers under two ids and three goroutines: an id is used again
  while the first timer's goroutine still runs, and a timer is reset until the
  goroutines are used up. The three refutations need one id and one to three
  goroutines.
* Fillp: the server sends two bytes in packets of one, to a client with room for
  one, so that a packet meets a full buffer; two packets may be under way, so
  that they overtake each other and a repeated one meets its original;
  `MaxRetransmissions` 1 reaches the close that ends retrying; two duplicate ACKs
  instead of three; `Window` 3 is above the first congestion window of two
  packets, so that it opens, closes and is cut. The sequence numbers start
  at 1 instead of the code's 1000 and 2000. They do not wrap, as they do after
  four gigabytes; the code compares them without regard to that.
  The constraint `OneHandshake` stops at a mishap, of which the properties say
  nothing, and at a SYN sent again, which is how a mishap comes about. In
  `fillp_two_senders` the client sends three bytes, enough for the send worker
  and an ACK to send at once.
* Router: patterns with a parameter under two names, a static route that overtakes
  it, a wildcard below a parameter, a registration that replaces another, and a
  bad one; a cache of one entry, so that every second request evicts. The
  constraint `TwoAtATime` keeps at most two goroutines inside a call, two of them
  inside Match only when the routes are complete, and leaves out some orders of
  registration that differ in routes which do not meet.
* Configuration: one edit, one crash, two watchers (the second one made by
  EnableWatch after the first was closed, or by a crash and a new start) and one
  caller beside the two watch loops. A caller and a loop are enough for two
  reloads at a time.
* Netconn: either two Connects and one start, or one Connect, two starts and one
  call of SendBytes, CloseConn or CloseAll; over TCP and Fillp. Each FIN of Fillp
  may be lost. The two refutations have one Connect, one start and no call, over
  Fillp.
* State machines: five states three levels deep, two events, a rule that inner
  states inherit, one that leads into an ancestor and one to itself; the flat
  machine with queue and snapshots, or both machines and the group. A queue of
  one, so that TriggerAsync is refused; two starts.
* Congestion: packets of 3, a window from 6 to 10 and a threshold of 8, so that
  every phase is reached within a few packets; one loss, four duplicate ACKs (fast
  retransmission comes at the third).
* Binary packing: three fields each, so that a field depends on one and stands
  beside another, strings in fields of one and of three, slices of structs; bytes of
  two bits, so that an integer has several; slices and strings up to two, shorter
  and longer than their fields. The structs in slices have a number and a variable
  field: one that is always there, one that may be absent, and one that begins
  behind the end of the rest.

`MaxGoroutines`, `MaxTimers`, `MaxPackets`, `MaxEdits`, `MaxWatchers`, `MaxCrashes`,
`MaxCount`, `MaxConnects`, `MaxStarts` and `Budgets`, `MaxEvents`, `MaxLosses`,
`MaxDuplicates` and the finite sets of tasks are the bounds in guards.
Every run that stops checking deadlock does so because its callers may stop
calling: the system is quiet then, not stuck.

### Fairness

Weak fairness for each goroutine that can take its next step: the Go scheduler
is preemptive, and a goroutine that can run does. Strong fairness only where
something comes and goes: a `select` with several channels ready chooses at
random, so a channel that is ready again and again is chosen (`ScaleLoopEnds`,
`Stops` of the timer); a WaitGroup releases its waiters when its counter reaches
zero, even if it is raised again afterwards (`WaitReturns`); and who waits for
`cm.mu` gets it, as `sync.RWMutex` promises (`LoopEnters`, `LoopReloads`). Nobody
is obliged to submit, resize, add, connect or shut down; users' functions are
assumed to return in the liveness runs only where a comment says so. No timeout
is obliged to expire (that is the point of `ShutdownNeedsNoTimeout`) except those
of dialling and of Fillp's Listen, without which Connect does not return. For the
congestion controllers the fairness is that of their environment: there is always
something to send, ACKs come time and again and CUBIC's clock goes on; what is
lost is bounded.

### Exceptions inside the properties

A property that holds with an exception names it; each exception is behaviour of
the code worth knowing.

* `NoLostWakeup` excepts a BatchPush that is suspended: its list is announced
  once, at the end. With a list longer than the ring and workers asleep nobody
  moves (`queue.go:102-117`), which is why the liveness run keeps lists within
  the ring. `ClosedDrains` excepts a BatchPush that outlives the last worker.
* `WorkersBounded` is about one caller that resizes at a time. Resize and
  checkAndScale go by a number of workers read at the start, so two of them
  together overshoot (`taskpool.go:152`).
* `ShutdownDrains` is about the Shutdown that closed the pool. A second one
  returns nil at once (`taskpool.go:168`).
* `QuitLeaves` allows what `priority_stranded` shows, and says how far it goes: a
  worker that leaves misses no more counted tasks than there are producers whose own
  task was taken between their two steps (`Outrun`). Which tasks these are it does
  not say; they need not be those of the producers. A third
  outcome of the two reads of `totalSize` (`priority_queue.go:72` and `:77`) is a
  worker that waits after Close's broadcast, so that Shutdown waits for it.
* `RunEnds` and `ShutdownNeedsNoTimeout` except workers that AddWorker accepts
  during a shutdown: they are waited for and never told (`manager.go:62`).
  `WorkerReachable` is checked without the additions during startup.
* The OnShutdown hooks run again for every Shutdown and when Run ends
  (`manager.go:201`): `HooksAfterWorkers` holds of each time. After a worker's
  error Run returns without telling the other workers (`manager.go:184`), so
  `RunEnds` says that Run returns, not that they have.
* A Shutdown that comes before Run has stored `m.cancel` cancels nothing
  (`manager.go:198`); `RunEnds` starts from a cancelled context.
* `RegisteredIsServed` counts the goroutine that is about to remove a one-shot
  timer: it removes by id, so a timer that was given the id again, or was reset
  meanwhile, goes with it (`timer.go:103`, as in `TimerNewer.cfg` and
  `TimerExecuted.cfg`).
* Debounce's `timer.Stop` does not stop a callback that has begun, and
  ExponentialBackoff doubles its delay without limit (`timer.go`); neither is in
  the model.
* The properties of Fillp except connections with a mishap. "two senders": an ACK
  made the handler send while the send worker was between reading `sendSeq` and
  advancing it (`connection.go:723`, `:896`); `Reliable` allows only the other
  one and fails. "sequence reset": a repeated SYN that arrives before Listen has
  returned (`:931`), or a second SYN-ACK before Connect has (`:918`), sets the
  sequence numbers again although data has been exchanged.
* A call of Connect whose context is cancelled while its ACK is there may return
  success for a closed connection (`connection.go:245`). A Listen that times out
  leaves the end listening with its workers (`:312`), as Close does nothing to an
  end that listens (`:419`). These are in the model and no property of `fillp`
  excludes them.
* `NothingStalls` says that buffered bytes have somebody who will send them; it
  does not say that they arrive. A SYN-ACK that is lost is not sent again once
  Listen has returned, and a FIN is sent once.
* `EndsAreNoticed` excepts a connection whose FIN was lost (`unheard`), until
  retransmissions in vain have ended the other side; `NetconnLostFin.cfg` shows that
  nothing else ends it.
* `NothingOutlivesHandler` excepts the Fillp socket of a Listen that timed out
  (`connection.go:312`): Close does nothing to an end that listens, so the port
  stays bound, `acceptUDPLoop` fails from then on (`server.go:122-130`), and a
  client that connects meets nobody. `ClientTellsOnce` and `EndsAreNoticed` except
  a Connect that came while an old receiveLoop was still there: its deferred
  `running = false` ends the new connection (`client.go:131-140`). A second start
  while the old accept loop has not looked at its stop channel hands that loop
  the new channel and listener (`server.go:137`), so `StopEndsAccepting` is about
  a stop that is not followed by a start. StopBaseListener itself leaves the ends
  open until their handlers see it, and a handler that registers after it is never
  told (`server.go:172`), although `netconn/README.md:165` has it close every
  connection. A receive error does not unregister the connection at the client.
* `ListenerIsCurrent` excepts reloads that overtake each other: the callbacks come
  after `cm.mu` is given back (`config/manager.go:198-211`), so the older
  configuration may be told last. `SeenIsServed` is about a watch that is there:
  SaveConfig's rename, or an editor that replaces the file, loses it for good
  (`manager.go:156`), a failed startWatch is never tried again (`watchOnce`), a
  SaveConfig between the two halves of LoadConfig writes the defaults, and an empty
  or torn YAML file is a valid configuration without its parts. A second Close
  panics on a closed channel, which the model leaves out by allowing one.
* `MatchIsRight` is about a Match, and an entry of the cache, that began after the
  last registration: AddRoute leaves what the cache has (`router.go:174`). A route
  may be hidden by a more specific one that leads astray, since Match does not go
  back; a wildcard keeps the parameter names of its first registration
  (`router.go:265`); parameters beyond the 32nd are dropped without a word, so that a
  route with that many may keep the names of another (`router.go:226`); a second
  registration takes over the middleware of the first
  if it brings none (`node.go:104`). `CacheBounded` excepts two evictions at a
  time, which subtract twice, and one that brings back what Clear removed
  (`cache.go:116-183`). A read of a Go map during a write stops the process
  (`router.go:78`, `:218`); the model lets such a read go on.
* `CallbacksFollow` leaves out machines in which a callback has failed, or that were
  reset or restored, as neither calls callbacks. `AcceptedIsHandled` ends with
  Stop, which leaves behind what is queued (`async.go:38`); a Start after it may
  handle it. The history of PersistentFSM is never written
  (`persistence.go:24-66`, against `statemachine/README.md:182`), a second Stop
  panics, and AddState with a cycle makes Trigger loop for ever.
* `WindowHolds` counts lost packets in `inFlight`, from which nobody takes them
  (`reno.go:63`). `WindowRecovers` is about Reno and CUBIC: Vegas compares bytes per
  second with bytes and BBR goes by its estimate, so nothing like it holds of
  them. BBR overwrites the window of PROBE_RTT in the same call.
* `RoundTrip` excepts overlaps of conditional, variable, repeated and bit fields, which
  the check of the tags does not look for (`validate.go:61`): that of a repeated field
  with a size goes by the size, which the elements need not keep to, so that they may
  overwrite the field behind them; hex strings of variable
  size, which are given half their room and may panic (`codec.go:251`, listed in
  `binpack/README.md:92`); repeated fields with a fixed size, whose length is that
  of the first field (`reflect_codec.go:91-98`, `:318`); values whose length
  field does not say their length; and slices with a struct of which more bytes are
  counted than written (`StridesAgree`, `PackingStrides.cfg`) or whose own tags,
  which nobody checks, would be refused. A string of fixed size comes back with the
  size of its field, cut off or followed by what the buffer held: zeros, or in a buffer
  of the pool what was left there (`Returned`; `binpack_test.go:564` reads only the
  part that was put in). A panic of Unmarshal is allowed in one case, that of
  `PackingCut.cfg`.

## Proofs

`RingQueueProofs` proves, for every capacity, every finite set of producers and
consumers, every set of tasks and every list length:

* `RingQueueConsistent`: `Spec => []RingInvariant`, by way of `Spec => []IInv`;
* `RingQueueSafe`: `Spec => []NoLostSignal`;
* `RingQueueRefinesFifo`: `Spec => Fifo!Spec`, the ring queue implements the
  bounded FIFO buffer, under the mapping of the ring's contents from `head`.

The assumptions are those of the module: a positive capacity, positive list
lengths, finite disjoint sets of callers, and `Nil` not a task. The argument is
an inductive invariant. None of its parts is inductive alone: `NoLostWakeup`
counts awake consumers, so it needs that a caller is in at most one wait list,
once, and not awake at the same time (`WaitersDistinct`), and that a suspended
call still has something to store (`SuspendedOwes`), without which a resumed
Push would take the head of an empty list. `IInv` is their conjunction. Each
action is one lemma, under it one step per conjunct the action disturbs; the
facts about sequences as ring segments (what `Put` and a Pop do to the contents)
and about counting (`Signal` moves one waiter to `awake`) are lemmas of their own
and are used again in the refinement.

`NetconnProofs` proves `NetconnHandled`, `Spec => []NothingOutlivesHandler`, for
every number of connections and starts and whichever of TCP and Fillp are used:
what is open, registered or in `connHandlers` at the server has a handler at work,
and OnDisconnected tells of it once. It assumes of the constants what `Netconn`
does: `MaxConnects` and `MaxStarts` are natural numbers, the budgets keep within
them, the protocols are TCP and Fillp. The property is not inductive:
`HandlerLeaves` closes only what is registered, so it has to be known that a
connection with a handler past its accept is open only while registered, and not
registered again after the handler has left. `Served` says so for each place a
handler can be at, `Known` that a connection exists from the Connect that makes it
and that the one a Connect is dialling has no handler yet; `Shape` is what the
fields hold. Again each action is one lemma. `NetconnTellsOnce`,
`Spec => []ClientTellsOnce`, adds what holds at the client: a connection gets its
receiveLoop from the Connect that makes it (`Dialled`), and while no Connect comes
before the last loop has gone the loop at work is that of `c.fd` (`Alone`). The
property itself says nothing from such a Connect on, `overlapped` in the model: two
loops then work on one `c.fd`.

`ConfigManagerProofs` proves `ConfigFileIntact`, `Spec => []FileIntact`, and
`ConfigListeners`, `Spec => []ListenerIsCurrent`, for every number of callers,
edits, watchers and crashes; the run has one caller. It assumes what
`ConfigAssumption` says of the constants: the bounds are natural numbers, and
`Torn`, `Partial` and `NoFile` are three names that are no numbers. That the file
is whole needs `Saving`: one SaveConfig is at work at a time, since it holds
`cm.mu`, and what it renames is a whole configuration. That the callbacks are
current needs `Telling`: unless reloads have overtaken each other at most one
goroutine is at its callbacks, and with the configuration in use. A new watcher
must not be given a loop that is at its callbacks already, so `Numbered` says that
a loop begins with its watcher. `startWatch` and `stopWatch`, which three actions
share, have a lemma each.

`LifecycleProofs` proves the three safety invariants of `Lifecycle` for every set
of names and callers and every number of goroutines: `LifecycleRegistry`,
`Spec => []RegistryConsistent`; `LifecycleReachable`, `WorkerReachable` unless
AddWorker is called while Run starts up, the exception that `LifecycleStartup.cfg`
shows to be needed; and `LifecycleHooks`, `Spec => []HooksAfterWorkers`. The
assumptions are the module's, of the sets of names, callers and phases. A worker
that returns is taken out of `workers`, `workerOrder` and `workerContexts` by name,
so `RegistryConsistent` needs that `workerOrder` has each name once (`Registry`),
and `WorkerReachable` that the cleanup of an earlier goroutine is over before its
name is used again: `Reached` says that every goroutine whose cleanup is not over
is the one its name stands for, and that there is none before `startWorkers`.
`AppendNew` and `RemoveFirstRemoves` are the facts about sequences behind it.

`TaskPoolProofs` proves the four safety invariants of the pool for every finite set
of workers, every set of tasks and callers, every queue size and every pair of limits
with `MinWorkers <= MaxWorkers`, with and without the scaling loop:

* `TaskPoolPlaces`, `Spec => []TaskInOnePlace`. `Placed` is the heart of it, and needs
  `Submitted`: a task that is being pushed belongs to one call and is not accepted yet.
* `TaskPoolFutures`, `Spec => []FutureHonest`. A Future is completed by nobody but the
  worker that holds the task (`Completed`), with an outcome that the task's function
  has had, unless the task was given up (`Executed`).
* `TaskPoolServes`: a worker of the slice is there once, not told to stop, and has
  its goroutine while the pool is open or tasks are left (`Serving`), however many
  goroutines call Resize. It is the part of the next one that needs no condition.
* `TaskPoolBounded`, `Spec => [](OneResizer => WorkersBounded)`. The limits hold if
  one goroutine at a time, a caller of Resize or the scaling loop, changes the number
  of workers. Two that overlap each apply what they worked out from one read of
  `currentWorkers`; that hazard is listed.
* `TaskPoolDrains`, `Spec => [](OneResizer /\ MinWorkers > 0 => ShutdownDrains)`. What
  Shutdown waits for is the workers, so that there is nothing left (`Drained`) follows
  from there being one, which has to come from the bound just named (`Sized`). With
  no worker `wg.Wait` returns at once and tasks stay queued.

`Closing` says that one call shuts the pool down. Both runs of the pool satisfy both
conditions: one has a caller of Resize, the other the scaling loop.

`PriorityQueueProofs` proves `PriorityQueueConsistent`, `Spec => []BucketsConsistent`,
and the action property `PriorityQueueQuits`, `Spec => QuitLeaves`, for
every number and size of buckets, every priority range and every finite set of
producers and consumers. A call's two updates, of a bucket and of `totalSize`, are
two steps, so the counting is of three finite sets: the stored tasks, as places in
buckets (`Places`), the producers that have stored and not counted, the consumers
that have taken and not counted; a step that moves a task changes each by one
element. `Handed` says that no two places in the producers' lists hold one task, and
that what is still to be stored is nowhere else. When a worker is told to leave,
`totalSize` is 0: no more tasks are stored than there are producers that have not
counted theirs. Those whose task is still stored account for one each, and what remains
is `Left` on the one side and `Outrun` on the other (`QuitStep`). That a task goes to a
bucket at all
rests on `BucketOf`, a fact about division.

`FillpProofs` proves `FillpStream`, `Spec => []StreamIntact`, and `FillpAcked`,
`Spec => []AckedIsReceived`, for every number of bytes to send, every packet size,
window, buffer and first sequence number that keep the numbers below `SeqSpace`. The
network loses and reorders as it likes. `Aligned` says that a byte is where its
sequence number says, in every place it passes through: the send buffer and the
send worker's hands (`Sender`), the retransmission queue and what the retransmission
worker holds of it (`Kept`), the packets (`Carried`), the receive buffer
(`Receiver`). `Honest` keeps acknowledgements, in packets and in the fields they
are waiting in, at or below what was received; `Handshake` says that until the
client is connected only SYNs and ACKs go to the server, and that every ACK to the
client carries the server's first number, from which it may count. All of it holds
only while `mishaps` is empty, as the two properties themselves say:
`fillp_two_senders` shows what happens otherwise. `Shape` holds always; its part
`Bounded` says that sequence numbers never count more than was accepted, which is
why they stay below `SeqSpace` and the arithmetic of the code does not wrap.

`FillpKeeps` proves `Spec => []NoByteLost`. `Holds` is the second layer over `IInv`:
the entries of the retransmission queue, with those the retransmission worker has
collected, overlap nowhere (`Apart`) and end by `sendSeq` (`Below`), and of a
connected end every number from the last acknowledgement to `sendSeq` is in one of
them (`Covers`). Trimming, which takes entries in ascending order, cuts the first
that is half acknowledged and has the worker's pointers follow it, is where this
could fail; the multiples of the packet size at which `sendPendingData` cuts the
buffer are where `Covers` is extended.

`FillpFlows` proves `Spec => []NothingStalls`. Two more layers are needed. `Limits`:
nothing arrived or is under way beyond the number up to which its sender has written,
so that an acknowledgement is never ahead of `sendSeq` and the difference is the bytes
in flight. `Awake`: an end with bytes to send, no signal and an idle worker has
numbers that are not acknowledged, which by `Covers` are in the queue. The worker goes
idle, and an ACK leaves something behind, only when the window is full of such bytes
(`InFlight`). The theorem has a hypothesis, `LowStart`: the server's first number is
below two segments. The code's 2000 (`connection.go:936`) is below 2 * 1400, and it is
needed: until the first acknowledgement `sendAck` is 0, so the code counts the first
number itself as bytes in flight. The comment at `connection.go:935` has that number
random one day; the server could then find its window full with nothing in flight.

`LibraryProofs` proves `TimerServes`, `TimerSpec => []RegisteredIsServed`, for every number
of timers, goroutines and callers: however ResetTimer's replacement of the ticker and
the stop channel falls between the two reads of `runTimer`, a listed timer has a
goroutine that waits for the current pair, will read it next, or is about to remove
the timer. `Alive` says that a listed timer's stop channel is open, `ResetsCounted`
that there are as many goroutines as the fields have ever had channels.

It proves the three invariants of the router, for every set of routes, requests,
goroutines and every limit of the cache, however AddRoute, Match, eviction and Clear
interleave:

* `RouterFits`, `Spec => []AnswerFits`. The trie is closed under beginnings and finite
  (`Tree`), AddRoute stands at a node of it, and the handler of a node is the last
  registration of its path, with the names of that route (`HandlerOK`). A search has
  taken one parameter at each place of its node that holds one, and these are the
  values the request has there (`Took`), as long as there was room; when it takes over
  the names of the handler's route there are as many as it has taken.
* `RouterRight`, `Spec => []MatchIsRight`. While no AddRoute is under way and none has
  been since the search began, nothing in the trie that the request fits comes before
  the way it has taken or before the kind of edge it will look for next (`Greedy`). At
  the end no registered route overtakes the one at the node, and the last
  registration of that one is the handler (`BestOf`).
* `RouterBounded`, `Spec => []CacheBounded`. The shard and the goroutines about to insert
  are counted together, and the shard is no larger than `count`, until an eviction has
  been overtaken (`CacheInv`). What they add to the limit is one per goroutine but one.

`CongestionHolds`, `CongestionSpec => []WindowHolds`, is for every packet size, window,
threshold, set of measured times and number of samples, with any of the four
controllers. The assumption is that the greatest window and the first threshold are not
below two packets, as with the sizes that Fillp gives (`congestion_adapter.go:23-25`):
the code raises a window to two packets before it cuts it to the greatest (`WindowInv`).
That the smoothed RTT never
falls below the least one needs that the division of the average rounds down from
something not below it (`RttInv`); `FlightInv` counts what is lost for good.

`MachinesFollow`, `MachinesSpec => []CallbacksFollow`, and `MachinesInOrder`,
`MachinesSpec => []EventsInOrder`, are for every hierarchy without a cycle, every set of
rules, queue, and number of events and workers. The first rests on `ToldFollows`: who was
told of a chain of states and then follows the exits and entries that `ExitPath` and
`EnterPath` cut from the two ancestor lists has the chain of the new state, since both
keep what the chains have in common and nothing is left but the innermost state. The
numbers in the queue are the last ones accepted (`QueueInv`); what a single worker has
handled, has in hand and finds in the queue are the numbers up to `accepted` (`OrderInv`).

`PackingRoundTrip`, `PackingSpec /\ Flat(layout) => []RoundTrip`, is for every struct whose
tags fit the types of their fields (`PackingAssumption`) and that holds no slice of
structs (`Flat`), every number of bits in a byte, every value and every content of the
buffer. Without slices of structs `RoundTrip` allows no panic of Unmarshal; with them it
is model-checked only, for the structs of the run. The invariant, `Packed`, says that
the bytes marshalled are those of the value (`Encodes`). It takes four things:

* a field alone: the bits of a number make that number, so a decoder reads back what the
  encoder of its field wrote (`UintOfPutUint`, `BitsOfEncoded`, `ReadBack`);
* fields side by side: what a decoder reads depends on the bits of its own field only
  (`FieldBits`, `SameReading`), and no two fields have a bit in common (`FaithfulApart`):
  where both are plain because the tags were checked (`PlainApart`), elsewhere because
  overlaps are excepted;
* the loops: after `i` fields the buffer holds the bits of these (`WrittenSoFar`), and
  the struct decoded has the first `i` contents of the one encoded (`DecodedSoFar`), so
  that the length and the condition of the next field are already right; of data that
  was cut off, a field is read whole or not at all. The loops are unfolded by
  `LoopRuns` and `LoopStays`;
* the room: what `EncodeSize` counts covers every field (`SizeCounts`), which is
  `MarshalFits`.

That repeated fields with a size had to join the exceptions came out of this proof: two
fields of which one is repeated were not apart, and TLC then found the value that is
not read back.

Model-checked only: every liveness property (fairness and ENABLED are outside
the prover's reach), and `RoundTrip` for slices of structs.

## Not modelled

The logger wraps zap and writes files; byte conversion is unsafe casts without
state; the binpack generator and its command line tool turn text into text;
examples, benchmarks and scripts are not part of the system.

Within the modelled components: metrics other than their place in
the order of an execution, names, logging, panics as a separate outcome from an
error where nothing depends on it, the durations of timeouts and intervals (a
timer may run out at any moment), and hooks registered while Run is under way.
Within Fillp: flow control set by hand and WindowUpdate packets, errors of the
socket, external congestion controllers (`sendPendingData` goes by
`congestionWnd`, which they do not set), RTT estimation and statistics, the
wait of `waitForSendWindow` that no ACK ends, and a second call of Connect or
Listen on one connection, which returns with `c.mu` locked (`connection.go:197`).
Within the timer package: Debounce, Throttle and the retry helpers. Within
netconn: the bytes, and so a receive buffer that stays full because the callback
takes nothing from it (a busy loop with TCP, a panic with UDP). Within the
configuration manager: serializers, defaults and environment variables, which make
one configuration of a file and are pure. Within the router: metrics, object pools,
and the bytes of a segment. Within the state machines: a hierarchy that changes
after the first event, ClearHistory and the names of a group. Within congestion
control: statistics and the exact cubic function. Within binary packing: the text
of tags, offset -1 and checksums, which the documentation has and the code has not,
and generated codecs.

## Plan

1. Done: every package with state of its own.
2. Done: every invariant and every action property that holds in a run is a theorem,
   `RoundTrip` for structs without slices of structs. Left: the round trip of those, under
   `StridesAgree`.
3. Fillp: an abstract channel that it implements as long as there is no mishap,
   and liveness with a network that loses finitely often; netconn over that
   channel.
