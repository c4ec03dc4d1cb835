------------------------------ MODULE Lifecycle ------------------------------
(***************************************************************************)
(* The lifecycle manager of pkg/lifecycle: Run starts the registered       *)
(* workers and waits for a signal, a worker's error or Shutdown; workers   *)
(* are added and stopped by other goroutines meanwhile.                    *)
(*                                                                         *)
(* Stretches under m.mu are atomic.  The context made for a goroutine is   *)
(* identified with the goroutine; a run function ends by itself, with or   *)
(* without an error, and must end when its context is done or, if it is a  *)
(* blocking service, when its StopFunc has been called.                    *)
(***************************************************************************)
EXTENDS Integers, Sequences, FiniteSets, SequencesExt

CONSTANTS
    Names,          \* names of workers
    Blocking,       \* those whose run function heeds its StopFunc only
    Runner,         \* the goroutine that calls Run
    Closers,        \* goroutines that call Shutdown
    AddPhases,      \* when AddWorker is called
    ClosePhases,    \* when Shutdown is called
    MaxGoroutines   \* a bound on the goroutines ever started for workers

Phases == {"before", "startup", "running", "closing"}

ASSUME NamesAssumption == Blocking \subseteq Names
ASSUME CallersAssumption == Runner \notin Closers
ASSUME BoundAssumption ==
    /\ AddPhases \cup ClosePhases \subseteq Phases
    /\ MaxGoroutines \in Nat

VARIABLES
    registered,  \* names in m.workers
    order,       \* m.workerOrder
    ctxOf,       \* m.workerContexts: name -> goroutine, 0 if it has none
    gs,          \* the goroutines started so far, and where each one is
    running,     \* m.running
    cancelSet,   \* m.cancel has been assigned
    ctxDone,     \* the context of Run is done
    errChan,     \* the errors in m.errChan, which has room for one
    pc,          \* caller -> where its Run or Shutdown is
    mark         \* caller -> goroutines there were when it cancelled them

registry == <<registered, order, ctxOf>>
vars == <<registry, gs, running, cancelSet, ctxDone, errChan, pc, mark>>

Callers == {Runner} \cup Closers
Ends == {"nil", "ErrShutdownTimeout", "err"}
Goroutines == DOMAIN gs
Active == {g \in Goroutines : gs[g].at \in {"run", "exited"}}    \* counted by m.wg
Spawn(n, fromRoot) == [name |-> n, root |-> fromRoot, at |-> "run", told |-> {}]
CtxDone(g) == "ctx" \in gs[g].told \/ (ctxDone /\ ~gs[g].root)
MustEnd(g) == IF gs[g].name \in Blocking THEN "stop" \in gs[g].told ELSE CtxDone(g)
Tell(G, what) ==
    gs' = [g \in Goroutines |-> IF g \in G THEN [gs[g] EXCEPT !.told = @ \cup {what}] ELSE gs[g]]

Phase ==
    IF ~running THEN "before"
    ELSE IF pc[Runner] \in {"startup", "hooks", "start"} THEN "startup"
    ELSE IF pc[Runner] = "select" /\ (\A k \in Closers : pc[k] = "idle") THEN "running"
    ELSE "closing"

TypeOK ==
    /\ registered \subseteq Names
    /\ order \in Seq(Names)
    /\ ctxOf \in [Names -> 0..MaxGoroutines]
    /\ gs \in Seq([name : Names, root : BOOLEAN, at : {"run", "exited", "cleanup", "gone"},
                   told : SUBSET {"ctx", "stop"}])
    /\ Len(gs) <= MaxGoroutines
    /\ {running, cancelSet, ctxDone} \subseteq BOOLEAN
    /\ errChan \in 0..1
    /\ pc \in [Callers -> {"idle", "startup", "hooks", "start", "select",
                           "cancel", "stop", "wait", "waited"} \cup Ends]
    /\ mark \in [Callers -> 0..MaxGoroutines]

Init ==
    /\ registered = {}
    /\ order = <<>>
    /\ ctxOf = [n \in Names |-> 0]
    /\ gs = <<>>
    /\ running = FALSE
    /\ cancelSet = FALSE
    /\ ctxDone = FALSE
    /\ errChan = 0
    /\ pc = [k \in Callers |-> "idle"]
    /\ mark = [k \in Callers |-> 0]

At(k, where) == pc' = [pc EXCEPT ![k] = where]

------------------------------------------------------------------------------
(* Mutant: the context of a worker added at run time is not remembered.    *)
AddWorkerUntracked(n) ==
    /\ Phase \in AddPhases
    /\ n \notin registered
    /\ registered' = registered \cup {n}
    /\ order' = Append(order, n)
    /\ IF running
       THEN /\ Len(gs) < MaxGoroutines
            /\ gs' = Append(gs, Spawn(n, TRUE))
       ELSE UNCHANGED gs
    /\ UNCHANGED <<ctxOf, running, cancelSet, ctxDone, errChan, pc, mark>>

(* AddWorker registers the worker, and starts it when the manager runs,    *)
(* under the root context.                                                 *)
AddWorker(n) ==
    /\ Phase \in AddPhases
    /\ n \notin registered
    /\ registered' = registered \cup {n}
    /\ order' = Append(order, n)
    /\ IF running
       THEN /\ Len(gs) < MaxGoroutines
            /\ gs' = Append(gs, Spawn(n, TRUE))
            /\ ctxOf' = [ctxOf EXCEPT ![n] = Len(gs) + 1]
       ELSE UNCHANGED <<gs, ctxOf>>
    /\ UNCHANGED <<running, cancelSet, ctxDone, errChan, pc, mark>>

(* StopWorker cancels the context it finds, and calls the StopFunc.        *)
StopWorker(n) ==
    /\ n \in registered
    /\ gs' = [g \in Goroutines |->
                IF gs[g].name = n /\ gs[g].at = "run"
                THEN [gs[g] EXCEPT !.told = @ \cup (IF g = ctxOf[n] THEN {"ctx"} ELSE {})
                                              \cup (IF n \in Blocking THEN {"stop"} ELSE {})]
                ELSE gs[g]]
    /\ UNCHANGED <<registry, running, cancelSet, ctxDone, errChan, pc, mark>>

(* The goroutine of a worker: its run function returns, an error goes into *)
(* errChan if there is room.                                               *)
WorkerReturns(g, err) ==
    /\ gs[g].at = "run"
    /\ gs' = [gs EXCEPT ![g].at = "exited"]
    /\ errChan' = IF err THEN 1 ELSE errChan
    /\ UNCHANGED <<registry, running, cancelSet, ctxDone, pc, mark>>

WorkerDone(g) ==
    /\ gs[g].at = "exited"
    /\ gs' = [gs EXCEPT ![g].at = "cleanup"]
    /\ UNCHANGED <<registry, running, cancelSet, ctxDone, errChan, pc, mark>>

(* Mutant: the name stays in workerOrder.                                  *)
CleanupMapsOnly(g) ==
    /\ gs[g].at = "cleanup"
    /\ gs' = [gs EXCEPT ![g].at = "gone", ![g].told = {}]
    /\ registered' = registered \ {gs[g].name}
    /\ ctxOf' = [ctxOf EXCEPT ![gs[g].name] = 0]
    /\ UNCHANGED <<order, running, cancelSet, ctxDone, errChan, pc, mark>>

(* The deferred cleanup: what is registered under the name goes.           *)
Cleanup(g) ==
    /\ gs[g].at = "cleanup"
    /\ gs' = [gs EXCEPT ![g].at = "gone", ![g].told = {}]
    /\ registered' = registered \ {gs[g].name}
    /\ ctxOf' = [ctxOf EXCEPT ![gs[g].name] = 0]
    /\ order' = RemoveFirst(order, gs[g].name)
    /\ UNCHANGED <<running, cancelSet, ctxDone, errChan, pc, mark>>

------------------------------------------------------------------------------
(* Run.  A second call finds m.running set and changes nothing; m.running  *)
(* is never reset.                                                         *)
RunBegins ==
    /\ pc[Runner] = "idle"
    /\ running' = TRUE
    /\ At(Runner, "startup")
    /\ UNCHANGED <<registry, gs, cancelSet, ctxDone, errChan, mark>>

RunMakesContext ==
    /\ pc[Runner] = "startup"
    /\ cancelSet' = TRUE
    /\ At(Runner, "hooks")
    /\ UNCHANGED <<registry, gs, running, ctxDone, errChan, mark>>

StartupHooks ==
    /\ pc[Runner] = "hooks"
    /\ At(Runner, "start") \/ At(Runner, "err")
    /\ UNCHANGED <<registry, gs, running, cancelSet, ctxDone, errChan, mark>>

(* Every registered worker gets a goroutine, whether it has one or not.    *)
startWorkers ==
    /\ pc[Runner] = "start"
    /\ Len(gs) + Len(order) <= MaxGoroutines
    /\ gs' = gs \o [i \in DOMAIN order |-> Spawn(order[i], FALSE)]
    /\ ctxOf' = [n \in Names |-> IF n \in registered
                                 THEN Len(gs) + CHOOSE i \in DOMAIN order : order[i] = n
                                 ELSE ctxOf[n]]
    /\ At(Runner, "select")
    /\ UNCHANGED <<registered, order, running, cancelSet, ctxDone, errChan, mark>>

SignalArrives ==
    /\ pc[Runner] = "select"
    /\ At(Runner, "cancel")
    /\ UNCHANGED <<registry, gs, running, cancelSet, ctxDone, errChan, mark>>

(* Mutant: the context of Run is not among the channels of the select.     *)
RunIgnoresContext ==
    /\ pc[Runner] = "select"
    /\ errChan = 1
    /\ errChan' = 0
    /\ ctxDone' = TRUE
    /\ At(Runner, "err")
    /\ UNCHANGED <<registry, gs, running, cancelSet, mark>>

(* The other channels of the select: after an error Run cancels its        *)
(* context and returns.                                                    *)
RunSelects ==
    /\ pc[Runner] = "select"
    /\ \/ /\ ctxDone
          /\ At(Runner, "cancel")
          /\ UNCHANGED <<ctxDone, errChan>>
       \/ /\ errChan = 1
          /\ errChan' = 0
          /\ ctxDone' = TRUE
          /\ At(Runner, "err")
    /\ UNCHANGED <<registry, gs, running, cancelSet, mark>>

------------------------------------------------------------------------------
(* Shutdown, and shutdown, which Run calls as well.  Shutdown cancels the  *)
(* context of Run if it is there already.                                  *)

Shutdown(k) ==
    /\ Phase \in ClosePhases
    /\ pc[k] = "idle"
    /\ ctxDone' = (ctxDone \/ cancelSet)
    /\ At(k, "cancel")
    /\ UNCHANGED <<registry, gs, running, cancelSet, errChan, mark>>

CancelWorkers(k) ==
    /\ pc[k] = "cancel"
    /\ Tell({ctxOf[n] : n \in {m \in Names : ctxOf[m] # 0}}, "ctx")
    /\ mark' = [mark EXCEPT ![k] = Len(gs)]
    /\ At(k, "stop")
    /\ UNCHANGED <<registry, running, cancelSet, ctxDone, errChan>>

(* The StopFuncs, last worker first, under the read lock.                  *)
CallStopFuncs(k) ==
    /\ pc[k] = "stop"
    /\ Tell({g \in Goroutines : gs[g].at = "run" /\ gs[g].name \in registered \cap Blocking},
            "stop")
    /\ At(k, "wait")
    /\ UNCHANGED <<registry, running, cancelSet, ctxDone, errChan, mark>>

(* Mutant: the hooks do not wait for the workers.                          *)
WaitForNobody(k) ==
    /\ pc[k] = "wait"
    /\ At(k, "waited")
    /\ UNCHANGED <<registry, gs, running, cancelSet, ctxDone, errChan, mark>>

WaitForWorkers(k) ==
    /\ pc[k] = "wait"
    /\ Active = {}
    /\ At(k, "waited")
    /\ UNCHANGED <<registry, gs, running, cancelSet, ctxDone, errChan, mark>>

ShutdownHooks(k) ==
    /\ pc[k] = "waited"
    /\ At(k, "nil")
    /\ UNCHANGED <<registry, gs, running, cancelSet, ctxDone, errChan, mark>>

ShutdownTimesOut(k) ==
    /\ pc[k] \in {"wait", "waited"}
    /\ At(k, "ErrShutdownTimeout")
    /\ UNCHANGED <<registry, gs, running, cancelSet, ctxDone, errChan, mark>>

ShutdownStep(k) ==
    CancelWorkers(k) \/ CallStopFuncs(k) \/ WaitForWorkers(k) \/ ShutdownHooks(k)

RunStep == RunMakesContext \/ StartupHooks \/ startWorkers \/ RunSelects

------------------------------------------------------------------------------
Next ==
    \/ \E n \in Names : AddWorker(n) \/ StopWorker(n)
    \/ \E g \in Goroutines :
          \/ \E err \in BOOLEAN : WorkerReturns(g, err)
          \/ WorkerDone(g) \/ Cleanup(g)
    \/ RunBegins \/ SignalArrives \/ RunStep
    \/ \E k \in Closers : Shutdown(k)
    \/ \E k \in Callers : ShutdownStep(k) \/ ShutdownTimesOut(k)

Spec == Init /\ [][Next]_vars

(* Run functions end when they must, and every goroutine that can go on    *)
(* does.  Nobody has to add or stop workers, to call Run or Shutdown or to *)
(* send a signal, and no shutdown has to run out of time.                  *)
Fairness ==
    /\ \A g \in 1..MaxGoroutines :
          WF_vars(g \in Goroutines /\ (\/ MustEnd(g) /\ WorkerReturns(g, FALSE)
                                       \/ WorkerDone(g) \/ Cleanup(g)))
    /\ WF_vars(RunStep)
    /\ \A k \in Callers : WF_vars(ShutdownStep(k))

FairSpec == Spec /\ Fairness

------------------------------------------------------------------------------
(* workers, workerOrder and workerContexts are about the same workers, so  *)
(* that the LIFO loop of shutdown meets each worker once and finds it in   *)
(* the map, and a context belongs to the worker it is filed under.         *)
RegistryConsistent ==
    /\ TypeOK
    /\ IsInjective(order)
    /\ registered = {order[i] : i \in DOMAIN order}
    /\ \A n \in Names : ctxOf[n] # 0 => n \in registered /\ gs[ctxOf[n]].name = n

(* Each worker that runs can be stopped by its name: StopWorker finds it   *)
(* registered, and the context it cancels is the one it runs under.        *)
WorkerReachable ==
    \A g \in Active : gs[g].name \in registered /\ ctxOf[gs[g].name] = g

(* The OnShutdown hooks run after the workers: when they are called every  *)
(* goroutine that shutdown has cancelled has returned from its function.   *)
HooksAfterWorkers ==
    \A k \in Callers : pc[k] \in {"waited", "nil"} =>
        \A g \in 1..mark[k] : gs[g].at \in {"cleanup", "gone"}

(* A worker that was added after k cancelled the others runs on, untold.   *)
AddedTooLate(k) ==
    \E g \in Goroutines : g > mark[k] /\ gs[g].at = "run" /\ ~MustEnd(g)

(* Run returns once its context is cancelled or a worker has failed,       *)
(* unless it has to wait for a worker that was added too late to be told.  *)
RunEnds ==
    running /\ (ctxDone \/ errChan = 1) ~>
        pc[Runner] \in Ends \/ (pc[Runner] = "wait" /\ AddedTooLate(Runner))

(* A shutdown does not need its timeout when every run function heeds its  *)
(* context or its StopFunc: whatever it waits for it has told to end,      *)
(* except for workers that were added too late.                            *)
ShutdownNeedsNoTimeout ==
    \A k \in Callers : pc[k] = "wait" ~> pc[k] # "wait" \/ AddedTooLate(k)

(* Run ends when it is told to, and what it does then (manager.go:174-281). *)
ShutdownEnds == RunEnds /\ ShutdownNeedsNoTimeout
==============================================================================
