-------------------------------- MODULE Timer --------------------------------
(***************************************************************************)
(* The timer manager of pkg/timer: a map from ids to timers, and for each  *)
(* CreateTimer, CreateOnceTimer and ResetTimer a goroutine that waits for  *)
(* the timer's ticks, or for its delay, and calls the callback.            *)
(*                                                                         *)
(* The calls of the manager hold m.mu and are atomic.  The goroutines read *)
(* timer.ticker and timer.stopChan without it, each time they reach their  *)
(* select: ResetTimer may have replaced both, or come between the reads.   *)
(* ResetTimer gives the timer a new ticker and a new stopChan together, so *)
(* both are known by the number of the reset.  A stopped ticker delivers   *)
(* no tick (the channels of Go 1.23); a delay cannot be stopped.           *)
(***************************************************************************)
EXTENDS Integers, Sequences, FiniteSets

CONSTANTS
    Ids,
    MaxTimers,      \* a bound on the timers ever created
    MaxGoroutines   \* a bound on the goroutines ever started

ASSUME BoundAssumption == MaxTimers \in Nat /\ MaxGoroutines \in Nat

VARIABLES
    timers,    \* id -> timer registered under it, 0 if there is none
    obj,       \* the timers created so far
    gs,        \* the goroutines started so far
    ctxDone    \* m.ctx is done

timerVars == <<timers, obj, gs, ctxDone>>

Timers == DOMAIN obj
Goroutines == DOMAIN gs
Registered(t) == timers[obj[t].id] = t
NewTimer(id, once) == [id |-> id, once |-> once, chan |-> 0, open |-> {0}, stopped |-> FALSE]
Goroutine(t, once) ==
    [timer |-> t, at |-> IF once THEN "chan" ELSE "ticker", ticker |-> 0, chan |-> 0]
TimerOf(g) == obj[gs[g].timer]

Resets == 0..MaxGoroutines

TimerTypeOK ==
    /\ timers \in [Ids -> {0} \cup Timers]
    /\ obj \in Seq([id : Ids, once : BOOLEAN, chan : Resets, open : SUBSET Resets,
                    stopped : BOOLEAN])
    /\ gs \in Seq([timer : Timers, at : {"ticker", "chan", "select", "callback", "remove", "gone"},
                   ticker : Resets, chan : Resets])
    /\ Len(obj) <= MaxTimers /\ Len(gs) <= MaxGoroutines
    /\ ctxDone \in BOOLEAN
    /\ \A t \in Timers : obj[t].open \subseteq {obj[t].chan}

TimerInit ==
    /\ timers = [id \in Ids |-> 0]
    /\ obj = <<>>
    /\ gs = <<>>
    /\ ctxDone = FALSE

------------------------------------------------------------------------------
(* timer.once.Do: the ticker is stopped and stopChan is closed, once.      *)
Stopped(o) ==
    IF o.stopped THEN o ELSE [o EXCEPT !.open = @ \ {o.chan}, !.stopped = TRUE]

(* Mutant: timer.once is not renewed.                                      *)
RestartedKeepingOnce(o) ==
    LET n == o.chan + 1
    IN  [Stopped(o) EXCEPT !.chan = n, !.open = @ \cup {n}]

(* Mutant: the channel is closed after it was replaced.                    *)
RestartedThenStopped(o) ==
    LET n == o.chan + 1
    IN  [o EXCEPT !.chan = n, !.open = {}, !.stopped = TRUE]

(* ResetTimer: the old channel is closed, a new one is made and once with  *)
(* it.                                                                     *)
Restarted(o) ==
    LET n == o.chan + 1
    IN  [Stopped(o) EXCEPT !.chan = n, !.open = @ \cup {n}, !.stopped = FALSE]

Create(id, once) ==
    /\ timers[id] = 0
    /\ Len(obj) < MaxTimers /\ Len(gs) < MaxGoroutines
    /\ obj' = Append(obj, NewTimer(id, once))
    /\ timers' = [timers EXCEPT ![id] = Len(obj) + 1]
    /\ gs' = Append(gs, Goroutine(Len(obj) + 1, once))
    /\ UNCHANGED ctxDone

RemoveById(id) ==
    /\ timers' = [timers EXCEPT ![id] = 0]
    /\ obj' = [t \in Timers |-> IF t = timers[id] THEN Stopped(obj[t]) ELSE obj[t]]

RemoveTimer(id) ==
    /\ timers[id] # 0
    /\ RemoveById(id)
    /\ UNCHANGED <<gs, ctxDone>>

(* Timers can be created afterwards, and end with their first select.      *)
StopAll ==
    /\ timers' = [id \in Ids |-> 0]
    /\ obj' = [t \in Timers |-> IF Registered(t) THEN Stopped(obj[t]) ELSE obj[t]]
    /\ ctxDone' = TRUE
    /\ UNCHANGED gs

ResetTimer(id) ==
    LET t == timers[id]
    IN  /\ t # 0
        /\ Len(gs) < MaxGoroutines
        /\ obj' = [obj EXCEPT ![t] = Restarted(@)]
        /\ gs' = Append(gs, Goroutine(t, obj[t].once))
        /\ UNCHANGED <<timers, ctxDone>>

------------------------------------------------------------------------------
(* runTimer, and the functions that CreateOnceTimer and ResetTimer start   *)
(* for a delay: these wait once, and remove the timer after the callback.  *)

At(g, where) == gs' = [gs EXCEPT ![g].at = where]
Ends(g) == gs' = [gs EXCEPT ![g] = [Goroutine(@.timer, TRUE) EXCEPT !.at = "gone"]]

ReadsTicker(g) ==
    /\ gs[g].at = "ticker"
    /\ gs' = [gs EXCEPT ![g].at = "chan", ![g].ticker = TimerOf(g).chan]
    /\ UNCHANGED <<timers, obj, ctxDone>>

ReadsStopChan(g) ==
    /\ gs[g].at = "chan"
    /\ gs' = [gs EXCEPT ![g].at = "select", ![g].chan = TimerOf(g).chan]
    /\ UNCHANGED <<timers, obj, ctxDone>>

Fires(g) ==
    /\ gs[g].at = "select"
    /\ TimerOf(g).once \/ gs[g].ticker \in TimerOf(g).open
    /\ At(g, "callback")
    /\ UNCHANGED <<timers, obj, ctxDone>>

Stops(g) ==
    /\ gs[g].at = "select"
    /\ ctxDone \/ gs[g].chan \notin TimerOf(g).open
    /\ Ends(g)
    /\ UNCHANGED <<timers, obj, ctxDone>>

(* The callback returns or panics; safeCallback makes no difference.       *)
CallbackEnds(g) ==
    /\ gs[g].at = "callback"
    /\ gs' = [gs EXCEPT ![g] = [Goroutine(@.timer, FALSE) EXCEPT
                                  !.at = IF TimerOf(g).once THEN "remove" ELSE "ticker"]]
    /\ UNCHANGED <<timers, obj, ctxDone>>

(* RemoveTimer(id) after the callback, whatever the id stands for by now;  *)
(* it fails if nothing is registered any more.                             *)
AutoRemoves(g) ==
    /\ gs[g].at = "remove"
    /\ RemoveById(TimerOf(g).id)
    /\ Ends(g)
    /\ UNCHANGED ctxDone

TimerStep(g) ==
    ReadsTicker(g) \/ ReadsStopChan(g) \/ Stops(g) \/ CallbackEnds(g) \/ AutoRemoves(g)

TimerNext ==
    \/ \E id \in Ids :
          \/ \E once \in BOOLEAN : Create(id, once)
          \/ RemoveTimer(id)
          \/ ResetTimer(id)
    \/ StopAll
    \/ \E g \in Goroutines : TimerStep(g) \/ Fires(g)

TimerSpec == TimerInit /\ [][TimerNext]_timerVars

(* Goroutines that can go on do, callbacks return and clocks tick; select  *)
(* chooses at random, so that a stop which stays ready is chosen in time.  *)
TimerFairness ==
    \A g \in 1..MaxGoroutines :
        /\ WF_timerVars(g \in Goroutines /\ (TimerStep(g) \/ Fires(g)))
        /\ SF_timerVars(g \in Goroutines /\ Stops(g))

TimerFairSpec == TimerSpec /\ TimerFairness

------------------------------------------------------------------------------
Waits(g, t) ==
    /\ gs[g].timer = t
    /\ \/ gs[g].at \in {"ticker", "callback"}
       \/ gs[g].at = "chan" /\ (obj[t].once \/ gs[g].ticker = obj[t].chan)
       \/ gs[g].at = "select" /\ gs[g].chan = obj[t].chan
             /\ (obj[t].once \/ gs[g].ticker = obj[t].chan)
       \/ gs[g].at = "remove"

(* A registered timer is alive: it has not been stopped, and some goroutine *)
(* waits for its current ticker and stopChan, will read them next, or is   *)
(* about to remove the timer.  ResetTimer never leaves a timer behind that *)
(* is listed and does nothing.  StopAll ends everything.                   *)
RegisteredIsServed ==
    /\ TimerTypeOK
    /\ \A t \in Timers : Registered(t) =>
          /\ ~obj[t].stopped /\ obj[t].chan \in obj[t].open
          /\ ~ctxDone => \E g \in Goroutines : Waits(g, t)

(* No goroutine outlives its timer: once the timer is removed, or all are  *)
(* stopped, each of its goroutines ends, also one that ResetTimer left     *)
(* with an old stopChan or overtook in a callback.                         *)
StoppedEnds ==
    \A g \in 1..MaxGoroutines :
        g \in Goroutines /\ (~Registered(gs[g].timer) \/ ctxDone)
            ~> g \in Goroutines /\ gs[g].at = "gone"

(* Who takes t out of the map: a goroutine, after its callback.  The calls *)
(* of the application leave the goroutines as they are.                    *)
RemovedBy(g, t) == Registered(t) /\ ~Registered(t)' /\ gs'[g] # gs[g]

(* "A one-shot timer: set its delay anew, whether it has been executed or  *)
(* not" (timer/README.md:95): ResetTimer finds it until the application    *)
(* removes it or stops all.                                                *)
ExecutedCanBeReset ==
    [][\A t \in Timers, g \in Goroutines : obj[t].once => ~RemovedBy(g, t)]_timerVars

(* "Removed automatically after it was executed" (timer.go:103): what a    *)
(* goroutine removes is the timer whose callback it has called, and not a  *)
(* newer one that has its id.                                              *)
RemovesItsOwn ==
    [][\A t \in Timers, g \in Goroutines : RemovedBy(g, t) => gs[g].timer = t]_timerVars

(* "Stop the timer's old goroutine" (timer.go:172): after ResetTimer a     *)
(* timer has one loop.                                                     *)
OneLoop ==
    \A t \in Timers :
        Cardinality({g \in Goroutines :
            /\ gs[g].timer = t /\ gs[g].at = "select"
            /\ {gs[g].ticker, gs[g].chan} \subseteq obj[t].open}) <= 1
==============================================================================
