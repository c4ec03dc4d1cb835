----------------------------- MODULE LibraryProofs -----------------------------
(* Proofs about the components that share nothing with the others.  Of the *)
(* timer manager, a registered timer is served; of the router, an answer   *)
(* is the handler of a route the request fits, it is the right one when no *)
(* route was added meanwhile, and the shard of the cache keeps to its      *)
(* limit; of the congestion controllers, the window keeps to its bounds;   *)
(* of the state machines, the callbacks tell the state and the events are  *)
(* handled in order; of the binary packing, what is unmarshalled is what   *)
(* was marshalled.                                                         *)
EXTENDS Timer, Router, Congestion, StateMachines, Binpack, TLAPS, SequenceTheorems, FiniteSetTheorems, WellFoundedInduction

(***************************************************************************)
(* Timer                                                                   *)
(***************************************************************************)
(* What the fields hold. *)
TimerRecords == [id : Ids, once : BOOLEAN, chan : Resets, open : SUBSET Resets,
                 stopped : BOOLEAN]
LoopRecords == [timer : Nat, at : {"ticker", "chan", "select", "callback", "remove", "gone"},
                ticker : Resets, chan : Resets]
IdShape ==
    /\ timers \in [Ids -> {0} \cup Timers]
    /\ \A id \in Ids : timers[id] # 0 => obj[timers[id]].id = id
ObjShape ==
    /\ obj \in Seq(TimerRecords) /\ Len(obj) <= MaxTimers
    /\ \A t \in Timers : obj[t].open \subseteq {obj[t].chan}
    /\ ctxDone \in BOOLEAN
GsShape ==
    /\ gs \in Seq(LoopRecords) /\ Len(gs) <= MaxGoroutines
    /\ \A g \in Goroutines : gs[g].timer \in Timers

(* Every reset has started a goroutine. *)
ResetsCounted == \A t \in Timers : obj[t].chan <= Len(gs)

(* A registered timer has not been stopped, and a goroutine waits for it. *)
Alive == \A t \in Timers : Registered(t) => ~obj[t].stopped /\ obj[t].chan \in obj[t].open
Served ==
    \A t \in Timers : Registered(t) /\ ~ctxDone => \E g \in Goroutines : Waits(g, t)

IInv == IdShape /\ ObjShape /\ GsShape /\ ResetsCounted /\ Alive /\ Served

------------------------------------------------------------------------------
LEMMA Indices ==
  ASSUME ObjShape, GsShape
  PROVE  /\ Len(obj) \in Nat /\ Timers = 1..Len(obj) /\ \A t \in Timers : obj[t] \in TimerRecords
         /\ Len(gs) \in Nat /\ Goroutines = 1..Len(gs) /\ \A g \in Goroutines : gs[g] \in LoopRecords
         /\ 0 \notin Timers
  BY LenProperties, ElementOfSeq DEF ObjShape, GsShape, Timers, Goroutines

(* The timer of an id is registered, and is the only one under it. *)
LEMMA RegisteredId ==
  ASSUME IdShape, ObjShape, GsShape
  PROVE  \A id \in Ids : timers[id] # 0 =>
            timers[id] \in Timers /\ obj[timers[id]].id = id /\ Registered(timers[id])
  BY DEF IdShape, Registered

LEMMA StoppedTimer ==
  ASSUME NEW o \in TimerRecords, o.open \subseteq {o.chan}
  PROVE  /\ Stopped(o) \in TimerRecords /\ Stopped(o).open \subseteq {o.chan}
         /\ Stopped(o).id = o.id /\ Stopped(o).once = o.once /\ Stopped(o).chan = o.chan
         /\ ~o.stopped => Stopped(o).open = {}
  BY DEF Stopped, TimerRecords

LEMMA GoroutineRecord ==
  ASSUME NEW t \in Nat, NEW once \in BOOLEAN
  PROVE  /\ Goroutine(t, once) \in LoopRecords /\ Goroutine(t, once).timer = t
         /\ once => Goroutine(t, once).at = "chan"
         /\ ~once => Goroutine(t, once).at = "ticker"
  BY BoundAssumption DEF Goroutine, LoopRecords, Resets

LEMMA GoroutineAt ==
  ASSUME NEW t \in Nat, NEW once \in BOOLEAN, NEW at \in {"gone", "remove", "ticker"}
  PROVE  /\ [Goroutine(t, once) EXCEPT !.at = at] \in LoopRecords
         /\ [Goroutine(t, once) EXCEPT !.at = at].timer = t
         /\ [Goroutine(t, once) EXCEPT !.at = at].at = at
  BY BoundAssumption DEF Goroutine, LoopRecords, Resets

LEMMA InitIInv == TimerInit => IInv
  <1>. SUFFICES ASSUME TimerInit PROVE IInv
    OBVIOUS
  <1>1. Len(obj) = 0 /\ Len(gs) = 0 /\ Timers = {} /\ Goroutines = {}
    BY DEF TimerInit, Timers, Goroutines
  <1>2. obj \in Seq(TimerRecords) /\ gs \in Seq(LoopRecords)
    BY DEF TimerInit
  <1>3. IdShape
    BY DEF TimerInit, IdShape
  <1>4. ObjShape
    <2>1. ctxDone \in BOOLEAN
      BY DEF TimerInit
    <2>2. Len(obj) <= MaxTimers
      BY <1>1, BoundAssumption
    <2>. QED
      BY <1>1, <1>2, <2>1, <2>2 DEF ObjShape
  <1>5. GsShape
    BY <1>1, <1>2, BoundAssumption DEF GsShape
  <1>6. ResetsCounted /\ Alive /\ Served
    BY <1>1 DEF ResetsCounted, Alive, Served
  <1>. QED
    BY <1>3, <1>4, <1>5, <1>6 DEF IInv

(* A goroutine takes a step after which it still waits for its timer. *)
LEMMA LoopKeeps ==
  ASSUME IInv, NEW g \in Goroutines, NEW y \in LoopRecords, y.timer = gs[g].timer,
         gs' = [gs EXCEPT ![g] = y], UNCHANGED <<timers, obj, ctxDone>>,
         \A t \in Timers : Registered(t) /\ ~ctxDone /\ Waits(g, t) =>
            \/ y.at \in {"ticker", "callback", "remove"}
            \/ y.at = "chan" /\ (obj[t].once \/ y.ticker = obj[t].chan)
            \/ /\ y.at = "select" /\ y.chan = obj[t].chan
               /\ obj[t].once \/ y.ticker = obj[t].chan
  PROVE  IInv'
  <1>. USE DEF IInv
  <1>1. /\ gs' \in Seq(LoopRecords) /\ Len(gs') = Len(gs) /\ gs'[g] = y
        /\ \A h \in Goroutines : h # g => gs'[h] = gs[h]
    BY Indices, ExceptSeq DEF GsShape
  <1>2. Goroutines' = Goroutines /\ Timers' = Timers
    BY <1>1, Indices, LenProperties DEF Goroutines, Timers
  <1>3. IdShape' /\ ObjShape' /\ Alive'
    BY <1>2 DEF IdShape, ObjShape, Alive, Registered
  <1>4. GsShape' /\ ResetsCounted'
    BY <1>1, <1>2 DEF GsShape, ResetsCounted
  <1>5. Served'
    <2>. SUFFICES ASSUME NEW t \in Timers, Registered(t), ~ctxDone
                  PROVE  \E h \in Goroutines' : Waits(h, t)'
      BY <1>2 DEF Served, Registered
    <2>1. PICK h \in Goroutines : Waits(h, t)
      BY DEF Served
    <2>2. CASE h = g
      BY <1>1, <1>2, <2>1, <2>2 DEF Waits
    <2>3. CASE h # g
      BY <1>1, <1>2, <2>1, <2>3 DEF Waits
    <2>. QED
      BY <2>2, <2>3
  <1>. QED
    BY <1>3, <1>4, <1>5

(* Timers are removed and stopped; what stays registered is not touched, *)
(* nor is the goroutine that waits for it.                               *)
LEMMA RemoveKeeps ==
  ASSUME IInv, ctxDone' \in BOOLEAN, ctxDone => ctxDone',
         timers' \in [Ids -> {0} \cup Timers], \A id \in Ids : timers'[id] \in {0, timers[id]},
         obj' \in [Timers -> TimerRecords],
         \A t \in Timers : obj'[t] \in {obj[t], Stopped(obj[t])},
         \A t \in Timers : timers'[obj[t].id] = t => obj'[t] = obj[t],
         gs' \in Seq(LoopRecords), Len(gs') = Len(gs),
         \A g \in Goroutines : gs'[g].timer = gs[g].timer,
         \A g \in Goroutines : gs'[g] = gs[g] \/ timers'[TimerOf(g).id] # gs[g].timer
  PROVE  IInv'
  <1>. USE DEF IInv
  <1>1. /\ Timers' = Timers /\ Goroutines' = Goroutines
        /\ obj' \in Seq(TimerRecords) /\ Len(obj') = Len(obj)
    <2>1. Timers = 1..Len(obj) /\ Len(obj) \in Nat
      BY Indices
    <2>2. obj' \in Seq(TimerRecords)
      BY <2>1, SeqDef
    <2>3. DOMAIN obj' = 1..Len(obj') /\ DOMAIN obj' = 1..Len(obj) /\ Len(obj') \in Nat
      BY <2>1, <2>2, LenProperties
    <2>4. Len(obj') = Len(obj)
      BY <2>1, <2>3
    <2>. QED
      BY <2>1, <2>2, <2>3, <2>4, Indices, LenProperties DEF Timers, Goroutines
  <1>2. \A t \in Timers : /\ obj'[t].id = obj[t].id /\ obj'[t].chan = obj[t].chan
                          /\ obj'[t].open \subseteq {obj'[t].chan}
    <2>. SUFFICES ASSUME NEW t \in Timers
                  PROVE  /\ obj'[t].id = obj[t].id /\ obj'[t].chan = obj[t].chan
                         /\ obj'[t].open \subseteq {obj'[t].chan}
      OBVIOUS
    <2>1. obj[t] \in TimerRecords /\ obj[t].open \subseteq {obj[t].chan}
      BY Indices DEF ObjShape
    <2>2. /\ Stopped(obj[t]).id = obj[t].id /\ Stopped(obj[t]).chan = obj[t].chan
          /\ Stopped(obj[t]).open \subseteq {obj[t].chan}
      BY <2>1, StoppedTimer
    <2>. QED
      BY <2>1, <2>2
  <1>3. \A t \in Timers : Registered(t)' => Registered(t) /\ obj'[t] = obj[t]
    <2>1. \A t \in Timers : obj[t].id \in Ids /\ t # 0
      BY Indices DEF TimerRecords
    <2>. QED
      BY <1>2, <2>1 DEF Registered
  <1>4. IdShape'
    BY <1>1, <1>2 DEF IdShape
  <1>5. ObjShape'
    BY <1>1, <1>2 DEF ObjShape
  <1>6. GsShape' /\ ResetsCounted'
    BY <1>1, <1>2 DEF GsShape, ResetsCounted
  <1>7. Alive'
    BY <1>1, <1>3 DEF Alive
  <1>8. Served'
    <2>. SUFFICES ASSUME NEW t \in Timers, Registered(t)', ~ctxDone
                  PROVE  \E h \in Goroutines : Waits(h, t)'
      BY <1>1 DEF Served
    <2>1. PICK h \in Goroutines : Waits(h, t)
      BY <1>3 DEF Served
    <2>2. gs'[h] = gs[h]
      BY <1>2, <2>1 DEF Waits, Registered, TimerOf
    <2>. QED
      BY <1>3, <2>1, <2>2 DEF Waits
  <1>. QED
    BY <1>4, <1>5, <1>6, <1>7, <1>8

------------------------------------------------------------------------------
(* Each action keeps the invariant. *)
LEMMA CreateKeeps ==
  ASSUME IInv, NEW id \in Ids, NEW once \in BOOLEAN, Create(id, once)
  PROVE  IInv'
  <1>. USE DEF IInv
  <1>. DEFINE n == Len(obj) + 1
              m == Len(gs) + 1
              o == NewTimer(id, once)
              r == Goroutine(n, once)
  <1>1. /\ timers[id] = 0 /\ n <= MaxTimers /\ m <= MaxGoroutines
        /\ n \in Nat \ {0} /\ m \in Nat \ {0} /\ n \notin Timers
    BY Indices, BoundAssumption DEF Create
  <1>2. obj' = Append(obj, o) /\ gs' = Append(gs, r) /\ ctxDone' = ctxDone
        /\ timers' = [timers EXCEPT ![id] = n]
    BY DEF Create
  <1>3. /\ o \in TimerRecords /\ o.id = id /\ o.once = once /\ o.chan = 0 /\ o.open = {0}
        /\ ~o.stopped
    BY BoundAssumption DEF NewTimer, TimerRecords, Resets
  <1>4. /\ r \in LoopRecords /\ r.timer = n
        /\ once => r.at = "chan"
        /\ ~once => r.at = "ticker"
    <2>1. n \in Nat
      BY <1>1
    <2>. QED
      BY <2>1, GoroutineRecord, Zenon
  <1>. HIDE DEF o, r
  <1>5. /\ obj' \in Seq(TimerRecords) /\ Len(obj') = n /\ Timers' = Timers \cup {n}
        /\ obj'[n] = o /\ \A t \in Timers : obj'[t] = obj[t]
    <2>1. /\ obj' \in Seq(TimerRecords) /\ Len(obj') = n /\ obj'[n] = o
          /\ \A t \in 1..Len(obj) : obj'[t] = obj[t]
      BY <1>2, <1>3, AppendProperties DEF ObjShape
    <2>2. DOMAIN obj' = 1..n /\ DOMAIN obj = 1..Len(obj) /\ Len(obj) \in Nat
      BY <2>1, Indices, LenProperties DEF Timers
    <2>. QED
      BY <2>1, <2>2 DEF Timers
  <1>6. /\ gs' \in Seq(LoopRecords) /\ Len(gs') = m /\ Goroutines' = Goroutines \cup {m}
        /\ gs'[m] = r /\ \A g \in Goroutines : gs'[g] = gs[g]
    <2>1. /\ gs' \in Seq(LoopRecords) /\ Len(gs') = m /\ gs'[m] = r
          /\ \A g \in 1..Len(gs) : gs'[g] = gs[g]
      BY <1>2, <1>4, AppendProperties DEF GsShape
    <2>2. DOMAIN gs' = 1..m /\ DOMAIN gs = 1..Len(gs) /\ Len(gs) \in Nat
      BY <2>1, Indices, LenProperties DEF Goroutines
    <2>. QED
      BY <2>1, <2>2 DEF Goroutines
  <1>7. /\ timers'[id] = n /\ \A i \in Ids : i # id => timers'[i] = timers[i]
        /\ timers' \in [Ids -> {0} \cup Timers']
    BY <1>2, <1>5 DEF IdShape
  <1>8. IdShape'
    BY <1>1, <1>3, <1>5, <1>7 DEF IdShape
  <1>9. ObjShape'
    <2>1. \A t \in Timers' : obj'[t].open \subseteq {obj'[t].chan}
      BY <1>3, <1>5 DEF ObjShape
    <2>. QED
      BY <1>1, <1>2, <1>5, <2>1 DEF ObjShape
  <1>10. GsShape'
    BY <1>1, <1>4, <1>5, <1>6 DEF GsShape
  <1>11. ResetsCounted'
    <2>1. \A t \in Timers : obj[t].chan \in Nat
      BY Indices DEF TimerRecords, Resets
    <2>. QED
      BY <1>1, <1>3, <1>5, <1>6, <2>1, Indices DEF ResetsCounted
  <1>12. \A t \in Timers : Registered(t)' => Registered(t)
    BY <1>1, <1>5, <1>7, Indices DEF Registered, TimerRecords
  <1>13. Alive'
    BY <1>3, <1>5, <1>12 DEF Alive
  <1>14. Served'
    <2>1. \A g, u : g = m /\ u = n => Waits(g, u)'
      BY <1>3, <1>4, <1>5, <1>6 DEF Waits
    <2>2. \A t \in Timers, g \in Goroutines : Waits(g, t) => Waits(g, t)'
      BY <1>5, <1>6 DEF Waits
    <2>. QED
      BY <1>2, <1>5, <1>6, <1>12, <2>1, <2>2 DEF Served
  <1>. QED
    BY <1>8, <1>9, <1>10, <1>11, <1>13, <1>14

LEMMA ResetTimerKeeps ==
  ASSUME IInv, NEW id \in Ids, ResetTimer(id)
  PROVE  IInv'
  <1>. USE DEF IInv
  <1>. DEFINE t == timers[id]
              m == Len(gs) + 1
              o == Restarted(obj[t])
              r == Goroutine(t, obj[t].once)
  <1>1. /\ t \in Timers /\ Registered(t) /\ obj[t] \in TimerRecords /\ ~obj[t].stopped
        /\ m <= MaxGoroutines /\ m \in Nat \ {0} /\ obj[t].chan <= Len(gs) /\ t \in Nat
    BY Indices, RegisteredId, BoundAssumption DEF ResetTimer, Alive, ResetsCounted
  <1>2. obj' = [obj EXCEPT ![t] = o] /\ gs' = Append(gs, r) /\ UNCHANGED <<timers, ctxDone>>
    BY DEF ResetTimer
  <1>3. /\ o \in TimerRecords /\ o.id = obj[t].id /\ o.once = obj[t].once
        /\ o.chan = obj[t].chan + 1 /\ o.open = {o.chan} /\ ~o.stopped
    <2>1. /\ Stopped(obj[t]) \in TimerRecords /\ Stopped(obj[t]).open = {}
          /\ Stopped(obj[t]).id = obj[t].id /\ Stopped(obj[t]).once = obj[t].once
      BY <1>1, StoppedTimer DEF ObjShape
    <2>2. obj[t].chan \in Nat /\ obj[t].chan + 1 \in Resets
      BY <1>1, Indices, BoundAssumption DEF TimerRecords, Resets
    <2>. QED
      BY <2>1, <2>2 DEF Restarted, TimerRecords
  <1>4. /\ r \in LoopRecords /\ r.timer = t
        /\ obj[t].once => r.at = "chan"
        /\ ~obj[t].once => r.at = "ticker"
    <2>1. t \in Nat /\ obj[t].once \in BOOLEAN
      BY <1>1 DEF TimerRecords
    <2>. QED
      BY <2>1, GoroutineRecord, Zenon
  <1>. HIDE DEF t, o, r
  <1>5. /\ obj' \in Seq(TimerRecords) /\ Len(obj') = Len(obj) /\ Timers' = Timers
        /\ obj'[t] = o /\ \A u \in Timers : u # t => obj'[u] = obj[u]
    <2>1. /\ obj' \in Seq(TimerRecords) /\ Len(obj') = Len(obj)
          /\ obj'[t] = o /\ \A u \in Timers : u # t => obj'[u] = obj[u]
      BY <1>1, <1>2, <1>3, Indices, ExceptSeq DEF ObjShape
    <2>. QED
      BY <2>1, LenProperties DEF Timers, ObjShape
  <1>6. /\ gs' \in Seq(LoopRecords) /\ Len(gs') = m /\ Goroutines' = Goroutines \cup {m}
        /\ gs'[m] = r /\ \A g \in Goroutines : gs'[g] = gs[g]
    <2>1. /\ gs' \in Seq(LoopRecords) /\ Len(gs') = m /\ gs'[m] = r
          /\ \A g \in 1..Len(gs) : gs'[g] = gs[g]
      BY <1>2, <1>4, AppendProperties DEF GsShape
    <2>2. DOMAIN gs' = 1..m /\ DOMAIN gs = 1..Len(gs) /\ Len(gs) \in Nat
      BY <2>1, Indices, LenProperties DEF Goroutines
    <2>. QED
      BY <2>1, <2>2 DEF Goroutines
  <1>7. IdShape'
    BY <1>1, <1>2, <1>3, <1>5 DEF IdShape
  <1>8. ObjShape'
    BY <1>2, <1>3, <1>5 DEF ObjShape
  <1>9. GsShape'
    BY <1>1, <1>4, <1>5, <1>6 DEF GsShape
  <1>10. ResetsCounted'
    <2>1. \A u \in Timers : obj[u].chan \in Nat
      BY Indices DEF TimerRecords, Resets
    <2>. QED
      BY <1>1, <1>3, <1>5, <1>6, <2>1, Indices DEF ResetsCounted
  <1>11. \A u \in Timers : Registered(u)' => Registered(u)
    BY <1>2, <1>3, <1>5 DEF Registered
  <1>12. Alive'
    BY <1>3, <1>5, <1>11 DEF Alive
  <1>13. Served'
    <2>1. \A g, u : g = m /\ u = t => Waits(g, u)'
      BY <1>3, <1>4, <1>5, <1>6 DEF Waits
    <2>2. \A u \in Timers, g \in Goroutines : u # t /\ Waits(g, u) => Waits(g, u)'
      BY <1>5, <1>6 DEF Waits
    <2>. QED
      BY <1>2, <1>5, <1>6, <1>11, <2>1, <2>2 DEF Served
  <1>. QED
    BY <1>7, <1>8, <1>9, <1>10, <1>12, <1>13

(* RemoveById: one timer at most is stopped, and it is not registered any *)
(* more.                                                                  *)
Removal(id) ==
    /\ timers' \in [Ids -> {0} \cup Timers]
    /\ \A i \in Ids : timers'[i] \in {0, timers[i]}
    /\ obj' \in [Timers -> TimerRecords]
    /\ \A t \in Timers : obj'[t] \in {obj[t], Stopped(obj[t])}
    /\ \A t \in Timers : timers'[obj[t].id] = t => obj'[t] = obj[t]
    /\ timers'[id] = 0
LEMMA RemovalOf ==
  ASSUME IInv, NEW id \in Ids, timers' = [timers EXCEPT ![id] = 0],
         obj' = [t \in Timers |-> IF t = timers[id] THEN Stopped(obj[t]) ELSE obj[t]]
  PROVE  Removal(id)
  <1>. USE DEF IInv
  <1>1. /\ timers' \in [Ids -> {0} \cup Timers] /\ timers'[id] = 0
        /\ \A i \in Ids : i # id => timers'[i] = timers[i]
    BY DEF IdShape
  <1>2. \A t \in Timers : /\ obj[t] \in TimerRecords /\ Stopped(obj[t]) \in TimerRecords
                          /\ obj[t].id \in Ids /\ t # 0
    BY Indices, StoppedTimer DEF ObjShape, TimerRecords
  <1>3. obj' \in [Timers -> TimerRecords]
    BY <1>2
  <1>4. \A t \in Timers : obj'[t] \in {obj[t], Stopped(obj[t])}
    OBVIOUS
  <1>5. \A t \in Timers : timers'[obj[t].id] = t => obj'[t] = obj[t]
    <2>1. timers[id] # 0 => obj[timers[id]].id = id
      BY DEF IdShape
    <2>. QED
      BY <1>1, <1>2, <2>1
  <1>. QED
    BY <1>1, <1>3, <1>4, <1>5 DEF Removal

LEMMA RemoveTimerKeeps ==
  ASSUME IInv, NEW id \in Ids, RemoveTimer(id)
  PROVE  IInv'
  <1>. USE DEF IInv
  <1>1. /\ timers' = [timers EXCEPT ![id] = 0] /\ UNCHANGED <<gs, ctxDone>>
        /\ obj' = [t \in Timers |-> IF t = timers[id] THEN Stopped(obj[t]) ELSE obj[t]]
    BY DEF RemoveTimer, RemoveById
  <1>2. Removal(id)
    BY <1>1, RemovalOf
  <1>3. /\ gs' \in Seq(LoopRecords) /\ Len(gs') = Len(gs)
        /\ \A g \in Goroutines : gs'[g] = gs[g] /\ gs'[g].timer = gs[g].timer
    BY <1>1 DEF GsShape
  <1>4. ctxDone' \in BOOLEAN /\ (ctxDone => ctxDone')
    BY <1>1 DEF ObjShape
  <1>. QED
    BY <1>2, <1>3, <1>4, RemoveKeeps DEF Removal

(* StopAll stops what is registered, and leaves nothing registered. *)
LEMMA StopAllKeeps ==
  ASSUME IInv, StopAll
  PROVE  IInv'
  <1>. USE DEF IInv
  <1>1. /\ timers' = [id \in Ids |-> 0] /\ gs' = gs /\ ctxDone' = TRUE
        /\ obj' = [t \in Timers |-> IF Registered(t) THEN Stopped(obj[t]) ELSE obj[t]]
    BY DEF StopAll
  <1>2. /\ timers' \in [Ids -> {0} \cup Timers]
        /\ \A id \in Ids : timers'[id] \in {0, timers[id]}
    BY <1>1
  <1>3. /\ \A t \in Timers : obj'[t] \in {obj[t], Stopped(obj[t])}
        /\ obj' \in [Timers -> TimerRecords]
    <2>1. \A t \in Timers : obj[t] \in TimerRecords /\ Stopped(obj[t]) \in TimerRecords
      BY Indices, StoppedTimer DEF ObjShape
    <2>. QED
      BY <1>1, <2>1
  <1>4. \A t \in Timers : timers'[obj[t].id] # t
    BY <1>1, Indices DEF TimerRecords
  <1>5. /\ gs' \in Seq(LoopRecords) /\ Len(gs') = Len(gs)
        /\ \A g \in Goroutines : gs'[g] = gs[g] /\ gs'[g].timer = gs[g].timer
    BY <1>1 DEF GsShape
  <1>6. ctxDone' \in BOOLEAN /\ (ctxDone => ctxDone')
    BY <1>1
  <1>. QED
    BY <1>2, <1>3, <1>4, <1>5, <1>6, RemoveKeeps

(* A goroutine removes whatever its timer's id stands for, and ends. *)
LEMMA AutoRemovesKeeps ==
  ASSUME IInv, NEW g \in Goroutines, AutoRemoves(g)
  PROVE  IInv'
  <1>. USE DEF IInv
  <1>. DEFINE id == TimerOf(g).id
              y == [Goroutine(gs[g].timer, TRUE) EXCEPT !.at = "gone"]
  <1>1. gs[g].timer \in Timers /\ gs[g].timer \in Nat /\ id \in Ids
    BY Indices DEF GsShape, TimerOf, TimerRecords
  <1>2. /\ timers' = [timers EXCEPT ![id] = 0] /\ gs' = [gs EXCEPT ![g] = y] /\ ctxDone' = ctxDone
        /\ obj' = [t \in Timers |-> IF t = timers[id] THEN Stopped(obj[t]) ELSE obj[t]]
    BY DEF AutoRemoves, RemoveById, Ends
  <1>3. y \in LoopRecords /\ y.timer = gs[g].timer
    BY <1>1, GoroutineAt
  <1>. HIDE DEF y
  <1>4. /\ gs' \in Seq(LoopRecords) /\ Len(gs') = Len(gs) /\ gs'[g] = y
        /\ \A h \in Goroutines : h # g => gs'[h] = gs[h]
    BY <1>2, <1>3, Indices, ExceptSeq DEF GsShape
  <1>5. \A h \in Goroutines : gs'[h].timer = gs[h].timer
    BY <1>3, <1>4
  <1>6. timers'[TimerOf(g).id] = 0 /\ gs[g].timer # 0
    BY <1>1, <1>2, Indices DEF IdShape
  <1>7. \A h \in Goroutines : gs'[h] = gs[h] \/ timers'[TimerOf(h).id] # gs[h].timer
    BY <1>4, <1>6
  <1>8. \E i \in Ids : Removal(i)
    BY <1>1, <1>2, RemovalOf
  <1>9. ctxDone' \in BOOLEAN /\ (ctxDone => ctxDone')
    BY <1>2 DEF ObjShape
  <1>. QED
    BY <1>4, <1>5, <1>7, <1>8, <1>9, RemoveKeeps DEF Removal

LEMMA LoopStepKeeps ==
  ASSUME IInv, NEW g \in Goroutines,
         \/ ReadsTicker(g) \/ ReadsStopChan(g) \/ Fires(g) \/ Stops(g) \/ CallbackEnds(g)
  PROVE  IInv'
  <1>. USE DEF IInv
  <1>1. /\ gs[g] \in LoopRecords /\ gs[g].timer \in Timers /\ gs[g].timer \in Nat
        /\ TimerOf(g) \in TimerRecords /\ TimerOf(g).chan \in Resets
    BY Indices DEF GsShape, TimerOf, TimerRecords
  <1>2. \A t \in Timers : Waits(g, t) => TimerOf(g) = obj[t]
    BY DEF Waits, TimerOf
  <1>3. CASE ReadsTicker(g)
    <2>. DEFINE y == [gs[g] EXCEPT !.at = "chan", !.ticker = TimerOf(g).chan]
    <2>1. /\ y \in LoopRecords /\ y.timer = gs[g].timer /\ y.at = "chan"
          /\ y.ticker = TimerOf(g).chan
      BY <1>1 DEF LoopRecords
    <2>2. gs' = [gs EXCEPT ![g] = y] /\ UNCHANGED <<timers, obj, ctxDone>>
      BY <1>3 DEF ReadsTicker
    <2>. HIDE DEF y
    <2>. QED
      BY <1>2, <2>1, <2>2, LoopKeeps
  <1>4. CASE ReadsStopChan(g)
    <2>. DEFINE y == [gs[g] EXCEPT !.at = "select", !.chan = TimerOf(g).chan]
    <2>1. /\ y \in LoopRecords /\ y.timer = gs[g].timer /\ y.at = "select"
          /\ y.chan = TimerOf(g).chan /\ y.ticker = gs[g].ticker
      BY <1>1 DEF LoopRecords
    <2>2. gs' = [gs EXCEPT ![g] = y] /\ UNCHANGED <<timers, obj, ctxDone>> /\ gs[g].at = "chan"
      BY <1>4 DEF ReadsStopChan
    <2>3. \A t \in Timers : Waits(g, t) => obj[t].once \/ gs[g].ticker = obj[t].chan
      BY <2>2 DEF Waits
    <2>. HIDE DEF y
    <2>. QED
      BY <1>2, <2>1, <2>2, <2>3, LoopKeeps
  <1>5. CASE Fires(g)
    <2>. DEFINE y == [gs[g] EXCEPT !.at = "callback"]
    <2>1. y \in LoopRecords /\ y.timer = gs[g].timer /\ y.at = "callback"
      BY <1>1 DEF LoopRecords
    <2>2. gs' = [gs EXCEPT ![g] = y] /\ UNCHANGED <<timers, obj, ctxDone>>
      BY <1>5 DEF Fires, At
    <2>. HIDE DEF y
    <2>. QED
      BY <2>1, <2>2, LoopKeeps
  <1>6. CASE Stops(g)
    <2>. DEFINE y == [Goroutine(gs[g].timer, TRUE) EXCEPT !.at = "gone"]
    <2>1. y \in LoopRecords /\ y.timer = gs[g].timer
      BY <1>1, GoroutineAt
    <2>2. gs' = [gs EXCEPT ![g] = y] /\ UNCHANGED <<timers, obj, ctxDone>>
      BY <1>6 DEF Stops, Ends
    <2>3. \A t \in Timers : ~(Registered(t) /\ ~ctxDone /\ Waits(g, t))
      BY <1>2, <1>6 DEF Stops, Waits, Alive
    <2>. HIDE DEF y
    <2>. QED
      BY <2>1, <2>2, <2>3, LoopKeeps
  <1>7. CASE CallbackEnds(g)
    <2>. DEFINE at == IF TimerOf(g).once THEN "remove" ELSE "ticker"
    <2>. DEFINE y == [Goroutine(gs[g].timer, FALSE) EXCEPT !.at = at]
    <2>1. at \in {"remove", "ticker"}
      OBVIOUS
    <2>2. gs' = [gs EXCEPT ![g] = y] /\ UNCHANGED <<timers, obj, ctxDone>>
      BY <1>7 DEF CallbackEnds
    <2>. HIDE DEF at
    <2>3. FALSE \in BOOLEAN /\ at \in {"gone", "remove", "ticker"}
      BY <2>1
    <2>4. \A t \in Nat, a \in {"gone", "remove", "ticker"} :
            /\ [Goroutine(t, FALSE) EXCEPT !.at = a] \in LoopRecords
            /\ [Goroutine(t, FALSE) EXCEPT !.at = a].timer = t
            /\ [Goroutine(t, FALSE) EXCEPT !.at = a].at = a
      BY <2>3, GoroutineAt, Zenon
    <2>5. y \in LoopRecords /\ y.timer = gs[g].timer /\ y.at = at
      BY <1>1, <2>3, <2>4, ZenonT(60)
    <2>. HIDE DEF y
    <2>. QED
      BY <2>1, <2>2, <2>5, LoopKeeps
  <1>. QED
    BY <1>3, <1>4, <1>5, <1>6, <1>7

LEMMA NextKeeps ==
  ASSUME IInv, TimerNext
  PROVE  IInv'
  <1>1. ASSUME NEW id \in Ids, NEW once \in BOOLEAN, Create(id, once)
        PROVE  IInv'
    BY <1>1, CreateKeeps
  <1>2. ASSUME NEW id \in Ids, RemoveTimer(id) \/ ResetTimer(id)
        PROVE  IInv'
    BY <1>2, RemoveTimerKeeps, ResetTimerKeeps
  <1>3. ASSUME NEW g \in Goroutines, TimerStep(g) \/ Fires(g)
        PROVE  IInv'
    BY <1>3, LoopStepKeeps, AutoRemovesKeeps DEF TimerStep
  <1>. QED
    BY <1>1, <1>2, <1>3, StopAllKeeps DEF TimerNext

LEMMA StutterKeeps ==
  ASSUME IInv, UNCHANGED timerVars
  PROVE  IInv'
  BY DEF timerVars, IInv, IdShape, ObjShape, GsShape, ResetsCounted, Alive, Served, Waits,
     Registered, Timers, Goroutines

(* IInv holds in every state the manager reaches. *)
LEMMA Invariance == TimerSpec => []IInv
  <1>1. TimerInit => IInv
    BY InitIInv
  <1>2. IInv /\ [TimerNext]_timerVars => IInv'
    BY NextKeeps, StutterKeeps
  <1>. QED
    BY <1>1, <1>2, PTL DEF TimerSpec

(* Whatever is created, removed and reset in whatever order, and however   *)
(* slowly the goroutines read the fields that ResetTimer replaces, a timer *)
(* that is listed has a goroutine that waits for its current ticker and    *)
(* stopChan, will read them next or is about to remove it (timer.go        *)
(* runTimer, ResetTimer).                                                  *)
THEOREM TimerServes == TimerSpec => []RegisteredIsServed
  <1>1. ASSUME IInv PROVE TimerTypeOK
    <2>. USE <1>1 DEF IInv
    <2>1. gs \in Seq([timer : Timers,
                      at : {"ticker", "chan", "select", "callback", "remove", "gone"},
                      ticker : Resets, chan : Resets])
      <3>. DEFINE S == [timer : Timers,
                        at : {"ticker", "chan", "select", "callback", "remove", "gone"},
                        ticker : Resets, chan : Resets]
      <3>1. \A g \in 1..Len(gs) : gs[g] \in S
        BY Indices DEF GsShape, LoopRecords
      <3>2. gs = [g \in 1..Len(gs) |-> gs[g]] /\ Len(gs) \in Nat
        BY LenProperties DEF GsShape
      <3>. HIDE DEF S
      <3>3. gs \in [1..Len(gs) -> S]
        BY <3>1, <3>2
      <3>4. gs \in Seq(S)
        BY <3>2, <3>3, SeqDef
      <3>. QED
        BY <3>4 DEF S
    <2>. QED
      BY <2>1 DEF IdShape, ObjShape, GsShape, TimerRecords, TimerTypeOK
  <1>2. IInv => RegisteredIsServed
    BY <1>1 DEF IInv, Alive, Served, RegisteredIsServed
  <1>. QED
    BY <1>2, Invariance, PTL

(***************************************************************************)
(* Router                                                                  *)
(***************************************************************************)

Words == STRING \cup {"", "*"}
Labels == ({"static"} \X STRING) \cup {<<"param">>, <<"wild">>}
Holding == {"param", "wild"}
Storing == {"count", "evict", "insert"}
Answering == Storing \cup {"answered"}
Walking == Kinds \cup {"handler"}

Straight(n) == \A i \in DOMAIN n : n[i] = <<"wild">> => i = Len(n)
Begins(n, e) == Len(n) <= Len(e) /\ \A i \in 1..Len(n) : n[i] = e[i]

(* The paths in a trie: with each its beginnings, "*" only at the end.     *)
Tree(N) ==
    \A n \in N : n \in Seq(Labels) /\ Straight(n) /\ \A k \in 0..Len(n) : SubSeq(n, 1, k) \in N

NameLists == {<<>>} \cup {Names[r] : r \in Routes}
NodeRecord == [name : Words, handler : Routes \cup {None}, middleware : Wrapped \cup {None},
               names : NameLists, hits : 0..Threshold]
AdderRecord == [at : {"idle", "insert"}, route : Routes \cup {None}, node : Seq(Labels)]
Keys == Words \cup UNION {ToSet(Names[r]) : r \in Routes}
Param == [key : Keys, value : Seq(STRING)]
Answer == [handler : Routes \cup {None}, wrapped : BOOLEAN, params : Seq(Param)]
Entry == [key : Requests, answer : Answer, asOf : Nat]
MatcherRecord == [at : {"idle"} \cup Walking \cup Answering, request : Requests \cup {None},
                  node : Seq(Labels), answer : Answer, asOf : Nat, snapshot : Seq(Entry)]

(* What is bound to a node is the last registration of its path.           *)
HandlerOK(n, record, b) ==
    \/ record.handler = None /\ record.names = <<>> /\ \A i \in DOMAIN b : Edges[b[i]] # n
    \/ \E i \in DOMAIN b :
          /\ record.handler = b[i] /\ record.names = Names[b[i]] /\ Edges[b[i]] = n
          /\ \A j \in DOMAIN b : Edges[b[j]] = n => j <= i

AdderOK(w, N) ==
    w.at = "insert" => w.route \in ValidRoutes /\ w.node \in N /\ Begins(w.node, Edges[w.route])

Reached(n, b, A) ==
    \/ \E i \in DOMAIN b : Begins(n, Edges[b[i]])
    \/ \E a \in Adders : A[a].at = "insert" /\ Begins(n, A[a].node)

TrieInv ==
    /\ Tree(DOMAIN nodes) /\ nodes \in [DOMAIN nodes -> NodeRecord]
    /\ adder \in [Adders -> AdderRecord] /\ \A a \in Adders : AdderOK(adder[a], DOMAIN nodes)
    /\ bound \in Seq(ValidRoutes) /\ \A i \in DOMAIN bound : Edges[bound[i]] \in DOMAIN nodes
    /\ \A n \in DOMAIN nodes : HandlerOK(n, nodes[n], bound) /\ Reached(n, bound, adder)

(* The parameters taken on the way to a node.                              *)
Took(n, segs, params) ==
    LET at == Places(n, Holding) IN
    /\ Len(params) = Capped(Cardinality(at))
    /\ \A i \in at : UpTo(at, i) <= MaxParams =>
        LET param == params[UpTo(at, i)] IN
        /\ param.value = IF n[i] = <<"wild">> THEN SubSeq(segs, i, Len(segs)) ELSE <<segs[i]>>
        /\ n[i] = <<"wild">> => param.key = "*"

OnTheWay(w, segs) ==
    /\ FitsUpTo(w.node, segs, Len(w.node)) /\ Took(w.node, segs, w.answer.params)
    /\ w.at \in Kinds => Len(w.node) < Len(segs) /\ ~IsWildcard(w.node)
    /\ w.at = "handler" =>
           Len(w.node) = Len(segs) \/ (IsWildcard(w.node) /\ Len(w.node) <= Len(segs))

Kept(request, answer) ==
    /\ AnswerFitsRoute(request, answer)
    /\ answer.handler \in Routes /\ ~IsWildcard(Edges[answer.handler])

MatcherOK(w, N, last) ==
    /\ w.asOf <= last
    /\ w.at # "idle" => w.request \in Requests
    /\ w.at \in Walking =>
           /\ w.request.method = Method /\ w.request.path # <<>> /\ w.node \in N
           /\ w.answer.handler = None /\ OnTheWay(w, Segs[w.request])
    /\ w.at = "answered" => AnswerFitsRoute(w.request, w.answer) /\ w.node \in N \cup {<<>>}
    /\ w.at \in Storing => Kept(w.request, w.answer) /\ w.node \in N \cup {<<>>}
    /\ w.at = "evict" => Len(w.snapshot) >= MaxEntries

(* A map of the cache, the shard's or one that was read.                   *)
MapOK(s, last) ==
    /\ s \in Seq(Entry)
    /\ \A i, j \in DOMAIN s : s[i].key = s[j].key => i = j
    /\ \A i \in DOMAIN s : Kept(s[i].key, s[i].answer) /\ s[i].asOf <= last

MatchInv ==
    /\ matcher \in [Matchers -> MatcherRecord]
    /\ \A m \in Matchers : /\ MatcherOK(matcher[m], DOMAIN nodes, Len(bound))
                           /\ MapOK(matcher[m].snapshot, Len(bound))
    /\ MapOK(entries, Len(bound)) /\ enabled \in BOOLEAN

Inserting(M) == {m \in Matchers : M[m].at = "insert"}
CacheInv ==
    /\ count \in -MaxCount..MaxCount /\ raced \in BOOLEAN
    /\ ~raced =>
           /\ Len(entries) + Cardinality(Inserting(matcher)) <= MaxEntries + Cardinality(Matchers) - 1
           /\ Len(entries) <= count

Inv == TrieInv /\ MatchInv /\ CacheInv

(* Nothing in the trie that the request fits comes before the way a search *)
(* has taken, or before the kind of edge it looks for next.                *)
Quiet == \A a \in Adders : adder[a].at = "idle"
Agree(c, n, j) == \A k \in 1..(j - 1) : c[k] = n[k]
FitsAt(label, seg) == label[1] = "static" => label[2] = seg
NoneBefore(c, n, segs) ==
    \A j \in DOMAIN n \cap DOMAIN c :
        Agree(c, n, j) /\ FitsAt(c[j], segs[j]) => Rank(n[j][1]) <= Rank(c[j][1])
NoneMissed(c, n, segs, kind) ==
    LET j == Len(n) + 1 IN
    j <= Len(c) /\ Agree(c, n, j) /\ FitsAt(c[j], segs[j]) => Rank(kind) <= Rank(c[j][1])
Greedy(w, N) ==
    \A c \in N :
        /\ NoneBefore(c, w.node, Segs[w.request])
        /\ w.at \in Kinds => NoneMissed(c, w.node, Segs[w.request], w.at)

BestOf(b, request) ==
    {r \in ToSet(b) :
        /\ request.method = Method /\ request.path # <<>>
        /\ Fits(r, Segs[request])
        /\ \A q \in ToSet(b) : ~Overtakes(q, r, Segs[request])}
IsRight(b, request, answer) ==
    IF BestOf(b, request) = {} THEN answer.handler = None
    ELSE \E i \in DOMAIN b :
            /\ answer.handler = b[i] /\ b[i] \in BestOf(b, request)
            /\ \A j \in DOMAIN b : b[j] \in BestOf(b, request) => j <= i

RightMap(s, b) == \A i \in DOMAIN s : s[i].asOf = Len(b) => IsRight(b, s[i].key, s[i].answer)
RightMatcher(w, N, b) ==
    /\ w.asOf = Len(b) =>
           /\ w.at \in Walking => Greedy(w, N)
           /\ w.at \in Answering => IsRight(b, w.request, w.answer)
    /\ RightMap(w.snapshot, b)
RightInv ==
    Quiet => /\ \A m \in Matchers : RightMatcher(matcher[m], DOMAIN nodes, bound)
             /\ RightMap(entries, bound)

------------------------------------------------------------------------------
(* The pieces of a route, the edges they stand for and their names.        *)
LEMMA LabelKind ==
    ASSUME NEW e \in Labels
    PROVE  /\ e[1] \in Kinds
           /\ e[1] = "static" => e = <<"static", e[2]>> /\ e[2] \in STRING
           /\ e[1] = "param" => e = <<"param">>
           /\ e[1] = "wild" <=> e = <<"wild">>
  <1>1. CASE e \in {"static"} \X STRING
    BY <1>1 DEF Kinds
  <1>2. CASE e \in {<<"param">>, <<"wild">>}
    BY <1>2 DEF Kinds
  <1> QED
    BY <1>1, <1>2 DEF Labels

LEMMA PieceEdge ==
    ASSUME NEW p \in Kinds \X STRING
    PROVE  Edge(p) \in Labels /\ Edge(p)[1] = p[1]
  <1>1. p = <<p[1], p[2]>> /\ p[1] \in Kinds /\ p[2] \in STRING
    OBVIOUS
  <1>2. CASE p[1] = "static"
    <2>1. Edge(p) = p
      BY <1>2 DEF Edge
    <2>2. p \in {"static"} \X STRING
      BY <1>1, <1>2
    <2> QED
      BY <2>1, <2>2 DEF Labels
  <1>3. CASE p[1] \in {"param", "wild"}
    <2>1. Edge(p) = <<p[1]>>
      BY <1>3 DEF Edge
    <2> QED
      BY <1>3, <2>1 DEF Labels
  <1> QED
    BY <1>1, <1>2, <1>3 DEF Kinds

LEMMA PartsType ==
    ASSUME NEW r \in Routes
    PROVE  /\ Pattern[r] \in Seq(Kinds \X STRING) /\ Parts[r] \in Seq(Kinds \X STRING)
           /\ \/ Parts[r] = Pattern[r]
              \/ /\ Len(Pattern[r]) > 0 /\ Len(Parts[r]) = Len(Pattern[r]) - 1
                 /\ Pattern[r][Len(Pattern[r])] = <<"static", "">>
                 /\ \A i \in 1..Len(Parts[r]) : Parts[r][i] = Pattern[r][i]
  <1>1. Pattern[r] \in Seq(Kinds \X STRING)
    BY RouterAssumption
  <1> DEFINE p == Pattern[r]
  <1>2. ASSUME p # <<>>
        PROVE  /\ Len(p) \in Nat /\ Len(p) > 0
               /\ SubSeq(p, 1, Len(p) - 1) \in Seq(Kinds \X STRING)
               /\ Len(SubSeq(p, 1, Len(p) - 1)) = Len(p) - 1
               /\ \A i \in 1..Len(p) - 1 : SubSeq(p, 1, Len(p) - 1)[i] = p[i]
    BY <1>1, <1>2
  <1>3. Parts[r] = IF p # <<>> /\ p[Len(p)] = <<"static", "">> THEN SubSeq(p, 1, Len(p) - 1) ELSE p
    BY DEF Parts, Last, Front
  <1> QED
    BY <1>1, <1>2, <1>3

LEMMA EdgesType ==
    ASSUME NEW r \in Routes
    PROVE  /\ Edges[r] \in Seq(Labels) /\ Len(Edges[r]) = Len(Parts[r])
           /\ \A i \in 1..Len(Edges[r]) :
                 /\ Parts[r][i] \in Kinds \X STRING
                 /\ Edges[r][i] = Edge(Parts[r][i]) /\ Edges[r][i][1] = Parts[r][i][1]
  <1>1. Parts[r] \in Seq(Kinds \X STRING)
    BY PartsType
  <1>2. Edges[r] = [i \in 1..Len(Parts[r]) |-> Edge(Parts[r][i])] /\ Len(Parts[r]) \in Nat
    BY <1>1 DEF Edges
  <1>3. \A i \in 1..Len(Parts[r]) :
           Parts[r][i] \in Kinds \X STRING
    BY <1>1
  <1>4. \A i \in 1..Len(Parts[r]) :
           Edge(Parts[r][i]) \in Labels /\ Edge(Parts[r][i])[1] = Parts[r][i][1]
    BY <1>3, PieceEdge
  <1>5. Edges[r] \in Seq(Labels) /\ Len(Edges[r]) = Len(Parts[r])
    BY <1>2, <1>4
  <1> QED
    BY <1>2, <1>3, <1>4, <1>5

LEMMA ValidStraight ==
    ASSUME NEW r \in ValidRoutes
    PROVE  r \in Routes /\ Straight(Edges[r])
  <1>1. r \in Routes /\ validateRoute(Pattern[r])
    BY DEF ValidRoutes
  <1>2. /\ Pattern[r] \in Seq(Kinds \X STRING) /\ Parts[r] \in Seq(Kinds \X STRING)
        /\ \/ Parts[r] = Pattern[r]
           \/ /\ Len(Pattern[r]) > 0 /\ Len(Parts[r]) = Len(Pattern[r]) - 1
              /\ Pattern[r][Len(Pattern[r])] = <<"static", "">>
              /\ \A i \in 1..Len(Parts[r]) : Parts[r][i] = Pattern[r][i]
    BY <1>1, PartsType
  <1>3. /\ Edges[r] \in Seq(Labels) /\ Len(Edges[r]) = Len(Parts[r])
        /\ \A i \in 1..Len(Edges[r]) : Edges[r][i][1] = Parts[r][i][1]
    BY <1>1, EdgesType
  <1>12. Pattern[r] \in Seq(Kinds \X STRING) /\ Parts[r] \in Seq(Kinds \X STRING)
    BY <1>2
  <1>4. Len(Pattern[r]) \in Nat /\ Len(Parts[r]) \in Nat /\ DOMAIN Pattern[r] = 1..Len(Pattern[r])
    BY <1>12
  <1>9. DOMAIN Edges[r] = 1..Len(Edges[r])
    BY <1>3
  <1>5. \A i \in 1..Len(Pattern[r]) : Pattern[r][i][1] = "wild" => i = Len(Pattern[r])
    BY <1>1, <1>4 DEF validateRoute
  <1>6. <<"static", "">>[1] # "wild"
    OBVIOUS
  <1>7. SUFFICES ASSUME NEW i \in 1..Len(Edges[r]), Edges[r][i] = <<"wild">>
                 PROVE  i = Len(Edges[r])
    BY <1>1, <1>9 DEF Straight
  <1>8. Parts[r][i][1] = "wild"
    BY <1>3, <1>7
  <1>10. CASE Parts[r] = Pattern[r]
    <2>1. Len(Edges[r]) = Len(Pattern[r])
      BY <1>3, <1>10
    <2> QED
      BY <1>5, <1>7, <1>8, <1>10, <2>1
  <1>11. CASE Parts[r] # Pattern[r]
    <2>1. i \in 1..Len(Pattern[r]) /\ Pattern[r][i] = Parts[r][i] /\ i # Len(Pattern[r])
      <3>1. /\ Len(Parts[r]) = Len(Pattern[r]) - 1
            /\ \A k \in 1..Len(Parts[r]) : Parts[r][k] = Pattern[r][k]
        BY <1>2, <1>11
      <3>2. i \in 1..Len(Parts[r])
        BY <1>3, <1>7
      <3> QED
        BY <1>4, <3>1, <3>2
    <2> QED
      BY <1>5, <1>8, <2>1
  <1> QED
    BY <1>10, <1>11

LEMMA PlacesIn ==
    ASSUME NEW S, NEW n \in Seq(S), NEW kinds
    PROVE  /\ Places(n, kinds) \subseteq 1..Len(n) /\ IsFiniteSet(Places(n, kinds))
           /\ Cardinality(Places(n, kinds)) \in Nat
  <1>1. DOMAIN n = 1..Len(n) /\ Len(n) \in Nat
    OBVIOUS
  <1>2. Places(n, kinds) \subseteq 1..Len(n)
    BY <1>1 DEF Places
  <1>3. IsFiniteSet(1..Len(n))
    BY <1>1, FS_Interval
  <1> QED
    BY <1>2, <1>3, FS_Subset, FS_CardinalityType

LEMMA SamePlaces ==
    ASSUME NEW r \in Routes
    PROVE  /\ Names[r] \in Seq({Names[r][k] : k \in DOMAIN Names[r]})
           /\ Len(Names[r]) = Cardinality(Places(Edges[r], {"param"}))
           /\ \A K : Places(Edges[r], K) = Places(Parts[r], K)
           /\ Names[r] = <<>> <=> Len(Names[r]) = 0
           /\ DOMAIN Names[r] = 1..Len(Names[r])
  <1>1. /\ Edges[r] \in Seq(Labels) /\ Len(Edges[r]) = Len(Parts[r]) /\ Parts[r] \in Seq(Kinds \X STRING)
        /\ \A i \in 1..Len(Edges[r]) : Edges[r][i][1] = Parts[r][i][1]
    BY EdgesType, PartsType
  <1>2. DOMAIN Edges[r] = 1..Len(Edges[r]) /\ DOMAIN Parts[r] = 1..Len(Edges[r])
    BY <1>1
  <1>3. \A K : Places(Edges[r], K) = Places(Parts[r], K)
    BY <1>1, <1>2 DEF Places
  <1> DEFINE params == Places(Parts[r], {"param"})
             name(k) == Parts[r][CHOOSE i \in params : UpTo(params, i) = k][2]
  <1>4. Cardinality(params) \in Nat
    BY <1>1, PlacesIn
  <1>5. Names[r] = [k \in 1..Cardinality(params) |-> name(k)]
    BY DEF Names
  <1> HIDE DEF params, name
  <1> QED
    BY <1>3, <1>4, <1>5 DEF params

LEMMA SameNames ==
    ASSUME NEW r \in Routes, NEW q \in Routes, Edges[r] = Edges[q]
    PROVE  Names[r] = <<>> <=> Names[q] = <<>>
  BY SamePlaces

------------------------------------------------------------------------------
(* How many places of a set come up to an index.                           *)
LEMMA CountedUpTo ==
    ASSUME NEW S, IsFiniteSet(S), NEW i
    PROVE  UpTo(S, i) \in Nat /\ IsFiniteSet({j \in S : j <= i})
  BY FS_Subset, FS_CardinalityType DEF UpTo

LEMMA UpToAll ==
    ASSUME NEW S, NEW i, \A j \in S : j <= i
    PROVE  UpTo(S, i) = Cardinality(S)
  <1>1. {j \in S : j <= i} = S
    OBVIOUS
  <1> QED
    BY <1>1 DEF UpTo

LEMMA IntervalFinite ==
    ASSUME NEW L \in Nat, NEW S \in SUBSET (1..L)
    PROVE  IsFiniteSet(S) /\ \A j \in S : j \in Int
  <1>1. IsFiniteSet(1..L)
    BY FS_Interval
  <1>2. S \subseteq 1..L
    OBVIOUS
  <1>3. IsFiniteSet(S)
    BY <1>1, <1>2, FS_Subset
  <1> QED
    BY <1>2, <1>3

LEMMA UpToStep ==
    ASSUME NEW L \in Nat, NEW S \in SUBSET (1..L), NEW i \in S
    PROVE  UpTo(S, i) = UpTo(S, i - 1) + 1
  <1>1. i \in Nat /\ i - 1 \in Int /\ \A j \in S : j \in Int
    OBVIOUS
  <1>2. IsFiniteSet(S)
    BY IntervalFinite
  <1> DEFINE T == {j \in S : j <= i - 1}
  <1>3. {j \in S : j <= i} = T \cup {i} /\ i \notin T
    <2>1. \A j \in S : j <= i <=> j <= i - 1 \/ j = i
      BY <1>1
    <2>2. ~(i <= i - 1)
      BY <1>1
    <2>3. {j \in S : j <= i} = {j \in S : j <= i - 1} \cup {i}
      BY <2>1
    <2> QED
      BY <2>2, <2>3
  <1>4. IsFiniteSet(T)
    BY <1>2, FS_Subset
  <1>5. Cardinality(T \cup {i}) = Cardinality(T) + 1
    BY <1>3, <1>4, FS_AddElement
  <1> QED
    BY <1>3, <1>5 DEF UpTo

LEMMA UpToGrows ==
    ASSUME NEW L \in Nat, NEW S \in SUBSET (1..L), NEW i \in Int, NEW k \in Int, i <= k
    PROVE  /\ UpTo(S, i) \in Nat /\ UpTo(S, k) \in Nat /\ UpTo(S, i) <= UpTo(S, k)
           /\ UpTo(S, i) <= Cardinality(S) /\ Cardinality(S) \in Nat
  <1>1. \A j \in S : j \in Int
    OBVIOUS
  <1>2. IsFiniteSet(S)
    BY IntervalFinite
  <1>3. {j \in S : j <= i} \subseteq {j \in S : j <= k} /\ {j \in S : j <= i} \subseteq S
    <2>1. \A j \in S : j <= i => j <= k
      BY <1>1
    <2> QED
      BY <2>1
  <1>4. IsFiniteSet({j \in S : j <= k})
    BY <1>2, FS_Subset
  <1>5. /\ Cardinality({j \in S : j <= i}) <= Cardinality({j \in S : j <= k})
        /\ Cardinality({j \in S : j <= i}) <= Cardinality(S)
    BY <1>2, <1>3, <1>4, FS_Subset
  <1> QED
    BY <1>2, <1>5, CountedUpTo, FS_CardinalityType DEF UpTo

(* The places in order: no two have the same number.                       *)
LEMMA UpToOrders ==
    ASSUME NEW L \in Nat, NEW S \in SUBSET (1..L), NEW i \in S, NEW k \in S
    PROVE  /\ UpTo(S, i) \in 1..Cardinality(S)
           /\ i < k => UpTo(S, i) < UpTo(S, k)
           /\ UpTo(S, i) = UpTo(S, k) => i = k
  <1>1. i \in Int /\ k \in Int /\ i - 1 \in Int /\ k - 1 \in Int
    OBVIOUS
  <1>2. ASSUME NEW a \in S, NEW b \in S, a < b
        PROVE  UpTo(S, a) < UpTo(S, b)
    <2>1. a \in Int /\ b - 1 \in Int /\ a <= b - 1
      BY <1>2
    <2>2. UpTo(S, a) <= UpTo(S, b - 1) /\ UpTo(S, a) \in Nat /\ UpTo(S, b - 1) \in Nat
      BY <2>1, UpToGrows
    <2> QED
      BY <2>2, UpToStep
  <1>3. UpTo(S, i) = UpTo(S, i - 1) + 1 /\ UpTo(S, i - 1) \in Nat
    <2>1. UpTo(S, i) = UpTo(S, i - 1) + 1
      BY UpToStep
    <2>2. UpTo(S, i - 1) \in Nat
      <3>1. i - 1 <= i
        BY <1>1
      <3> QED
        BY <1>1, <3>1, UpToGrows
    <2> QED
      BY <2>1, <2>2
  <1>4. UpTo(S, i) <= Cardinality(S) /\ Cardinality(S) \in Nat /\ UpTo(S, i) \in Nat /\ UpTo(S, k) \in Nat
    BY <1>1, UpToGrows
  <1>5. UpTo(S, i) \in 1..Cardinality(S)
    BY <1>3, <1>4
  <1>6. UpTo(S, i) = UpTo(S, k) => i = k
    BY <1>1, <1>2, <1>4
  <1> QED
    BY <1>2, <1>5, <1>6

------------------------------------------------------------------------------
(* A path and the path to a child.                                         *)
LEMMA AppendType ==
    ASSUME NEW S, NEW n \in Seq(S), NEW e \in S
    PROVE  /\ Append(n, e) \in Seq(S) /\ Len(Append(n, e)) = Len(n) + 1
           /\ DOMAIN n = 1..Len(n) /\ Len(n) \in Nat
           /\ \A i \in 1..Len(n) : Append(n, e)[i] = n[i]
           /\ Append(n, e)[Len(n) + 1] = e
           /\ Last(Append(n, e)) = e /\ Append(n, e) # <<>>
  BY DEF Last

LEMMA SubSeqType ==
    ASSUME NEW S, NEW n \in Seq(S), NEW k \in 0..Len(n)
    PROVE  /\ SubSeq(n, 1, k) \in Seq(S) /\ Len(SubSeq(n, 1, k)) = k
           /\ \A i \in 1..k : SubSeq(n, 1, k)[i] = n[i]
  OBVIOUS

LEMMA BeginningOf ==
    ASSUME NEW n \in Seq(Labels), NEW e \in Seq(Labels), Begins(n, e)
    PROVE  n = SubSeq(e, 1, Len(n)) /\ Len(n) \in 0..Len(e) /\ (Len(n) = Len(e) => n = e)
  <1>1. Len(n) \in Nat /\ Len(e) \in Nat /\ Len(n) <= Len(e) /\ \A i \in 1..Len(n) : n[i] = e[i]
    BY DEF Begins
  <1>2. Len(n) \in 0..Len(e)
    BY <1>1
  <1>3. /\ SubSeq(e, 1, Len(n)) \in Seq(Labels) /\ Len(SubSeq(e, 1, Len(n))) = Len(n)
        /\ \A i \in 1..Len(n) : SubSeq(e, 1, Len(n))[i] = e[i]
    BY <1>2, SubSeqType
  <1>4. n = SubSeq(e, 1, Len(n))
    BY <1>1, <1>3, SeqEqual
  <1>5. Len(n) = Len(e) => n = e
    BY <1>1, SeqEqual
  <1> QED
    BY <1>2, <1>4, <1>5

LEMMA LastLabel ==
    ASSUME NEW n \in Seq(Labels)
    PROVE  /\ IsWildcard(n) <=> Len(n) > 0 /\ n[Len(n)] = <<"wild">>
           /\ Straight(n) => \A i \in 1..Len(n) : n[i] = <<"wild">> => i = Len(n) /\ IsWildcard(n)
  <1>1. DOMAIN n = 1..Len(n) /\ Len(n) \in Nat /\ (n = <<>> <=> Len(n) = 0)
    OBVIOUS
  <1>2. IsWildcard(n) <=> Len(n) > 0 /\ n[Len(n)] = <<"wild">>
    BY <1>1 DEF IsWildcard, Last
  <1> QED
    <2>1. Straight(n) => \A i \in 1..Len(n) : n[i] = <<"wild">> => i = Len(n)
      BY <1>1 DEF Straight
    <2>2. \A i \in 1..Len(n) : i = Len(n) => Len(n) > 0
      BY <1>1
    <2> QED
      BY <1>2, <2>1, <2>2

(* A trie with the child of a node added is a trie.                        *)
LEMMA TreeGrows ==
    ASSUME NEW N, Tree(N), NEW n \in N, NEW e \in Labels, ~IsWildcard(n)
    PROVE  Tree(N \cup {Append(n, e)})
  <1> DEFINE c == Append(n, e)
  <1>1. n \in Seq(Labels) /\ Straight(n) /\ \A k \in 0..Len(n) : SubSeq(n, 1, k) \in N
    BY DEF Tree
  <1>2. /\ c \in Seq(Labels) /\ Len(c) = Len(n) + 1 /\ DOMAIN n = 1..Len(n) /\ Len(n) \in Nat
        /\ \A i \in 1..Len(n) : c[i] = n[i]
    BY <1>1, AppendType
  <1> HIDE DEF c
  <1>3. \A i \in 1..Len(n) : n[i] # <<"wild">>
    BY <1>1, LastLabel
  <1>4. Straight(c)
    <2>1. DOMAIN c = 1..Len(n) + 1
      BY <1>2
    <2> QED
      BY <1>2, <1>3, <2>1 DEF Straight
  <1>5. ASSUME NEW k \in 0..Len(c)
        PROVE  SubSeq(c, 1, k) \in N \cup {c}
    <2>1. /\ SubSeq(c, 1, k) \in Seq(Labels) /\ Len(SubSeq(c, 1, k)) = k
          /\ \A i \in 1..k : SubSeq(c, 1, k)[i] = c[i]
      BY <1>2, SubSeqType
    <2>2. CASE k = Len(n) + 1
      <3>1. SubSeq(c, 1, k) = c
        BY <1>2, <2>1, <2>2, SeqEqual
      <3> QED
        BY <3>1
    <2>3. CASE k # Len(n) + 1
      <3>1. k \in 0..Len(n)
        BY <1>2, <2>3
      <3>2. /\ SubSeq(n, 1, k) \in Seq(Labels) /\ Len(SubSeq(n, 1, k)) = k
            /\ \A i \in 1..k : SubSeq(n, 1, k)[i] = n[i]
        BY <1>1, <3>1, SubSeqType
      <3>3. \A i \in 1..k : SubSeq(c, 1, k)[i] = SubSeq(n, 1, k)[i]
        BY <1>2, <2>1, <3>1, <3>2
      <3>4. SubSeq(c, 1, k) = SubSeq(n, 1, k)
        BY <2>1, <3>2, <3>3, SeqEqual
      <3> QED
        BY <1>1, <3>1, <3>4
    <2> QED
      BY <2>2, <2>3
  <1>6. Tree(N \cup {c})
    BY <1>2, <1>4, <1>5 DEF Tree
  <1> QED
    BY <1>6 DEF c

LEMMA TreeRoot ==
    ASSUME NEW N, Tree(N)
    PROVE  Tree(N \cup {<<>>})
  <1>1. /\ <<>> \in Seq(Labels) /\ Len(<<>>) = 0 /\ SubSeq(<<>>, 1, 0) = <<>> /\ 0..0 = {0}
        /\ Straight(<<>>)
    BY DEF Straight
  <1>2. \A k \in 0..Len(<<>>) : SubSeq(<<>>, 1, k) = <<>>
    BY <1>1
  <1> QED
    BY <1>1, <1>2 DEF Tree

------------------------------------------------------------------------------
(* A set of naturals with zero and every successor has them all.           *)
LEMMA AllNaturals ==
    ASSUME NEW T, 0 \in T, \A n \in Nat : n \in T => n + 1 \in T
    PROVE  \A n \in Nat : n \in T
  <1> DEFINE U == {n \in Nat : n \notin T}
  <1>1. ASSUME U # {}
        PROVE  FALSE
    <2>1. PICK x \in U : \A y \in U : ~(<<y, x>> \in OpToRel(<, Nat))
      <3>1. U \subseteq Nat
        OBVIOUS
      <3> HIDE DEF U
      <3> QED
        BY <1>1, <3>1, NatLessThanWellFounded, WFMin, Zenon
    <2>2. \A y \in U : ~(y < x)
      BY <2>1 DEF OpToRel
    <2>3. x \in Nat /\ x \notin T
      OBVIOUS
    <2>4. x - 1 \in Nat /\ x - 1 < x /\ (x - 1) + 1 = x
      BY <2>3
    <2>5. x - 1 \in T
      BY <2>2, <2>4
    <2>6. (x - 1) + 1 \in T
      BY <2>4, <2>5
    <2> QED
      BY <2>3, <2>4, <2>6
  <1> QED
    BY <1>1

(* The pieces that are kept, and so the segments, are a sequence.          *)
LEMMA NormalizedType ==
    ASSUME NEW path \in Seq(STRING)
    PROVE  Normalized(path) \in Seq(STRING)
  <1> DEFINE N == Len(path)
             step(f, i) == IF i = 0 THEN <<>>
                           ELSE IF path[i] \in {"", "."} THEN f[i - 1]
                           ELSE IF path[i] # ".." THEN Append(f[i - 1], path[i])
                           ELSE IF f[i - 1] = <<>> THEN <<>> ELSE Front(f[i - 1])
             kept == CHOOSE f : f = [i \in 0..N |-> step(f, i)]
  <1>0. N \in Nat /\ \A i \in 1..N : path[i] \in STRING
    OBVIOUS
  <1>12. Normalized(path) = kept[N]
    BY DEF Normalized
  <1>1. Normalized(path) = kept[N] /\ N \in Nat
    BY <1>0, <1>12
  <1>2. ASSUME NEW f, NEW i \in 1..N, f[i - 1] \in Seq(STRING)
        PROVE  step(f, i) \in Seq(STRING)
    <2>1. path[i] \in STRING
      BY <1>0
    <2>2. f[i - 1] # <<>> => Front(f[i - 1]) \in Seq(STRING)
      BY <1>2 DEF Front
    <2>3. Append(f[i - 1], path[i]) \in Seq(STRING) /\ <<>> \in Seq(STRING)
      BY <1>2, <2>1
    <2> QED
      BY <1>2, <2>2, <2>3
  <1>3. \A f : step(f, 0) = <<>>
    OBVIOUS
  <1>4. \A f, g : \A i \in 1..N : f[i - 1] = g[i - 1] => step(f, i) = step(g, i)
    <2> SUFFICES ASSUME NEW f, NEW g, NEW i \in 1..N, f[i - 1] = g[i - 1]
                 PROVE  step(f, i) = step(g, i)
      OBVIOUS
    <2>1. i # 0
      <3> HIDE DEF N, step, kept
      <3> QED
        BY <1>0
    <2> QED
      BY <2>1
  <1> HIDE DEF step, N
  <1> DEFINE Good(n) == n <= N => \E f : f = [i \in 0..n |-> step(f, i)]
             T == {n \in Nat : Good(n)}
  <1>5. 0 \in T
    <2> DEFINE f == [i \in 0..0 |-> <<>>]
    <2>1. f = [i \in 0..0 |-> step(f, i)]
      BY <1>3
    <2> QED
      BY <2>1
  <1>6. \A n \in Nat : n \in T => n + 1 \in T
    <2> SUFFICES ASSUME NEW n \in Nat, n \in T, n + 1 <= N
                 PROVE  \E f : f = [i \in 0..(n + 1) |-> step(f, i)]
      OBVIOUS
    <2>1. n <= N
      BY <1>1
    <2>2. PICK f : f = [i \in 0..n |-> step(f, i)]
      BY <2>1
    <2> DEFINE g == [i \in 0..(n + 1) |-> IF i <= n THEN f[i] ELSE step(f, n + 1)]
    <2>3. ASSUME NEW i \in 0..(n + 1)
          PROVE  g[i] = step(g, i)
      <3>1. CASE i = 0
        <4>1. 0 \in 0..n /\ 0 \in 0..(n + 1) /\ 0 <= n
          OBVIOUS
        <4>2. f[0] = step(f, 0)
          <5> HIDE DEF T, Good, g
          <5> QED
            BY <2>2, <4>1
        <4>3. g[0] = f[0]
          BY <4>1
        <4> HIDE DEF g
        <4> QED
          BY <1>3, <3>1, <4>2, <4>3
      <3>2. CASE i # 0
        <4>1. i - 1 \in 0..n /\ i \in 1..N /\ i - 1 <= n
          BY <1>1, <3>2
        <4>2. g[i - 1] = f[i - 1]
          BY <4>1
        <4> HIDE DEF g
        <4>3. step(g, i) = step(f, i)
          BY <1>4, <4>1, <4>2
        <4>4. g[i] = step(f, i)
          <5>1. g[i] = IF i <= n THEN f[i] ELSE step(f, n + 1)
            BY DEF g
          <5>2. i <= n => f[i] = step(f, i)
            BY <2>2, <3>2
          <5>3. ~(i <= n) => i = n + 1
            OBVIOUS
          <5> QED
            BY <5>1, <5>2, <5>3
        <4> QED
          BY <4>3, <4>4
      <3> QED
        BY <3>1, <3>2
    <2>4. g = [i \in 0..(n + 1) |-> g[i]]
      OBVIOUS
    <2> HIDE DEF g
    <2>5. g = [i \in 0..(n + 1) |-> step(g, i)]
      BY <2>3, <2>4
    <2> QED
      BY <2>5
  <1>7. \E f : f = [i \in 0..N |-> step(f, i)]
    <2>1. \A n \in Nat : n \in T
      <3> HIDE DEF T
      <3> QED
        BY <1>5, <1>6, AllNaturals
    <2>2. N \in T
      BY <1>1, <2>1
    <2> QED
      BY <1>1, <2>2
  <1>8. kept = [i \in 0..N |-> step(kept, i)]
    BY <1>7
  <1> HIDE DEF kept
  <1> DEFINE V == {n \in Nat : n <= N => kept[n] \in Seq(STRING)}
  <1>9. 0 \in V
    <2>1. kept[0] = step(kept, 0)
      BY <1>1, <1>8
    <2> QED
      BY <1>3, <2>1, <<>> \in Seq(STRING)
  <1>10. \A n \in Nat : n \in V => n + 1 \in V
    <2> SUFFICES ASSUME NEW n \in Nat, n \in V, n + 1 <= N
                 PROVE  kept[n + 1] \in Seq(STRING)
      OBVIOUS
    <2>1. n + 1 \in 0..N /\ n + 1 \in 1..N /\ n <= N /\ (n + 1) - 1 = n
      BY <1>1
    <2>2. kept[n] \in Seq(STRING)
      BY <2>1
    <2>3. kept[n + 1] = step(kept, n + 1)
      BY <1>8, <2>1
    <2> QED
      BY <1>2, <2>1, <2>2, <2>3
  <1>11. N \in V
    <2> HIDE DEF V
    <2> QED
      BY <1>1, <1>9, <1>10, AllNaturals
  <1> QED
    BY <1>1, <1>11

LEMMA SegsType ==
    ASSUME NEW request \in Requests
    PROVE  Segs[request] \in Seq(STRING)
  <1>1. request.path \in Seq(STRING)
    BY RouterAssumption
  <1>2. Normalized(request.path) \in Seq(STRING) /\ <<>> \in Seq(STRING)
    BY <1>1, NormalizedType
  <1> QED
    BY <1>1, <1>2 DEF Segs

------------------------------------------------------------------------------
(* The parameters on the way to a child.                                   *)
LEMMA PlacesAppend ==
    ASSUME NEW n \in Seq(Labels), NEW e \in Labels, NEW K
    PROVE  LET c == Append(n, e)
               P == Places(n, K)
               Q == Places(c, K)
           IN  /\ Q = IF e[1] \in K THEN P \cup {Len(n) + 1} ELSE P
               /\ \A j \in P : UpTo(Q, j) = UpTo(P, j)
               /\ e[1] \in K => /\ UpTo(Q, Len(n) + 1) = Cardinality(P) + 1
                                /\ Cardinality(Q) = Cardinality(P) + 1
  <1> DEFINE c == Append(n, e)
             P == Places(n, K)
             Q == Places(c, K)
  <1>1. /\ c \in Seq(Labels) /\ Len(c) = Len(n) + 1 /\ DOMAIN n = 1..Len(n) /\ Len(n) \in Nat
        /\ \A i \in 1..Len(n) : c[i] = n[i]
        /\ c[Len(n) + 1] = e
    BY AppendType
  <1>2. P \subseteq 1..Len(n) /\ IsFiniteSet(P) /\ Q \subseteq 1..(Len(n) + 1) /\ Cardinality(P) \in Nat
    BY <1>1, PlacesIn
  <1> HIDE DEF c
  <1>3. \A i \in 1..(Len(n) + 1) : i \in Q <=> c[i][1] \in K
    <2>1. DOMAIN c = 1..(Len(n) + 1)
      BY <1>1
    <2> QED
      BY <2>1 DEF Places
  <1>4. \A i \in 1..Len(n) : i \in P <=> n[i][1] \in K
    BY <1>1 DEF Places
  <1> HIDE DEF P, Q
  <1>5. Q = IF e[1] \in K THEN P \cup {Len(n) + 1} ELSE P
    <2>1. \A i \in 1..Len(n) : i \in P <=> i \in Q
      BY <1>1, <1>3, <1>4
    <2>2. Len(n) + 1 \in Q <=> e[1] \in K
      BY <1>1, <1>3
    <2>3. \A i : i \in 1..(Len(n) + 1) <=> i \in 1..Len(n) \/ i = Len(n) + 1
      BY <1>1
    <2>4. Len(n) + 1 \notin P
      BY <1>1, <1>2
    <2> QED
      <3> DEFINE one == Len(n) + 1
      <3>1. \A i \in Q : i \in 1..Len(n) \/ i = one
        BY <1>2, <2>3
      <3>2. one \in Q <=> e[1] \in K
        BY <2>2
      <3>3. P \subseteq 1..Len(n)
        BY <1>2
      <3> HIDE DEF one
      <3>4. \A i : i \in Q <=> i \in P \/ (i = one /\ e[1] \in K)
        BY <2>1, <3>1, <3>2, <3>3
      <3>5. Q = IF e[1] \in K THEN P \cup {one} ELSE P
        BY <3>4
      <3> QED
        BY <3>5 DEF one
  <1>6. ASSUME NEW j \in P PROVE UpTo(Q, j) = UpTo(P, j)
    <2>1. j \in 1..Len(n) /\ ~(Len(n) + 1 <= j)
      BY <1>1, <1>2
    <2>2. {i \in Q : i <= j} = {i \in P : i <= j}
      BY <1>5, <2>1
    <2> QED
      BY <2>2 DEF UpTo
  <1>7. ASSUME e[1] \in K
        PROVE  /\ UpTo(Q, Len(n) + 1) = Cardinality(P) + 1 /\ Cardinality(Q) = Cardinality(P) + 1
    <2>1. Len(n) + 1 \notin P
      BY <1>1, <1>2
    <2>2. Q = P \cup {Len(n) + 1}
      BY <1>5, <1>7
    <2>3. Cardinality(Q) = Cardinality(P) + 1
      BY <1>2, <2>1, <2>2, FS_AddElement
    <2>4. \A j \in Q : j <= Len(n) + 1
      BY <1>1, <1>2
    <2> QED
      BY <2>3, <2>4, UpToAll
  <1> QED
    BY <1>5, <1>6, <1>7 DEF P, Q, c

LEMMA HoldingLabel ==
    ASSUME NEW e \in Labels
    PROVE  /\ e[1] \in Holding <=> e[1] # "static"
           /\ e[1] = "param" => e # <<"wild">>
  BY LabelKind DEF Holding, Kinds

LEMMA ConcatType ==
    ASSUME NEW S, NEW s \in Seq(S), NEW p \in S
    PROVE  /\ s \o <<p>> \in Seq(S) /\ Len(s \o <<p>>) = Len(s) + 1 /\ Len(s) \in Nat
           /\ \A i \in 1..Len(s) : (s \o <<p>>)[i] = s[i]
           /\ (s \o <<p>>)[Len(s) + 1] = p
  OBVIOUS

LEMMA TookStatic ==
    ASSUME NEW n \in Seq(Labels), NEW e \in Labels, e[1] = "static", NEW segs, NEW params,
           Took(n, segs, params)
    PROVE  Took(Append(n, e), segs, params)
  <1> DEFINE c == Append(n, e)
             at == Places(n, Holding)
  <1>1. /\ DOMAIN n = 1..Len(n) /\ \A i \in 1..Len(n) : c[i] = n[i]
    BY AppendType
  <1>2. Places(c, Holding) = at /\ \A j \in at : UpTo(Places(c, Holding), j) = UpTo(at, j)
    BY PlacesAppend, HoldingLabel
  <1>3. at \subseteq 1..Len(n)
    BY PlacesIn
  <1> HIDE DEF c
  <1>4. Took(c, segs, params)
    BY <1>1, <1>2, <1>3 DEF Took
  <1> QED
    BY <1>4 DEF c

(* A parameter more, if there is room for it. *)
LEMMA NotedType ==
    ASSUME NEW params \in Seq(Param)
    PROVE  /\ Noted(params, <<>>) = params
           /\ \A p \in Param :
                 /\ Noted(params, <<p>>) \in Seq(Param)
                 /\ Len(params) < MaxParams => Noted(params, <<p>>) = params \o <<p>>
                 /\ ~(Len(params) < MaxParams) => Noted(params, <<p>>) = params
  <1>1. params \o <<>> = params
    OBVIOUS
  <1>2. \A p \in Param : params \o <<p>> \in Seq(Param)
    OBVIOUS
  <1> QED
    BY <1>1, <1>2 DEF Noted

LEMMA TookOne ==
    ASSUME NEW n \in Seq(Labels), NEW e \in Labels, e[1] # "static", NEW segs,
           NEW params \in Seq(Param), Took(n, segs, params), NEW p \in Param,
           p.value = IF e = <<"wild">> THEN SubSeq(segs, Len(n) + 1, Len(segs)) ELSE <<segs[Len(n) + 1]>>,
           e = <<"wild">> => p.key = "*"
    PROVE  Took(Append(n, e), segs, Noted(params, <<p>>))
  <1> DEFINE c == Append(n, e)
             at == Places(n, Holding)
             new == Places(c, Holding)
             more == Noted(params, <<p>>)
             OfPlace(param, i) ==
                /\ param.value = IF c[i] = <<"wild">> THEN SubSeq(segs, i, Len(segs)) ELSE <<segs[i]>>
                /\ c[i] = <<"wild">> => param.key = "*"
  <1>1. /\ DOMAIN n = 1..Len(n) /\ Len(n) \in Nat /\ \A i \in 1..Len(n) : c[i] = n[i]
        /\ c[Len(n) + 1] = e
    BY AppendType
  <1>2. /\ new = at \cup {Len(n) + 1} /\ \A j \in at : UpTo(new, j) = UpTo(at, j)
        /\ UpTo(new, Len(n) + 1) = Cardinality(at) + 1 /\ Cardinality(new) = Cardinality(at) + 1
    BY PlacesAppend, HoldingLabel
  <1>3. at \subseteq 1..Len(n) /\ IsFiniteSet(at) /\ Cardinality(at) \in Nat
    BY PlacesIn
  <1>4. Len(params) = Capped(Cardinality(at)) /\ MaxParams \in Nat
    BY RouterAssumption DEF Took
  <1>5. /\ Len(more) = Capped(Cardinality(new))
        /\ Cardinality(at) + 1 <= MaxParams => more[Cardinality(at) + 1] = p
        /\ \A i \in 1..Len(params) : more[i] = params[i]
    <2>1. CASE Cardinality(at) < MaxParams
      <3>1. Len(params) = Cardinality(at) /\ more = params \o <<p>>
        BY <1>3, <1>4, <2>1, NotedType DEF Capped
      <3>2. /\ Len(more) = Len(params) + 1 /\ more[Len(params) + 1] = p
            /\ \A i \in 1..Len(params) : more[i] = params[i]
        BY <3>1, ConcatType
      <3> HIDE DEF more
      <3> QED
        BY <1>2, <1>3, <1>4, <2>1, <3>1, <3>2 DEF Capped
    <2>2. CASE ~(Cardinality(at) < MaxParams)
      <3>1. Len(params) = MaxParams
        BY <1>3, <1>4, <2>2 DEF Capped
      <3>2. more = params
        BY <1>4, <3>1, NotedType
      <3> HIDE DEF more
      <3> QED
        BY <1>2, <1>3, <1>4, <2>2, <3>1, <3>2 DEF Capped
    <2> QED
      BY <2>1, <2>2
  <1> HIDE DEF c, more
  <1>6. ASSUME NEW i \in at, UpTo(new, i) <= MaxParams
        PROVE  OfPlace(more[UpTo(new, i)], i)
    <2>1. UpTo(at, i) \in 1..Cardinality(at) /\ UpTo(at, i) = UpTo(new, i)
      BY <1>1, <1>2, <1>3, UpToOrders
    <2>2. UpTo(at, i) \in 1..Len(params)
      BY <1>3, <1>4, <1>6, <2>1 DEF Capped
    <2>3. more[UpTo(new, i)] = params[UpTo(at, i)] /\ c[i] = n[i]
      BY <1>1, <1>3, <1>5, <2>1, <2>2
    <2>4. /\ params[UpTo(at, i)].value = IF n[i] = <<"wild">> THEN SubSeq(segs, i, Len(segs)) ELSE <<segs[i]>>
          /\ n[i] = <<"wild">> => params[UpTo(at, i)].key = "*"
      BY <1>6, <2>1 DEF Took
    <2> QED
      BY <2>3, <2>4
  <1>7. UpTo(new, Len(n) + 1) <= MaxParams => OfPlace(more[UpTo(new, Len(n) + 1)], Len(n) + 1)
    BY <1>1, <1>2, <1>5
  <1> HIDE DEF at, new, OfPlace
  <1>8. \A i \in new : UpTo(new, i) <= MaxParams => OfPlace(more[UpTo(new, i)], i)
    BY <1>2, <1>6, <1>7
  <1>9. Took(c, segs, more)
    BY <1>5, <1>8 DEF Took, OfPlace, new
  <1> QED
    BY <1>9 DEF c, more

LEMMA TookNothing ==
    ASSUME NEW segs
    PROVE  Took(<<>>, segs, <<>>)
  <1>1. Places(<<>>, Holding) = {}
    BY DEF Places
  <1>2. Capped(0) = 0
    BY RouterAssumption DEF Capped
  <1> QED
    BY <1>1, <1>2, FS_EmptySet DEF Took

(* The request fits a route whose node the search has come to, and the     *)
(* parameters under the route's names are those of the route.              *)
LEMMA FitsRoute ==
    ASSUME NEW r \in Routes, NEW segs \in Seq(STRING), FitsUpTo(Edges[r], segs, Len(Edges[r])),
           \/ Len(Edges[r]) = Len(segs)
           \/ IsWildcard(Edges[r]) /\ Len(Edges[r]) <= Len(segs)
    PROVE  Fits(r, segs)
  <1>1. Len(Edges[r]) \in Nat /\ Len(segs) \in Nat
    BY EdgesType
  <1> QED
    BY <1>1 DEF Fits

LEMMA RenamedType ==
    ASSUME NEW r \in Routes, NEW params \in Seq(Param)
    PROVE  /\ Renamed(params, Names[r]) \in Seq(Param)
           /\ Len(Renamed(params, Names[r])) = Len(params)
           /\ \A k \in 1..Len(params) : Renamed(params, Names[r])[k].value = params[k].value
           /\ Len(Names[r]) = Len(params) =>
                 \A k \in 1..Len(params) : Renamed(params, Names[r])[k].key = Names[r][k]
  <1>1. DOMAIN params = 1..Len(params) /\ Len(params) \in Nat
    OBVIOUS
  <1>2. CASE Len(Names[r]) # Len(params)
    BY <1>2 DEF Renamed
  <1>3. CASE Len(Names[r]) = Len(params)
    <2>1. Renamed(params, Names[r]) = [k \in 1..Len(params) |-> [params[k] EXCEPT !.key = Names[r][k]]]
      BY <1>1, <1>3 DEF Renamed
    <2>2. ASSUME NEW k \in 1..Len(params)
          PROVE  /\ [params[k] EXCEPT !.key = Names[r][k]] \in Param
                 /\ [params[k] EXCEPT !.key = Names[r][k]].value = params[k].value
                 /\ [params[k] EXCEPT !.key = Names[r][k]].key = Names[r][k]
      <3>1. DOMAIN Names[r] = 1..Len(params)
        BY <1>3, SamePlaces
      <3>2. Names[r][k] \in ToSet(Names[r])
        BY <3>1 DEF ToSet
      <3>3. Names[r][k] \in Keys
        BY <3>2 DEF Keys
      <3>4. params[k] \in Param
        OBVIOUS
      <3> QED
        BY <3>3, <3>4 DEF Param
    <2> QED
      <3> DEFINE new(k) == [params[k] EXCEPT !.key = Names[r][k]]
                 all == Renamed(params, Names[r])
      <3>1. all = [k \in 1..Len(params) |-> new(k)]
        BY <2>1
      <3>2. \A k \in 1..Len(params) :
               /\ new(k) \in Param /\ new(k).value = params[k].value /\ new(k).key = Names[r][k]
        BY <2>2
      <3> HIDE DEF new, all
      <3>3. all \in Seq(Param) /\ Len(all) = Len(params)
        BY <1>1, <3>1, <3>2
      <3>4. \A k \in 1..Len(params) : all[k].value = params[k].value /\ all[k].key = Names[r][k]
        BY <3>1, <3>2
      <3> QED
        BY <3>3, <3>4 DEF all
  <1> QED
    BY <1>2, <1>3

LEMMA RouteParams ==
    ASSUME NEW r \in ValidRoutes, NEW segs, NEW params \in Seq(Param),
           Took(Edges[r], segs, params)
    PROVE  ParamsFit(r, segs, Renamed(params, Names[r]))
  <1> DEFINE n == Edges[r]
             at == Places(n, {"param", "wild"})
             named == Places(n, {"param"})
             new == Renamed(params, Names[r])
  <1>1. r \in Routes /\ n \in Seq(Labels) /\ Straight(n) /\ Len(n) \in Nat /\ DOMAIN n = 1..Len(n)
    BY ValidStraight, EdgesType
  <1>2. at = Places(n, Holding) /\ at \subseteq 1..Len(n) /\ Cardinality(at) \in Nat /\ MaxParams \in Nat
    BY <1>1, PlacesIn, RouterAssumption DEF Holding
  <1>3. /\ Len(params) = Capped(Cardinality(at))
        /\ \A i \in at : UpTo(at, i) <= MaxParams =>
              /\ params[UpTo(at, i)].value = IF n[i] = <<"wild">> THEN SubSeq(segs, i, Len(segs)) ELSE <<segs[i]>>
              /\ n[i] = <<"wild">> => params[UpTo(at, i)].key = "*"
    BY <1>2 DEF Took
  <1>4. \A i \in at : UpTo(at, i) \in 1..Cardinality(at)
    BY <1>1, <1>2, UpToOrders
  <1>5. \A i \in at : UpTo(at, i) <= MaxParams => UpTo(at, i) \in 1..Len(params)
    BY <1>2, <1>3, <1>4 DEF Capped
  <1>6. Len(Names[r]) = Cardinality(named)
    BY <1>1, SamePlaces
  <1>7. \A i \in 1..Len(n) : n[i][1] = "wild" <=> n[i] = <<"wild">>
    BY <1>1, LabelKind
  <1>8. \A i \in 1..Len(n) : n[i] = <<"wild">> => i = Len(n) /\ IsWildcard(n)
    BY <1>1, LastLabel
  <1>9. /\ Len(new) = Len(params)
        /\ \A k \in 1..Len(params) : new[k].value = params[k].value
        /\ Len(Names[r]) # Len(params) => new = params
        /\ Len(Names[r]) = Len(params) => \A k \in 1..Len(params) : new[k].key = Names[r][k]
    BY <1>1, RenamedType DEF Renamed
  <1> HIDE DEF new
  <1>10. CASE IsWildcard(n)
    <2>1. n[Len(n)] = <<"wild">> /\ Len(n) \in 1..Len(n)
      BY <1>1, <1>10, LastLabel
    <2>2. at = named \cup {Len(n)} /\ Len(n) \notin named
      BY <1>1, <1>7, <1>8, <2>1 DEF Places
    <2>3. IsFiniteSet(named) /\ Cardinality(named) \in Nat
      BY <1>1, PlacesIn
    <2>4. Cardinality(at) = Cardinality(named) + 1
      BY <2>2, <2>3, FS_AddElement
    <2>5. ASSUME NEW i \in at, UpTo(at, i) <= MaxParams, n[i] = <<"wild">>
          PROVE  new = params
      <3>1. i = Len(n)
        BY <1>2, <1>8, <2>5
      <3>2. UpTo(at, i) = Cardinality(at)
        BY <1>1, <1>2, <3>1, UpToAll
      <3>3. Len(params) = Cardinality(at)
        BY <1>2, <1>3, <2>5, <3>2 DEF Capped
      <3> QED
        BY <1>6, <1>9, <2>3, <2>4, <3>3
    <2> HIDE DEF at
    <2>6. \A i \in at : UpTo(at, i) <= MaxParams =>
             /\ new[UpTo(at, i)].value = IF n[i] = <<"wild">> THEN SubSeq(segs, i, Len(segs)) ELSE <<segs[i]>>
             /\ n[i] = <<"wild">> => new[UpTo(at, i)].key = "*"
      BY <1>3, <1>5, <1>9, <2>5
    <2>7. ParamsFit(r, segs, new)
      BY <1>3, <1>9, <1>10, <2>6 DEF ParamsFit, at
    <2> QED
      BY <2>7 DEF new
  <1>11. CASE ~IsWildcard(n)
    <2>1. at = named
      BY <1>1, <1>7, <1>8, <1>11 DEF Places
    <2>2. Cardinality(at) <= MaxParams => Len(Names[r]) = Len(params)
      BY <1>3, <1>6, <2>1 DEF Capped
    <2>3. \A i \in at : n[i] # <<"wild">>
      BY <1>2, <1>8, <1>11
    <2>4. ParamsFit(r, segs, new)
      BY <1>2, <1>3, <1>5, <1>9, <2>2, <2>3 DEF ParamsFit
    <2> QED
      BY <2>4 DEF new
  <1> QED
    BY <1>10, <1>11

------------------------------------------------------------------------------
(* The trie, as routes are added.                                          *)
LEMMA HandlerKept ==
    ASSUME NEW b \in Seq(ValidRoutes), NEW r \in ValidRoutes, NEW n, n # Edges[r], NEW record,
           HandlerOK(n, record, b)
    PROVE  HandlerOK(n, record, Append(b, r))
  <1> DEFINE c == Append(b, r)
  <1>1. /\ DOMAIN b = 1..Len(b) /\ Len(b) \in Nat /\ c \in Seq(ValidRoutes) /\ Len(c) = Len(b) + 1
        /\ \A i \in 1..Len(b) : c[i] = b[i]
        /\ c[Len(b) + 1] = r
    BY AppendType
  <1>2. DOMAIN c = 1..(Len(b) + 1)
    BY <1>1
  <1> HIDE DEF c
  <1>3. \A i \in DOMAIN c : Edges[c[i]] = n => i \in DOMAIN b
    BY <1>1, <1>2
  <1>4. \A i \in DOMAIN b : i \in DOMAIN c /\ c[i] = b[i]
    BY <1>1, <1>2
  <1>5. HandlerOK(n, record, c)
    BY <1>3, <1>4 DEF HandlerOK
  <1> QED
    BY <1>5 DEF c

LEMMA ReachedKept ==
    ASSUME NEW b \in Seq(ValidRoutes), NEW r \in ValidRoutes, NEW n,
           \E i \in DOMAIN b : Begins(n, Edges[b[i]])
    PROVE  \E i \in DOMAIN Append(b, r) : Begins(n, Edges[Append(b, r)[i]])
  <1>1. /\ DOMAIN b = 1..Len(b) /\ Append(b, r) \in Seq(ValidRoutes) /\ Len(Append(b, r)) = Len(b) + 1
        /\ Len(b) \in Nat
        /\ \A i \in 1..Len(b) : Append(b, r)[i] = b[i]
    BY AppendType
  <1>2. \A i \in DOMAIN b : i \in DOMAIN Append(b, r)
    BY <1>1
  <1> QED
    BY <1>1, <1>2

LEMMA EmptyRecord ==
    ASSUME NEW name \in Words
    PROVE  /\ Empty(name) \in NodeRecord /\ Empty(name).handler = None /\ Empty(name).names = <<>>
  <1>1. 0 \in 0..Threshold
    BY RouterAssumption
  <1> QED
    BY <1>1 DEF Empty, NodeRecord, NameLists

LEMMA TrieAddRoute ==
    ASSUME TrieInv, NEW a \in Adders, NEW r \in Routes, AddRoute(a, r)
    PROVE  TrieInv' /\ DOMAIN nodes \subseteq DOMAIN nodes'
  <1> DEFINE N == DOMAIN nodes
  <1>1. /\ Tree(N) /\ nodes \in [N -> NodeRecord] /\ bound \in Seq(ValidRoutes)
        /\ adder \in [Adders -> AdderRecord] /\ \A b \in Adders : AdderOK(adder[b], N)
        /\ \A i \in DOMAIN bound : Edges[bound[i]] \in N
        /\ \A n \in N : HandlerOK(n, nodes[n], bound) /\ Reached(n, bound, adder)
    BY DEF TrieInv
  <1>2. /\ adder[a].at = "idle" /\ r \in ValidRoutes /\ bound' = bound
        /\ adder' = [adder EXCEPT ![a] = [at |-> "insert", route |-> r, node |-> <<>>]]
        /\ nodes' = [n \in N \cup {<<>>} |-> IF n \in N THEN nodes[n] ELSE Empty("")]
    BY DEF AddRoute
  <1>3. Empty("") \in NodeRecord /\ Empty("").handler = None /\ Empty("").names = <<>>
    <2>1. "" \in Words
      BY DEF Words
    <2> QED
      BY <2>1, EmptyRecord
  <1>4. /\ DOMAIN nodes' = N \cup {<<>>} /\ nodes' \in [DOMAIN nodes' -> NodeRecord]
        /\ \A n \in N : nodes'[n] = nodes[n]
        /\ <<>> \notin N => nodes'[<<>>] = Empty("")
    BY <1>1, <1>2, <1>3
  <1>5. Tree(DOMAIN nodes')
    BY <1>1, <1>4, TreeRoot
  <1>6. /\ adder'[a] = [at |-> "insert", route |-> r, node |-> <<>>]
        /\ \A b \in Adders \ {a} : adder'[b] = adder[b]
        /\ adder' \in [Adders -> AdderRecord]
    <2>1. [at |-> "insert", route |-> r, node |-> <<>>] \in AdderRecord
      BY DEF AdderRecord
    <2> QED
      BY <1>1, <1>2, <2>1
  <1>7. \A e \in Seq(Labels) : Begins(<<>>, e)
    BY DEF Begins
  <1>8. Edges[r] \in Seq(Labels) /\ <<>> \in Seq(Labels)
    BY EdgesType
  <1>9. AdderOK(adder'[a], DOMAIN nodes')
    BY <1>2, <1>4, <1>6, <1>7, <1>8 DEF AdderOK
  <1>10. \A b \in Adders \ {a} : AdderOK(adder'[b], DOMAIN nodes')
    BY <1>1, <1>4, <1>6 DEF AdderOK
  <1>11. ASSUME NEW n \in DOMAIN nodes'
         PROVE  HandlerOK(n, nodes'[n], bound) /\ Reached(n, bound, adder')
    <2>1. CASE n \in N
      <3>1. HandlerOK(n, nodes[n], bound) /\ Reached(n, bound, adder)
        BY <1>1, <2>1
      <3>2. \A b \in Adders : adder[b].at = "insert" => adder'[b] = adder[b]
        BY <1>2, <1>6
      <3> QED
        BY <1>4, <2>1, <3>1, <3>2 DEF Reached
    <2>2. CASE n \notin N
      <3>1. n = <<>> /\ nodes'[n] = Empty("")
        BY <1>4, <2>2
      <3>2. \A i \in DOMAIN bound : Edges[bound[i]] # n
        BY <1>1, <2>2
      <3>3. HandlerOK(n, nodes'[n], bound)
        BY <1>3, <3>1, <3>2 DEF HandlerOK
      <3>4. Begins(n, adder'[a].node) /\ adder'[a].at = "insert"
        <4>1. adder'[a].at = "insert" /\ adder'[a].node = <<>>
          BY <1>6
        <4>2. Begins(<<>>, <<>>)
          BY <1>7, <1>8
        <4> QED
          BY <3>1, <4>1, <4>2
      <3> QED
        BY <3>3, <3>4 DEF Reached
    <2> QED
      BY <2>1, <2>2
  <1>12. \A i \in DOMAIN bound : Edges[bound[i]] \in DOMAIN nodes'
    BY <1>1, <1>4
  <1>13. \A b \in Adders : AdderOK(adder'[b], DOMAIN nodes')
    BY <1>9, <1>10
  <1> QED
    BY <1>1, <1>2, <1>4, <1>5, <1>6, <1>11, <1>12, <1>13 DEF TrieInv

LEMMA BeginsGrows ==
    ASSUME NEW n \in Seq(Labels), NEW e \in Seq(Labels), NEW label \in Labels, Begins(n, e)
    PROVE  Begins(n, Append(e, label))
  <1>1. /\ Len(Append(e, label)) = Len(e) + 1 /\ \A i \in 1..Len(e) : Append(e, label)[i] = e[i]
        /\ Len(e) \in Nat /\ Len(n) \in Nat
    BY AppendType
  <1>2. Len(n) <= Len(e) /\ \A i \in 1..Len(n) : n[i] = e[i]
    BY DEF Begins
  <1>3. \A i \in 1..Len(n) : i \in 1..Len(e)
    BY <1>1, <1>2
  <1> QED
    BY <1>1, <1>2, <1>3 DEF Begins

LEMMA BeginsSelf ==
    ASSUME NEW n \in Seq(Labels)
    PROVE  Begins(n, n)
  <1>1. Len(n) \in Nat
    OBVIOUS
  <1> QED
    BY <1>1 DEF Begins

LEMMA TrieInsert ==
    ASSUME TrieInv, NEW a \in Adders, Insert(a)
    PROVE  TrieInv' /\ DOMAIN nodes \subseteq DOMAIN nodes'
  <1> DEFINE N == DOMAIN nodes
             r == adder[a].route
             at == adder[a].node
             part == Parts[r][Len(at) + 1]
             child == Append(at, Edge(part))
  <1>1. /\ Tree(N) /\ nodes \in [N -> NodeRecord] /\ bound \in Seq(ValidRoutes)
        /\ adder \in [Adders -> AdderRecord] /\ \A b \in Adders : AdderOK(adder[b], N)
        /\ \A i \in DOMAIN bound : Edges[bound[i]] \in N
        /\ \A n \in N : HandlerOK(n, nodes[n], bound) /\ Reached(n, bound, adder)
    BY DEF TrieInv
  <1>2. /\ adder[a].at = "insert" /\ Len(at) < Len(Parts[r]) /\ bound' = bound
        /\ adder' = [adder EXCEPT ![a].node = child]
        /\ nodes' = [n \in N \cup {child} |-> IF n \in N THEN nodes[n] ELSE Empty(part[2])]
    BY DEF Insert
  <1>3. r \in ValidRoutes /\ r \in Routes /\ at \in N /\ Begins(at, Edges[r]) /\ Straight(Edges[r])
    BY <1>1, <1>2, ValidStraight DEF AdderOK
  <1>4. at \in Seq(Labels) /\ Len(at) \in Nat
    BY <1>1, <1>3 DEF Tree
  <1>5. /\ Edges[r] \in Seq(Labels) /\ Len(Edges[r]) = Len(Parts[r]) /\ Len(Edges[r]) \in Nat
        /\ \A i \in 1..Len(Edges[r]) :
              Parts[r][i] \in Kinds \X STRING /\ Edges[r][i] = Edge(Parts[r][i])
    BY <1>3, EdgesType
  <1>6. Len(at) + 1 \in 1..Len(Edges[r])
    BY <1>2, <1>4, <1>5
  <1>7. part \in Kinds \X STRING /\ Edge(part) = Edges[r][Len(at) + 1] /\ Edge(part) \in Labels
    BY <1>5, <1>6, PieceEdge
  <1>8. part[2] \in STRING
    BY <1>7
  <1>9. Empty(part[2]) \in NodeRecord /\ Empty(part[2]).handler = None /\ Empty(part[2]).names = <<>>
    BY <1>8, EmptyRecord DEF Words
  <1>10. /\ child \in Seq(Labels) /\ Len(child) = Len(at) + 1
         /\ \A i \in 1..Len(at) : child[i] = at[i]
         /\ child[Len(at) + 1] = Edge(part)
    BY <1>4, <1>7, AppendType
  <1>11. ~IsWildcard(at)
    <2>2. \A i \in 1..Len(at) : at[i] = Edges[r][i]
      BY <1>3 DEF Begins
    <2>3. DOMAIN Edges[r] = 1..Len(Edges[r])
      BY <1>5
    <2>1. Len(at) > 0 => at[Len(at)] = Edges[r][Len(at)] /\ Len(at) \in DOMAIN Edges[r] /\ Len(at) # Len(Edges[r])
      <3> HIDE DEF r, at, child, part
      <3> QED
        BY <1>4, <1>5, <1>6, <2>2, <2>3
    <2> QED
      BY <1>3, <1>4, <2>1, LastLabel DEF Straight
  <1>12. Tree(N \cup {child})
    BY <1>1, <1>3, <1>7, <1>11, TreeGrows
  <1>21. \A n \in Seq(Labels) : Begins(n, at) => Begins(n, child)
    BY <1>4, <1>7, BeginsGrows
  <1> HIDE DEF child, part
  <1>13. Begins(child, Edges[r])
    <2>1. Len(child) <= Len(Edges[r])
      BY <1>6, <1>10
    <2>2. \A i \in 1..Len(at) : child[i] = Edges[r][i]
      BY <1>3, <1>10 DEF Begins
    <2>3. \A i \in 1..(Len(at) + 1) : i \in 1..Len(at) \/ i = Len(at) + 1
      BY <1>4
    <2>4. \A i \in 1..Len(child) : child[i] = Edges[r][i]
      BY <1>7, <1>10, <2>2, <2>3
    <2> QED
      BY <2>1, <2>4 DEF Begins
  <1>14. /\ DOMAIN nodes' = N \cup {child} /\ nodes' \in [DOMAIN nodes' -> NodeRecord]
         /\ \A n \in N : nodes'[n] = nodes[n]
         /\ child \notin N => nodes'[child] = Empty(part[2])
    BY <1>1, <1>2, <1>9
  <1>15. /\ adder'[a] = [adder[a] EXCEPT !.node = child] /\ adder[a] \in AdderRecord
         /\ \A b \in Adders \ {a} : adder'[b] = adder[b]
         /\ DOMAIN adder' = Adders /\ adder' = [b \in Adders |-> adder'[b]]
    BY <1>1, <1>2
  <1>16. adder'[a].at = "insert" /\ adder'[a].route = r /\ adder'[a].node = child /\ adder'[a] \in AdderRecord
    BY <1>2, <1>10, <1>15 DEF AdderRecord
  <1>17. adder' \in [Adders -> AdderRecord]
    BY <1>1, <1>15, <1>16
  <1>18. \A b \in Adders : AdderOK(adder'[b], DOMAIN nodes')
    <2>1. AdderOK(adder'[a], DOMAIN nodes')
      BY <1>3, <1>13, <1>14, <1>16 DEF AdderOK
    <2>2. \A b \in Adders \ {a} : AdderOK(adder'[b], DOMAIN nodes')
      BY <1>1, <1>14, <1>15 DEF AdderOK
    <2> QED
      BY <2>1, <2>2
  <1>19. ASSUME NEW n \in DOMAIN nodes'
         PROVE  HandlerOK(n, nodes'[n], bound) /\ Reached(n, bound, adder')
    <2>1. CASE n \in N
      <3>1. HandlerOK(n, nodes[n], bound) /\ Reached(n, bound, adder) /\ n \in Seq(Labels)
        BY <1>1, <2>1 DEF Tree
      <3>2. ASSUME NEW b \in Adders, adder[b].at = "insert", Begins(n, adder[b].node)
            PROVE  adder'[b].at = "insert" /\ Begins(n, adder'[b].node)
        <4>1. CASE b = a
          BY <1>16, <1>21, <3>1, <3>2, <4>1
        <4>2. CASE b # a
          BY <1>15, <3>2, <4>2
        <4> QED
          BY <4>1, <4>2
      <3>3. Reached(n, bound, adder')
        BY <3>1, <3>2 DEF Reached
      <3> QED
        BY <1>14, <2>1, <3>1, <3>3
    <2>2. CASE n \notin N
      <3>1. n = child /\ nodes'[n] = Empty(part[2])
        BY <1>14, <2>2
      <3>2. \A i \in DOMAIN bound : Edges[bound[i]] # n
        BY <1>1, <2>2
      <3>3. HandlerOK(n, nodes'[n], bound)
        BY <1>9, <3>1, <3>2 DEF HandlerOK
      <3>4. Begins(n, adder'[a].node)
        BY <1>10, <1>16, <3>1, BeginsSelf
      <3> QED
        BY <1>16, <3>3, <3>4 DEF Reached
    <2> QED
      BY <2>1, <2>2
  <1>20. \A i \in DOMAIN bound : Edges[bound[i]] \in DOMAIN nodes'
    BY <1>1, <1>14
  <1> QED
    BY <1>1, <1>2, <1>12, <1>14, <1>17, <1>18, <1>19, <1>20 DEF TrieInv

LEMMA TrieSetHandler ==
    ASSUME TrieInv, NEW a \in Adders, SetHandler(a)
    PROVE  TrieInv' /\ DOMAIN nodes' = DOMAIN nodes /\ bound' = Append(bound, adder[a].route)
  <1> DEFINE N == DOMAIN nodes
             r == adder[a].route
             n == adder[a].node
             record == [nodes[n] EXCEPT !.handler = r,
                                        !.middleware = IF r \in Wrapped THEN r ELSE @,
                                        !.names = IF Names[r] # <<>> THEN Names[r] ELSE @]
  <1>1. /\ Tree(N) /\ nodes \in [N -> NodeRecord] /\ bound \in Seq(ValidRoutes)
        /\ adder \in [Adders -> AdderRecord] /\ \A b \in Adders : AdderOK(adder[b], N)
        /\ \A i \in DOMAIN bound : Edges[bound[i]] \in N
        /\ \A c \in N : HandlerOK(c, nodes[c], bound) /\ Reached(c, bound, adder)
    BY DEF TrieInv
  <1>2. /\ adder[a].at = "insert" /\ Len(n) = Len(Parts[r]) /\ bound' = Append(bound, r)
        /\ adder' = [adder EXCEPT ![a] = NoWork]
        /\ nodes' = [nodes EXCEPT ![n] = record]
    BY DEF SetHandler
  <1>3. r \in ValidRoutes /\ r \in Routes /\ n \in N /\ Begins(n, Edges[r])
    BY <1>1, <1>2, ValidStraight DEF AdderOK
  <1>4. n \in Seq(Labels) /\ Edges[r] \in Seq(Labels) /\ Len(Edges[r]) = Len(n)
    BY <1>1, <1>2, <1>3, EdgesType DEF Tree
  <1>5. n = Edges[r]
    BY <1>3, <1>4, BeginningOf
  <1>6. nodes[n] \in NodeRecord
    BY <1>1, <1>3
  <1>7. Names[r] # <<>> \/ nodes[n].names = <<>>
    <2>1. SUFFICES ASSUME nodes[n].names # <<>> PROVE Names[r] # <<>>
      OBVIOUS
    <2>2. PICK i \in DOMAIN bound : nodes[n].names = Names[bound[i]] /\ Edges[bound[i]] = n
      BY <1>1, <1>3, <2>1 DEF HandlerOK
    <2>3. bound[i] \in Routes
      <3>1. bound[i] \in ValidRoutes
        BY <1>1
      <3> QED
        BY <3>1, ValidStraight
    <2> QED
      BY <1>3, <1>5, <2>1, <2>2, <2>3, SameNames
  <1>8. record \in NodeRecord /\ record.handler = r /\ record.names = Names[r]
    <2> DEFINE x == nodes[n]
               wrap == IF r \in Wrapped THEN r ELSE x.middleware
               names == IF Names[r] # <<>> THEN Names[r] ELSE x.names
    <2>1. names = Names[r] /\ names \in NameLists
      BY <1>3, <1>7 DEF NameLists
    <2>2. wrap \in Wrapped \cup {None}
      BY <1>6 DEF NodeRecord
    <2>3. record = [x EXCEPT !.handler = r, !.middleware = wrap, !.names = names]
      OBVIOUS
    <2>4. x \in NodeRecord
      BY <1>6
    <2> HIDE DEF x, wrap, names, record, r
    <2> QED
      <3>1. r \in Routes
        BY <1>3
      <3>2. /\ [x EXCEPT !.handler = r, !.middleware = wrap, !.names = names] \in NodeRecord
            /\ [x EXCEPT !.handler = r, !.middleware = wrap, !.names = names].handler = r
            /\ [x EXCEPT !.handler = r, !.middleware = wrap, !.names = names].names = names
        BY <2>1, <2>2, <2>4, <3>1 DEF NodeRecord
      <3> QED
        BY <2>1, <2>3, <3>2
  <1> HIDE DEF record
  <1>9. /\ DOMAIN nodes' = N /\ nodes' \in [N -> NodeRecord] /\ nodes'[n] = record
        /\ \A c \in N \ {n} : nodes'[c] = nodes[c]
    BY <1>1, <1>2, <1>3, <1>8
  <1>10. /\ adder'[a] = NoWork /\ \A b \in Adders \ {a} : adder'[b] = adder[b]
         /\ adder' \in [Adders -> AdderRecord] /\ NoWork.at = "idle"
    <2>1. NoWork \in AdderRecord /\ NoWork.at = "idle"
      <3>1. <<>> \in Seq(Labels)
        OBVIOUS
      <3> QED
        BY <3>1 DEF AdderRecord, NoWork
    <2> QED
      BY <1>1, <1>2, <2>1
  <1>11. \A b \in Adders : AdderOK(adder'[b], N)
    BY <1>1, <1>10 DEF AdderOK
  <1>12. /\ bound' \in Seq(ValidRoutes) /\ Len(bound') = Len(bound) + 1 /\ Len(bound) \in Nat
         /\ DOMAIN bound = 1..Len(bound) /\ DOMAIN bound' = 1..(Len(bound) + 1)
         /\ \A i \in 1..Len(bound) : bound'[i] = bound[i]
         /\ bound'[Len(bound) + 1] = r
    <2> HIDE DEF r
    <2>1. /\ Append(bound, r) \in Seq(ValidRoutes) /\ Len(Append(bound, r)) = Len(bound) + 1
          /\ Len(bound) \in Nat /\ DOMAIN bound = 1..Len(bound)
          /\ \A i \in 1..Len(bound) : Append(bound, r)[i] = bound[i]
          /\ Append(bound, r)[Len(bound) + 1] = r
      BY <1>1, <1>3, AppendType
    <2> QED
      BY <1>2, <2>1
  <1>13. ASSUME NEW c \in N
         PROVE  HandlerOK(c, nodes'[c], bound')
    <2>1. CASE c = n
      <3>1. nodes'[c].handler = bound'[Len(bound) + 1] /\ nodes'[c].names = Names[bound'[Len(bound) + 1]]
            /\ Edges[bound'[Len(bound) + 1]] = c /\ Len(bound) + 1 \in DOMAIN bound'
        BY <1>5, <1>8, <1>9, <1>12, <2>1
      <3>2. \A j \in DOMAIN bound' : j <= Len(bound) + 1
        BY <1>12
      <3> QED
        BY <3>1, <3>2 DEF HandlerOK
    <2>2. CASE c # n
      BY <1>1, <1>2, <1>3, <1>5, <1>9, <2>2, HandlerKept
    <2> QED
      BY <2>1, <2>2
  <1>14. ASSUME NEW c \in N
         PROVE  Reached(c, bound', adder')
    <2>1. Reached(c, bound, adder)
      BY <1>1
    <2>2. CASE \E i \in DOMAIN bound : Begins(c, Edges[bound[i]])
      BY <1>1, <1>2, <1>3, <2>2, ReachedKept DEF Reached
    <2>3. CASE \E b \in Adders : adder[b].at = "insert" /\ Begins(c, adder[b].node)
      <3>1. PICK b \in Adders : adder[b].at = "insert" /\ Begins(c, adder[b].node)
        BY <2>3
      <3>2. CASE b = a
        <4>1. Begins(c, Edges[bound'[Len(bound) + 1]]) /\ Len(bound) + 1 \in DOMAIN bound'
          BY <1>5, <1>12, <3>1, <3>2
        <4> QED
          BY <4>1 DEF Reached
      <3>3. CASE b # a
        BY <1>10, <3>1, <3>3 DEF Reached
      <3> QED
        BY <3>2, <3>3
    <2> QED
      BY <2>1, <2>2, <2>3 DEF Reached
  <1>15. \A i \in DOMAIN bound' : Edges[bound'[i]] \in N
    <2>1. \A i \in 1..(Len(bound) + 1) : i \in 1..Len(bound) \/ i = Len(bound) + 1
      BY <1>12
    <2>2. \A i \in 1..Len(bound) : Edges[bound'[i]] \in N
      BY <1>1, <1>12
    <2> QED
      BY <1>3, <1>5, <1>12, <2>1, <2>2
  <1> QED
    BY <1>1, <1>2, <1>9, <1>10, <1>11, <1>12, <1>13, <1>14, <1>15 DEF TrieInv

LEMMA TrieHit ==
    ASSUME TrieInv, NEW n \in DOMAIN nodes, nodes[n].hits < Threshold,
           nodes' = [nodes EXCEPT ![n].hits = @ + 1], UNCHANGED <<adder, bound>>
    PROVE  TrieInv' /\ DOMAIN nodes' = DOMAIN nodes
  <1>1. nodes \in [DOMAIN nodes -> NodeRecord] /\ nodes[n] \in NodeRecord
    BY DEF TrieInv
  <1>2. nodes[n].hits \in 0..Threshold /\ Threshold \in Nat
    BY <1>1, RouterAssumption DEF NodeRecord
  <1>3. nodes[n].hits + 1 \in 0..Threshold
    BY <1>2
  <1>4. /\ nodes'[n] = [nodes[n] EXCEPT !.hits = @ + 1] /\ DOMAIN nodes' = DOMAIN nodes
        /\ \A c \in DOMAIN nodes \ {n} : nodes'[c] = nodes[c]
        /\ nodes' = [c \in DOMAIN nodes |-> nodes'[c]]
    BY <1>1
  <1>5. nodes'[n] \in NodeRecord /\ nodes'[n].handler = nodes[n].handler /\ nodes'[n].names = nodes[n].names
    BY <1>1, <1>3, <1>4 DEF NodeRecord
  <1>6. nodes' \in [DOMAIN nodes -> NodeRecord]
    BY <1>1, <1>4, <1>5
  <1>7. \A c \in DOMAIN nodes : nodes'[c].handler = nodes[c].handler /\ nodes'[c].names = nodes[c].names
    BY <1>4, <1>5
  <1>8. \A c \in DOMAIN nodes : HandlerOK(c, nodes'[c], bound)
    <2>1. \A c \in DOMAIN nodes : HandlerOK(c, nodes[c], bound)
      BY DEF TrieInv
    <2> QED
      BY <1>7, <2>1 DEF HandlerOK
  <1> QED
    BY <1>4, <1>6, <1>8 DEF TrieInv

LEMMA TrieSame ==
    ASSUME TrieInv, UNCHANGED <<nodes, adder, bound>>
    PROVE  TrieInv'
  BY DEF TrieInv

LEMMA TrieInit ==
    ASSUME Init
    PROVE  TrieInv
  <1>1. /\ nodes = [n \in {} |-> Empty("")] /\ adder = [a \in Adders |-> NoWork] /\ bound = <<>>
    BY DEF Init
  <1>2. NoWork \in AdderRecord /\ NoWork.at = "idle"
    <2>1. <<>> \in Seq(Labels)
      OBVIOUS
    <2> QED
      BY <2>1 DEF AdderRecord, NoWork
  <1>3. DOMAIN nodes = {} /\ nodes \in [DOMAIN nodes -> NodeRecord]
    BY <1>1
  <1>4. adder \in [Adders -> AdderRecord] /\ \A a \in Adders : adder[a].at = "idle"
    BY <1>1, <1>2
  <1>5. bound \in Seq(ValidRoutes) /\ DOMAIN bound = {}
    BY <1>1
  <1> QED
    BY <1>3, <1>4, <1>5 DEF TrieInv, Tree, AdderOK

------------------------------------------------------------------------------
(* What searches and the cache hold, while others work.                    *)
LEMMA MapLater ==
    ASSUME NEW s, NEW last \in Nat, NEW later \in Nat, last <= later, MapOK(s, last)
    PROVE  MapOK(s, later)
  <1>1. \A i \in DOMAIN s : s[i].asOf \in Nat
    <2>1. \A i \in DOMAIN s : s[i] \in Entry
      BY DEF MapOK
    <2> QED
      BY <2>1 DEF Entry
  <1> QED
    BY <1>1 DEF MapOK

LEMMA MatcherLater ==
    ASSUME NEW w \in MatcherRecord, NEW N, NEW M, N \subseteq M,
           NEW last \in Nat, NEW later \in Nat, last <= later, MatcherOK(w, N, last)
    PROVE  MatcherOK(w, M, later)
  <1>1. w.asOf \in Nat
    BY DEF MatcherRecord
  <1>2. w.asOf <= later
    BY <1>1 DEF MatcherOK
  <1> QED
    BY <1>2 DEF MatcherOK

LEMMA MatchKept ==
    ASSUME MatchInv, DOMAIN nodes \subseteq DOMAIN nodes', Len(bound) \in Nat, Len(bound') \in Nat,
           Len(bound) <= Len(bound'), UNCHANGED <<matcher, entries>>, enabled' \in BOOLEAN
    PROVE  MatchInv'
  <1>1. ASSUME NEW m \in Matchers
        PROVE  /\ MatcherOK(matcher[m], DOMAIN nodes', Len(bound'))
               /\ MapOK(matcher[m].snapshot, Len(bound'))
    <2>1. /\ matcher[m] \in MatcherRecord /\ MatcherOK(matcher[m], DOMAIN nodes, Len(bound))
          /\ MapOK(matcher[m].snapshot, Len(bound))
      BY DEF MatchInv
    <2> QED
      BY <2>1, MapLater, MatcherLater
  <1>2. MapOK(entries, Len(bound'))
    <2>1. MapOK(entries, Len(bound))
      BY DEF MatchInv
    <2> QED
      BY <2>1, MapLater
  <1>3. matcher' = matcher /\ entries' = entries /\ matcher \in [Matchers -> MatcherRecord]
    BY DEF MatchInv
  <1> QED
    BY <1>1, <1>2, <1>3 DEF MatchInv

(* One search takes a step, and the trie stays.                            *)
LEMMA MatchOne ==
    ASSUME MatchInv, NEW m \in Matchers, NEW w \in MatcherRecord,
           matcher' = [matcher EXCEPT ![m] = w],
           MatcherOK(w, DOMAIN nodes, Len(bound)), MapOK(w.snapshot, Len(bound)),
           DOMAIN nodes' = DOMAIN nodes, bound' = bound, enabled' = enabled,
           MapOK(entries', Len(bound))
    PROVE  MatchInv'
  <1>1. /\ matcher \in [Matchers -> MatcherRecord]
        /\ \A k \in Matchers : /\ MatcherOK(matcher[k], DOMAIN nodes, Len(bound))
                               /\ MapOK(matcher[k].snapshot, Len(bound))
        /\ enabled \in BOOLEAN
    BY DEF MatchInv
  <1>2. matcher' \in [Matchers -> MatcherRecord]
    BY <1>1
  <1>3. \A k \in Matchers : matcher'[k] = IF k = m THEN w ELSE matcher[k]
    BY <1>1
  <1>4. \A k \in Matchers : /\ MatcherOK(matcher'[k], DOMAIN nodes, Len(bound))
                            /\ MapOK(matcher'[k].snapshot, Len(bound))
    BY <1>1, <1>3
  <1> QED
    BY <1>1, <1>2, <1>4 DEF MatchInv

LEMMA BoundLen ==
    ASSUME TrieInv
    PROVE  /\ Len(bound) \in Nat /\ DOMAIN bound = 1..Len(bound)
           /\ \A i \in 1..Len(bound) : bound[i] \in ValidRoutes /\ bound[i] \in Routes
  <1>1. bound \in Seq(ValidRoutes)
    BY DEF TrieInv
  <1> QED
    BY <1>1, ValidStraight

LEMMA NoMap ==
    ASSUME NEW last
    PROVE  MapOK(<<>>, last)
  <1>1. <<>> \in Seq(Entry) /\ DOMAIN <<>> = {}
    OBVIOUS
  <1> QED
    BY <1>1 DEF MapOK

LEMMA NoAnswer == NoMatch \in Answer /\ NoMatch.handler = None /\ NoMatch.params = <<>>
  <1>1. <<>> \in Seq(Param)
    OBVIOUS
  <1> QED
    BY <1>1 DEF NoMatch, Answer

LEMMA SearchRecord ==
    ASSUME NEW at \in {"idle"} \cup Walking \cup Answering, NEW request \in Requests \cup {None},
           NEW answer \in Answer, NEW asOf \in Nat
    PROVE  /\ Search(at, request, answer, asOf) \in MatcherRecord
           /\ Search(at, request, answer, asOf).at = at
           /\ Search(at, request, answer, asOf).request = request
           /\ Search(at, request, answer, asOf).answer = answer
           /\ Search(at, request, answer, asOf).asOf = asOf
           /\ Search(at, request, answer, asOf).node = <<>>
           /\ Search(at, request, answer, asOf).snapshot = <<>>
  <1>1. <<>> \in Seq(Labels) /\ <<>> \in Seq(Entry)
    OBVIOUS
  <1> QED
    BY <1>1 DEF MatcherRecord, Search

LEMMA MatchCacheHit ==
    ASSUME TrieInv, MatchInv, NEW m \in Matchers, NEW request \in Requests, CacheHit(m, request)
    PROVE  MatchInv'
  <1>1. PICK i \in Cached(request) :
           matcher' = [matcher EXCEPT ![m] =
                Search("answered", request, entries[i].answer, entries[i].asOf)]
    BY DEF CacheHit
  <1>2. i \in DOMAIN entries /\ entries[i].key = request
    BY DEF Cached
  <1>3. MapOK(entries, Len(bound))
    BY DEF MatchInv
  <1>4. entries[i] \in Entry /\ Kept(entries[i].key, entries[i].answer) /\ entries[i].asOf <= Len(bound)
    BY <1>2, <1>3 DEF MapOK
  <1>5. entries[i].answer \in Answer /\ entries[i].asOf \in Nat
    BY <1>4 DEF Entry
  <1> DEFINE w == Search("answered", request, entries[i].answer, entries[i].asOf)
  <1>6. /\ w \in MatcherRecord /\ w.at = "answered" /\ w.request = request /\ w.answer = entries[i].answer
        /\ w.asOf = entries[i].asOf /\ w.node = <<>> /\ w.snapshot = <<>>
    <2>1. "answered" \in {"idle"} \cup Walking \cup Answering
      BY DEF Answering
    <2> QED
      BY <1>5, <2>1, SearchRecord
  <1>7. matcher' = [matcher EXCEPT ![m] = w]
    BY <1>1
  <1> HIDE DEF w
  <1>8. AnswerFitsRoute(w.request, w.answer)
    BY <1>2, <1>4, <1>6 DEF Kept
  <1>9. MatcherOK(w, DOMAIN nodes, Len(bound))
    BY <1>4, <1>6, <1>8 DEF MatcherOK, Walking, Storing, Kinds
  <1>10. MapOK(w.snapshot, Len(bound))
    BY <1>6, NoMap
  <1>11. nodes' = nodes /\ bound' = bound /\ enabled' = enabled /\ entries' = entries
    BY DEF CacheHit, cacheVars
  <1> QED
    BY <1>3, <1>6, <1>7, <1>9, <1>10, <1>11, MatchOne

(* A search begins at the root, and has taken nothing.                     *)
LEMMA OnTheWayFirst ==
    ASSUME NEW w, w.node = <<>>, w.answer = NoMatch, NEW segs \in Seq(STRING),
           w.at = IF segs = <<>> THEN "handler" ELSE "static"
    PROVE  OnTheWay(w, segs)
  <1>1. Len(<<>>) = 0 /\ Len(segs) \in Nat /\ (segs # <<>> => 0 < Len(segs)) /\ (segs = <<>> => Len(segs) = 0)
        /\ 1..0 = {}
    OBVIOUS
  <1>2. FitsUpTo(<<>>, segs, 0)
    BY <1>1 DEF FitsUpTo
  <1>3. Took(<<>>, segs, <<>>)
    BY TookNothing
  <1>4. ~IsWildcard(<<>>)
    BY DEF IsWildcard
  <1> QED
    BY <1>1, <1>2, <1>3, <1>4, NoAnswer DEF OnTheWay, Kinds

LEMMA MatchCacheMiss ==
    ASSUME TrieInv, MatchInv, NEW m \in Matchers, NEW request \in Requests, CacheMiss(m, request)
    PROVE  /\ MatchInv'
           /\ matcher' = [matcher EXCEPT ![m] = matcher'[m]] /\ matcher'[m].asOf = Len(bound)
           /\ matcher'[m].node = <<>> /\ matcher'[m].snapshot = <<>> /\ matcher'[m].request = request
           /\ matcher'[m].answer = NoMatch
           /\ \/ matcher'[m].at = "handler" \/ matcher'[m].at = "static"
              \/ /\ matcher'[m].at = "answered"
                 /\ <<>> \notin DOMAIN nodes \/ request.method # Method \/ request.path = <<>>
  <1> DEFINE found == <<>> \in DOMAIN nodes /\ request.method = Method /\ request.path # <<>>
             at == IF found THEN IF Segs[request] = <<>> THEN "handler" ELSE "static" ELSE "answered"
             w == Search(at, request, NoMatch, Len(bound))
  <1>1. matcher' = [matcher EXCEPT ![m] = w]
    BY DEF CacheMiss
  <1>2. Len(bound) \in Nat
    BY BoundLen
  <1>3. at \in {"handler", "static", "answered"}
    OBVIOUS
  <1>4. at \in {"idle"} \cup Walking \cup Answering
    BY <1>3 DEF Answering, Walking, Kinds
  <1>7. /\ w \in MatcherRecord /\ w.at = at /\ w.request = request /\ w.answer = NoMatch
        /\ w.asOf = Len(bound) /\ w.node = <<>> /\ w.snapshot = <<>>
    <2> HIDE DEF at
    <2>1. request \in Requests \cup {None} /\ NoMatch \in Answer
      BY NoAnswer
    <2> QED
      BY <1>2, <1>4, <2>1, SearchRecord
  <1> HIDE DEF w
  <1>8. found => OnTheWay(w, Segs[request])
    BY <1>7, SegsType, OnTheWayFirst
  <1>9. AnswerFitsRoute(request, NoMatch)
    BY NoAnswer DEF AnswerFitsRoute
  <1>10. found <=> at \in Walking
    BY DEF Walking, Kinds
  <1>11. at \notin Storing /\ at # "evict" /\ at # "idle"
    BY <1>3 DEF Storing
  <1> HIDE DEF at
  <1>12. MatcherOK(w, DOMAIN nodes, Len(bound))
    BY <1>2, <1>7, <1>8, <1>9, <1>10, <1>11, NoAnswer DEF MatcherOK
  <1>13. MapOK(w.snapshot, Len(bound))
    BY <1>7, NoMap
  <1>14. /\ nodes' = nodes /\ bound' = bound /\ enabled' = enabled /\ entries' = entries
         /\ MapOK(entries, Len(bound)) /\ matcher \in [Matchers -> MatcherRecord]
    BY DEF CacheMiss, cacheVars, MatchInv
  <1>15. MatchInv'
    BY <1>1, <1>7, <1>12, <1>13, <1>14, MatchOne
  <1>16. matcher'[m] = w
    BY <1>1, <1>14
  <1>17. w.at = "answered" => ~found
    BY <1>7, <1>10 DEF Walking, Kinds
  <1> QED
    BY <1>1, <1>3, <1>7, <1>15, <1>16, <1>17

(* What a search is after it looked for a child.                           *)
Went(w, at, node, params) ==
    [at |-> at, request |-> w.request, node |-> node,
     answer |-> [handler |-> w.answer.handler, wrapped |-> w.answer.wrapped, params |-> params],
     asOf |-> w.asOf, snapshot |-> w.snapshot]
Child(w, kind) == Append(w.node, ChildEdge(kind, Segs[w.request][Len(w.node) + 1]))
Found(w, kind) ==
    Went(w, IF kind = "wild" \/ Len(w.node) + 1 = Len(Segs[w.request]) THEN "handler" ELSE "static",
         Child(w, kind),
         Noted(w.answer.params, Taken(kind, Child(w, kind), Segs[w.request], Len(w.node) + 1)))
Missed(w, kind) ==
    Went(w, IF kind = "wild" THEN "answered" ELSE NextKind(kind), w.node,
         IF kind = "wild" THEN <<>> ELSE w.answer.params)

LEMMA WentType ==
    ASSUME NEW w \in MatcherRecord, NEW at \in {"idle"} \cup Walking \cup Answering,
           NEW node \in Seq(Labels), NEW params \in Seq(Param)
    PROVE  /\ Went(w, at, node, params) \in MatcherRecord
           /\ Went(w, at, node, params).at = at /\ Went(w, at, node, params).node = node
           /\ Went(w, at, node, params).request = w.request
           /\ Went(w, at, node, params).asOf = w.asOf
           /\ Went(w, at, node, params).snapshot = w.snapshot
           /\ Went(w, at, node, params).answer.params = params
           /\ Went(w, at, node, params).answer.handler = w.answer.handler
  BY DEF Went, MatcherRecord, Answer

LEMMA WalkSteps ==
    ASSUME matcher \in [Matchers -> MatcherRecord], NEW m \in Matchers, NEW kind \in Kinds, Walk(m, kind)
    PROVE  /\ matcher[m].at = kind /\ UNCHANGED <<nodes, adder, bound, cacheVars>>
           /\ \/ /\ Child(matcher[m], kind) \in DOMAIN nodes
                 /\ matcher' = [matcher EXCEPT ![m] = Found(matcher[m], kind)]
              \/ /\ Child(matcher[m], kind) \notin DOMAIN nodes
                 /\ matcher' = [matcher EXCEPT ![m] = Missed(matcher[m], kind)]
  <1> DEFINE w == matcher[m]
             segs == Segs[w.request]
             i == Len(w.node) + 1
             child == Append(w.node, ChildEdge(kind, segs[i]))
             found == IF kind = "wild" \/ i = Len(segs) THEN "handler" ELSE "static"
             more == Noted(w.answer.params, Taken(kind, child, segs, i))
             next == IF kind = "wild" THEN "answered" ELSE NextKind(kind)
             less == IF kind = "wild" THEN <<>> ELSE w.answer.params
  <1>1. /\ w.at = kind /\ UNCHANGED <<nodes, adder, bound, cacheVars>>
        /\ IF child \in DOMAIN nodes
           THEN matcher' = [matcher EXCEPT ![m].node = child, ![m].at = found, ![m].answer.params = more]
           ELSE matcher' = [matcher EXCEPT ![m].at = next, ![m].answer.params = less]
    BY DEF Walk
  <1>2. w \in MatcherRecord
    OBVIOUS
  <1>5. /\ child = Child(w, kind) /\ Found(w, kind) = Went(w, found, child, more)
        /\ Missed(w, kind) = Went(w, next, w.node, less)
    BY DEF Child, Found, Missed
  <1> HIDE DEF child, found, more, next, less, segs
  <1>3. CASE child \in DOMAIN nodes
    <2>1. matcher' = [matcher EXCEPT ![m].node = child, ![m].at = found, ![m].answer.params = more]
      BY <1>1, <1>3
    <2>2. matcher'[m] = Went(w, found, child, more)
      BY <1>2, <2>1 DEF MatcherRecord, Answer, Went
    <2>3. matcher' = [matcher EXCEPT ![m] = matcher'[m]]
      BY <2>1
    <2> QED
      BY <1>1, <1>3, <1>5, <2>2, <2>3
  <1>4. CASE child \notin DOMAIN nodes
    <2>1. matcher' = [matcher EXCEPT ![m].at = next, ![m].answer.params = less]
      BY <1>1, <1>4
    <2>2. matcher'[m] = Went(w, next, w.node, less)
      BY <1>2, <2>1 DEF MatcherRecord, Answer, Went
    <2>3. matcher' = [matcher EXCEPT ![m] = matcher'[m]]
      BY <2>1
    <2> QED
      BY <1>1, <1>4, <1>5, <2>2, <2>3
  <1> QED
    BY <1>3, <1>4

(* The edge a search looks for fits the segment it has come to.            *)
LEMMA EdgeToChild ==
    ASSUME NEW kind \in Kinds, NEW seg \in STRING
    PROVE  /\ ChildEdge(kind, seg) \in Labels /\ ChildEdge(kind, seg)[1] = kind
           /\ ChildEdge(kind, seg) = <<"wild">> <=> kind = "wild"
           /\ FitsAt(ChildEdge(kind, seg), seg)
  <1>1. CASE kind = "static"
    <2>1. ChildEdge(kind, seg) = <<"static", seg>>
      BY <1>1 DEF ChildEdge
    <2>2. <<"static", seg>> # <<"wild">>
      <3>1. <<"static", seg>>[1] # <<"wild">>[1]
        OBVIOUS
      <3> QED
        BY <3>1
    <2> QED
      BY <1>1, <2>1, <2>2 DEF Labels, FitsAt
  <1>2. CASE kind = "param"
    <2>1. ChildEdge(kind, seg) = <<"param">> /\ <<"param">> # <<"wild">>
      BY <1>2 DEF ChildEdge
    <2> QED
      BY <1>2, <2>1 DEF Labels, FitsAt
  <1>3. CASE kind = "wild"
    <2>1. ChildEdge(kind, seg) = <<"wild">>
      BY <1>3 DEF ChildEdge
    <2> QED
      BY <1>3, <2>1 DEF Labels, FitsAt
  <1> QED
    BY <1>1, <1>2, <1>3 DEF Kinds

LEMMA FitsChild ==
    ASSUME NEW n \in Seq(Labels), NEW e \in Labels, NEW segs, FitsUpTo(n, segs, Len(n)),
           FitsAt(e, segs[Len(n) + 1])
    PROVE  FitsUpTo(Append(n, e), segs, Len(Append(n, e)))
  <1>1. /\ Len(Append(n, e)) = Len(n) + 1 /\ \A i \in 1..Len(n) : Append(n, e)[i] = n[i]
        /\ Append(n, e)[Len(n) + 1] = e /\ Len(n) \in Nat
    BY AppendType
  <1>2. \A i \in 1..(Len(n) + 1) : i \in 1..Len(n) \/ i = Len(n) + 1
    BY <1>1
  <1> QED
    BY <1>1, <1>2 DEF FitsUpTo, FitsAt

(* What a search takes with the edge to a child.                           *)
LEMMA TookChild ==
    ASSUME TrieInv, NEW n \in DOMAIN nodes, NEW segs \in Seq(STRING), Len(n) < Len(segs),
           NEW params \in Seq(Param), Took(n, segs, params), NEW kind \in Kinds,
           NEW c \in DOMAIN nodes, c = Append(n, ChildEdge(kind, segs[Len(n) + 1]))
    PROVE  LET more == Noted(params, Taken(kind, c, segs, Len(n) + 1))
           IN  more \in Seq(Param) /\ Took(c, segs, more)
  <1> DEFINE i == Len(n) + 1
             e == ChildEdge(kind, segs[i])
             p == [key |-> nodes[c].name, value |-> <<segs[i]>>]
             q == [key |-> "*", value |-> SubSeq(segs, i, Len(segs))]
  <1>1. n \in Seq(Labels) /\ Len(n) \in Nat /\ Len(segs) \in Nat /\ nodes[c] \in NodeRecord
    BY DEF TrieInv, Tree
  <1>2. i \in 1..Len(segs) /\ segs[i] \in STRING
    BY <1>1
  <1>3. e \in Labels /\ e[1] = kind /\ (e = <<"wild">> <=> kind = "wild")
    BY <1>2, EdgeToChild
  <1>4. <<segs[i]>> \in Seq(STRING) /\ SubSeq(segs, i, Len(segs)) \in Seq(STRING)
    BY <1>2
  <1>5. nodes[c].name \in Keys /\ "*" \in Keys
    BY <1>1 DEF NodeRecord, Keys, Words
  <1>6. p \in Param /\ p.value = <<segs[i]>> /\ q \in Param /\ q.value = SubSeq(segs, i, Len(segs)) /\ q.key = "*"
    BY <1>4, <1>5 DEF Param
  <1> HIDE DEF p, q, e
  <1>7. CASE kind = "static"
    <2>1. Noted(params, Taken(kind, c, segs, i)) = params
      BY <1>7, NotedType DEF Taken
    <2>2. Took(Append(n, e), segs, params)
      BY <1>1, <1>3, <1>7, TookStatic
    <2> QED
      BY <2>1, <2>2 DEF e
  <1>8. CASE kind = "param"
    <2>1. Taken(kind, c, segs, i) = <<p>>
      BY <1>8 DEF Taken, p
    <2>2. Took(Append(n, e), segs, Noted(params, <<p>>))
      BY <1>1, <1>3, <1>6, <1>8, TookOne
    <2>3. Noted(params, <<p>>) \in Seq(Param)
      BY <1>6, NotedType
    <2> QED
      BY <2>1, <2>2, <2>3 DEF e
  <1>9. CASE kind = "wild"
    <2>1. Taken(kind, c, segs, i) = <<q>>
      BY <1>9 DEF Taken, q
    <2>2. Took(Append(n, e), segs, Noted(params, <<q>>))
      BY <1>1, <1>3, <1>6, <1>9, TookOne
    <2>3. Noted(params, <<q>>) \in Seq(Param)
      BY <1>6, NotedType
    <2> QED
      BY <2>1, <2>2, <2>3 DEF e
  <1> QED
    BY <1>7, <1>8, <1>9 DEF Kinds

(* A search under way.                                                     *)
LEMMA SearchFacts ==
    ASSUME TrieInv, MatchInv, NEW m \in Matchers, matcher[m].at \in Walking
    PROVE  LET w == matcher[m]
               segs == Segs[w.request]
           IN  /\ w \in MatcherRecord /\ w.asOf \in Nat /\ w.asOf <= Len(bound)
               /\ w.request \in Requests /\ w.request.method = Method /\ w.request.path # <<>>
               /\ w.node \in DOMAIN nodes /\ w.node \in Seq(Labels) /\ Straight(w.node)
               /\ w.answer.handler = None /\ w.answer.params \in Seq(Param)
               /\ segs \in Seq(STRING) /\ Len(segs) \in Nat /\ Len(w.node) \in Nat
               /\ FitsUpTo(w.node, segs, Len(w.node)) /\ Took(w.node, segs, w.answer.params)
               /\ w.at \in Kinds => Len(w.node) < Len(segs) /\ ~IsWildcard(w.node)
               /\ w.at = "handler" =>
                      Len(w.node) = Len(segs) \/ (IsWildcard(w.node) /\ Len(w.node) <= Len(segs))
               /\ MapOK(w.snapshot, Len(bound)) /\ MapOK(entries, Len(bound))
  <1> DEFINE w == matcher[m]
  <1>1. /\ w \in MatcherRecord /\ MatcherOK(w, DOMAIN nodes, Len(bound)) /\ MapOK(w.snapshot, Len(bound))
        /\ MapOK(entries, Len(bound))
    BY DEF MatchInv
  <1>2. w.asOf \in Nat /\ w.answer.params \in Seq(Param)
    BY <1>1 DEF MatcherRecord, Answer
  <1>3. w.at # "idle"
    BY DEF Walking, Kinds
  <1>4. /\ w.request \in Requests /\ w.request.method = Method /\ w.request.path # <<>>
        /\ w.node \in DOMAIN nodes /\ w.answer.handler = None /\ OnTheWay(w, Segs[w.request])
        /\ w.asOf <= Len(bound)
    BY <1>1, <1>3 DEF MatcherOK
  <1>5. w.node \in Seq(Labels) /\ Straight(w.node)
    BY <1>4 DEF TrieInv, Tree
  <1>6. Segs[w.request] \in Seq(STRING)
    BY <1>4, SegsType
  <1>7. Len(Segs[w.request]) \in Nat /\ Len(w.node) \in Nat
    BY <1>5, <1>6
  <1> HIDE DEF w
  <1>8. QED
    BY <1>1, <1>2, <1>4, <1>5, <1>6, <1>7 DEF OnTheWay, w

LEMMA MatchWalk ==
    ASSUME TrieInv, MatchInv, NEW m \in Matchers, NEW kind \in Kinds, Walk(m, kind)
    PROVE  /\ MatchInv'
           /\ matcher'[m].at # "idle" /\ matcher'[m].request = matcher[m].request
           /\ matcher'[m].asOf = matcher[m].asOf /\ matcher'[m].snapshot = matcher[m].snapshot
           /\ matcher'[m].at # "insert" /\ matcher'[m].at # "evict"
           /\ \A k \in Matchers \ {m} : matcher'[k] = matcher[k]
           /\ \/ /\ Child(matcher[m], kind) \in DOMAIN nodes
                 /\ matcher'[m].node = Child(matcher[m], kind)
                 /\ matcher'[m].at \in {"handler", "static"}
              \/ /\ Child(matcher[m], kind) \notin DOMAIN nodes
                 /\ matcher'[m].node = matcher[m].node
                 /\ kind = "wild" /\ matcher'[m].at = "answered" /\ matcher'[m].answer.handler = None
              \/ /\ Child(matcher[m], kind) \notin DOMAIN nodes
                 /\ matcher'[m].node = matcher[m].node
                 /\ kind # "wild" /\ matcher'[m].at = NextKind(kind) /\ NextKind(kind) \in Kinds
  <1> DEFINE w == matcher[m]
             segs == Segs[w.request]
             i == Len(w.node) + 1
             e == ChildEdge(kind, segs[i])
             N == DOMAIN nodes
  <1>1. /\ w.at = kind /\ UNCHANGED <<nodes, adder, bound, cacheVars>>
        /\ \/ Child(w, kind) \in N /\ matcher' = [matcher EXCEPT ![m] = Found(w, kind)]
           \/ Child(w, kind) \notin N /\ matcher' = [matcher EXCEPT ![m] = Missed(w, kind)]
    BY WalkSteps DEF MatchInv
  <1>2. w.at \in Walking /\ w.at \in Kinds
    BY <1>1 DEF Walking
  <1>3. /\ w \in MatcherRecord /\ w.asOf \in Nat /\ w.asOf <= Len(bound)
        /\ w.request \in Requests /\ w.request.method = Method /\ w.request.path # <<>>
        /\ w.node \in N /\ w.node \in Seq(Labels) /\ Straight(w.node)
        /\ w.answer.handler = None /\ w.answer.params \in Seq(Param)
        /\ segs \in Seq(STRING) /\ Len(segs) \in Nat /\ Len(w.node) \in Nat
        /\ FitsUpTo(w.node, segs, Len(w.node)) /\ Took(w.node, segs, w.answer.params)
        /\ Len(w.node) < Len(segs) /\ ~IsWildcard(w.node)
        /\ MapOK(w.snapshot, Len(bound)) /\ MapOK(entries, Len(bound))
    BY <1>2, SearchFacts
  <1>4. i \in 1..Len(segs) /\ segs[i] \in STRING
    BY <1>3
  <1>5. e \in Labels /\ e[1] = kind /\ (e = <<"wild">> <=> kind = "wild") /\ FitsAt(e, segs[i])
    BY <1>4, EdgeToChild
  <1>6. Child(w, kind) = Append(w.node, e)
    BY DEF Child
  <1>7. /\ Child(w, kind) \in Seq(Labels) /\ Len(Child(w, kind)) = i
        /\ Last(Child(w, kind)) = e /\ Child(w, kind) # <<>>
    <2> HIDE DEF e
    <2>1. w.node \in Seq(Labels) /\ e \in Labels
      BY <1>3, <1>5
    <2>2. /\ Append(w.node, e) \in Seq(Labels) /\ Len(Append(w.node, e)) = i
          /\ Last(Append(w.node, e)) = e /\ Append(w.node, e) # <<>>
      BY <2>1, AppendType
    <2> QED
      BY <1>6, <2>2
  <1>8. matcher \in [Matchers -> MatcherRecord] /\ enabled' = enabled /\ entries' = entries /\ nodes' = nodes
        /\ bound' = bound
    BY <1>1 DEF MatchInv, cacheVars
  <1>9. CASE Child(w, kind) \in N /\ matcher' = [matcher EXCEPT ![m] = Found(w, kind)]
    <2> DEFINE c == Child(w, kind)
               more == Noted(w.answer.params, Taken(kind, c, segs, i))
               at == IF kind = "wild" \/ i = Len(segs) THEN "handler" ELSE "static"
               x == Found(w, kind)
    <2>1. more \in Seq(Param) /\ Took(c, segs, more)
      BY <1>3, <1>6, <1>9, TookChild
    <2>2. FitsUpTo(c, segs, Len(c))
      BY <1>3, <1>5, <1>6, FitsChild
    <2>3. at \in {"handler", "static"} /\ at \in {"idle"} \cup Walking \cup Answering
      BY DEF Walking, Kinds
    <2>4. x = Went(w, at, c, more)
      BY DEF Found
    <2>5. IsWildcard(c) <=> kind = "wild"
      BY <1>5, <1>7 DEF IsWildcard
    <2>6. at = "static" => i < Len(segs) /\ kind # "wild"
      <3>1. i < Len(segs) \/ i = Len(segs)
        <4>1. Len(segs) \in Nat
          BY <1>3
        <4> HIDE DEF i, segs
        <4> QED
          BY <1>4, <4>1
      <3> QED
        BY <3>1
    <2>7. at = "handler" => i = Len(segs) \/ (kind = "wild" /\ i <= Len(segs))
      BY <1>3
    <2> HIDE DEF at, c, more, x
    <2>8. /\ x \in MatcherRecord /\ x.at = at /\ x.node = c /\ x.request = w.request /\ x.asOf = w.asOf
          /\ x.snapshot = w.snapshot /\ x.answer.params = more /\ x.answer.handler = w.answer.handler
      BY <1>3, <1>7, <2>1, <2>3, <2>4, WentType DEF c
    <2>9. OnTheWay(x, segs)
      BY <1>7, <2>1, <2>2, <2>3, <2>5, <2>6, <2>7, <2>8 DEF OnTheWay, Kinds, c
    <2>10. x.at \notin Storing /\ x.at \notin {"answered", "evict", "idle", "insert"}
      BY <2>3, <2>8 DEF Storing
    <2>11. MatcherOK(x, N, Len(bound))
      BY <1>3, <1>9, <2>8, <2>9, <2>10 DEF MatcherOK, c
    <2>12. matcher' = [matcher EXCEPT ![m] = x]
      BY <1>9 DEF x
    <2>13. MatchInv'
      BY <1>3, <1>8, <2>8, <2>11, <2>12, MatchOne
    <2>14. matcher'[m] = x /\ \A k \in Matchers \ {m} : matcher'[k] = matcher[k]
      BY <1>8, <2>12
    <2> QED
      BY <1>9, <2>3, <2>8, <2>10, <2>13, <2>14 DEF c
  <1>10. CASE Child(w, kind) \notin N /\ matcher' = [matcher EXCEPT ![m] = Missed(w, kind)]
    <2> DEFINE next == IF kind = "wild" THEN "answered" ELSE NextKind(kind)
               less == IF kind = "wild" THEN <<>> ELSE w.answer.params
               x == Missed(w, kind)
    <2>1. /\ kind = "wild" => next = "answered"
          /\ kind # "wild" => next = NextKind(kind) /\ NextKind(kind) \in Kinds
      BY DEF NextKind, Kinds
    <2>2. next \in {"idle"} \cup Walking \cup Answering
      BY <2>1 DEF Walking, Answering
    <2>3. less \in Seq(Param)
      BY <1>3, <<>> \in Seq(Param)
    <2>4. x = Went(w, next, w.node, less)
      BY DEF Missed
    <2>5. kind # "wild" => less = w.answer.params
      OBVIOUS
    <2> HIDE DEF next, less, x
    <2>6. /\ x \in MatcherRecord /\ x.at = next /\ x.node = w.node /\ x.request = w.request /\ x.asOf = w.asOf
          /\ x.snapshot = w.snapshot /\ x.answer.params = less /\ x.answer.handler = None
      BY <1>3, <2>2, <2>3, <2>4, WentType
    <2>7. kind # "wild" => OnTheWay(x, segs)
      BY <1>3, <2>1, <2>5, <2>6 DEF OnTheWay, Kinds
    <2>8. x.at \notin Storing /\ x.at \notin {"evict", "idle", "insert"} /\ (x.at \in Walking => kind # "wild")
      BY <2>1, <2>6 DEF Storing, Walking, Kinds
    <2>9. AnswerFitsRoute(x.request, x.answer)
      BY <2>6 DEF AnswerFitsRoute
    <2>10. MatcherOK(x, N, Len(bound))
      BY <1>3, <2>6, <2>7, <2>8, <2>9 DEF MatcherOK
    <2>11. matcher' = [matcher EXCEPT ![m] = x]
      BY <1>10 DEF x
    <2>12. MatchInv'
      BY <1>3, <1>8, <2>6, <2>10, <2>11, MatchOne
    <2>13. matcher'[m] = x /\ \A k \in Matchers \ {m} : matcher'[k] = matcher[k]
      BY <1>8, <2>11
    <2> QED
      BY <1>10, <2>1, <2>6, <2>8, <2>12, <2>13
  <1> QED
    BY <1>1, <1>9, <1>10

(* A node with a handler is the node of its route.                         *)
LEMMA NodeRoute ==
    ASSUME TrieInv, NEW n \in DOMAIN nodes, nodes[n].handler # None
    PROVE  /\ nodes[n].handler \in ValidRoutes /\ nodes[n].handler \in Routes
           /\ Edges[nodes[n].handler] = n /\ nodes[n].names = Names[nodes[n].handler]
  <1>1. HandlerOK(n, nodes[n], bound)
    BY DEF TrieInv
  <1>2. PICK i \in DOMAIN bound :
           nodes[n].handler = bound[i] /\ nodes[n].names = Names[bound[i]] /\ Edges[bound[i]] = n
    BY <1>1 DEF HandlerOK
  <1>3. bound[i] \in ValidRoutes /\ bound[i] \in Routes
    BY BoundLen
  <1> QED
    BY <1>2, <1>3

LEMMA HandlerSteps ==
    ASSUME TrieInv, MatchInv, NEW m \in Matchers, GetHandler(m)
    PROVE  LET w == matcher[m]
               x == matcher'[m]
               node == nodes[w.node]
           IN  /\ w.at = "handler" /\ matcher' = [matcher EXCEPT ![m] = x] /\ x \in MatcherRecord
               /\ x.request = w.request /\ x.node = w.node /\ x.asOf = w.asOf /\ x.snapshot = w.snapshot
               /\ x.at \in {"count", "answered"}
               /\ x.answer.handler = node.handler
               /\ node.handler # None => x.answer.params = Renamed(w.answer.params, node.names)
               /\ x.at = "count" => node.handler # None /\ ~IsWildcard(w.node)
  <1> DEFINE w == matcher[m]
             node == nodes[w.node]
             counted == enabled /\ node.handler # None /\ ~IsWildcard(w.node)
             at == IF counted /\ node.hits >= Threshold THEN "count" ELSE "answered"
             params == Renamed(w.answer.params, node.names)
             wrap == node.middleware # None
             answer == IF node.handler = None THEN NoMatch
                       ELSE [handler |-> node.handler, wrapped |-> wrap, params |-> params]
  <1>1. /\ w.at = "handler"
        /\ matcher' = [matcher EXCEPT ![m].at = at, ![m].answer = answer]
    BY DEF GetHandler
  <1>2. w.at \in Walking
    BY <1>1 DEF Walking
  <1>3. w \in MatcherRecord /\ w.node \in DOMAIN nodes /\ w.answer.params \in Seq(Param)
    BY <1>2, SearchFacts
  <1>4. node \in NodeRecord
    BY <1>3 DEF TrieInv
  <1>5. node.handler \in Routes \cup {None} /\ wrap \in BOOLEAN
    BY <1>4 DEF NodeRecord
  <1>6. ASSUME node.handler # None
        PROVE  params \in Seq(Param)
    <2>1. node.handler \in Routes /\ node.names = Names[node.handler]
      BY <1>3, <1>6, NodeRoute
    <2> QED
      BY <1>3, <2>1, RenamedType
  <1>7. /\ answer \in Answer /\ answer.handler = node.handler
        /\ node.handler # None => answer.params = params
    <2> HIDE DEF node, params, wrap
    <2> QED
      BY <1>5, <1>6, NoAnswer DEF Answer
  <1>8. at \in {"count", "answered"} /\ (at = "count" => counted)
    OBVIOUS
  <1>9. at \in {"idle"} \cup Walking \cup Answering
    BY <1>8 DEF Answering, Storing
  <1>10. matcher \in [Matchers -> MatcherRecord]
    BY DEF MatchInv
  <1> HIDE DEF at, answer, params, wrap, counted, node
  <1>11. matcher'[m] = [w EXCEPT !.at = at, !.answer = answer]
    BY <1>1, <1>10
  <1>12. matcher' = [matcher EXCEPT ![m] = matcher'[m]]
    BY <1>1, <1>10
  <1>13. /\ matcher'[m] \in MatcherRecord /\ matcher'[m].at = at /\ matcher'[m].answer = answer
         /\ matcher'[m].request = w.request /\ matcher'[m].node = w.node /\ matcher'[m].asOf = w.asOf
         /\ matcher'[m].snapshot = w.snapshot
    BY <1>3, <1>7, <1>9, <1>11 DEF MatcherRecord
  <1> QED
    BY <1>1, <1>7, <1>8, <1>12, <1>13 DEF params, counted, node

LEMMA MatchGetHandler ==
    ASSUME TrieInv, MatchInv, NEW m \in Matchers, GetHandler(m)
    PROVE  TrieInv' /\ MatchInv' /\ DOMAIN nodes' = DOMAIN nodes
  <1> DEFINE w == matcher[m]
             x == matcher'[m]
             node == nodes[w.node]
             r == node.handler
             segs == Segs[w.request]
  <1>1. /\ w.at = "handler" /\ matcher' = [matcher EXCEPT ![m] = x] /\ x \in MatcherRecord
        /\ x.request = w.request /\ x.node = w.node /\ x.asOf = w.asOf /\ x.snapshot = w.snapshot
        /\ x.at \in {"count", "answered"}
        /\ x.answer.handler = r
        /\ r # None => x.answer.params = Renamed(w.answer.params, node.names)
        /\ x.at = "count" => r # None /\ ~IsWildcard(w.node)
    BY HandlerSteps
  <1>2. w.at \in Walking
    BY <1>1 DEF Walking
  <1>3. /\ w \in MatcherRecord /\ w.asOf \in Nat /\ w.asOf <= Len(bound)
        /\ w.request \in Requests /\ w.request.method = Method
        /\ w.node \in DOMAIN nodes /\ w.node \in Seq(Labels)
        /\ w.answer.params \in Seq(Param) /\ segs \in Seq(STRING)
        /\ FitsUpTo(w.node, segs, Len(w.node)) /\ Took(w.node, segs, w.answer.params)
        /\ Len(w.node) = Len(segs) \/ (IsWildcard(w.node) /\ Len(w.node) <= Len(segs))
        /\ MapOK(w.snapshot, Len(bound)) /\ MapOK(entries, Len(bound))
    BY <1>1, <1>2, SearchFacts
  <1>4. /\ bound' = bound /\ enabled' = enabled /\ entries' = entries /\ adder' = adder
        /\ \/ nodes' = nodes
           \/ node.hits < Threshold /\ nodes' = [nodes EXCEPT ![w.node].hits = @ + 1]
    BY DEF GetHandler, cacheVars
  <1>5. TrieInv' /\ DOMAIN nodes' = DOMAIN nodes
    <2>1. CASE nodes' = nodes
      BY <1>4, <2>1, TrieSame
    <2>2. CASE node.hits < Threshold /\ nodes' = [nodes EXCEPT ![w.node].hits = @ + 1]
      BY <1>3, <1>4, <2>2, TrieHit
    <2> QED
      BY <1>4, <2>1, <2>2
  <1>6. ASSUME r # None
        PROVE  /\ AnswerFitsRoute(w.request, x.answer) /\ r \in Routes /\ Edges[r] = w.node
    <2>1. r \in ValidRoutes /\ r \in Routes /\ Edges[r] = w.node /\ node.names = Names[r]
      BY <1>3, <1>6, NodeRoute
    <2>2. Fits(r, segs)
      BY <1>3, <2>1, FitsRoute
    <2>3. ParamsFit(r, segs, Renamed(w.answer.params, Names[r]))
      BY <1>3, <2>1, RouteParams
    <2> QED
      BY <1>1, <1>3, <1>6, <2>1, <2>2, <2>3 DEF AnswerFitsRoute
  <1>7. AnswerFitsRoute(x.request, x.answer)
    BY <1>1, <1>6 DEF AnswerFitsRoute
  <1>8. x.at = "count" => Kept(x.request, x.answer)
    BY <1>1, <1>6, <1>7 DEF Kept
  <1> HIDE DEF x, w
  <1>9. MatcherOK(x, DOMAIN nodes, Len(bound))
    BY <1>1, <1>3, <1>7, <1>8 DEF MatcherOK, Walking, Kinds, Storing
  <1>10. MatchInv'
    BY <1>1, <1>3, <1>4, <1>5, <1>9, MatchOne DEF x
  <1> QED
    BY <1>5, <1>10

------------------------------------------------------------------------------
(* Storing an answer in the cache.                                         *)
LEMMA StorerFacts ==
    ASSUME TrieInv, MatchInv, NEW m \in Matchers, matcher[m].at \in Storing
    PROVE  /\ matcher[m] \in MatcherRecord /\ matcher[m].request \in Requests
           /\ Kept(matcher[m].request, matcher[m].answer) /\ matcher[m].answer \in Answer
           /\ matcher[m].asOf \in Nat /\ matcher[m].asOf <= Len(bound)
           /\ matcher[m].node \in DOMAIN nodes \cup {<<>>}
           /\ MapOK(matcher[m].snapshot, Len(bound)) /\ MapOK(entries, Len(bound))
           /\ matcher[m].at = "evict" => Len(matcher[m].snapshot) >= MaxEntries
           /\ matcher[m].at # "idle"
  <1>1. /\ matcher[m] \in MatcherRecord /\ MatcherOK(matcher[m], DOMAIN nodes, Len(bound))
        /\ MapOK(matcher[m].snapshot, Len(bound)) /\ MapOK(entries, Len(bound))
    BY DEF MatchInv
  <1>2. matcher[m].at # "idle"
    BY DEF Storing
  <1>3. matcher[m].answer \in Answer /\ matcher[m].asOf \in Nat
    BY <1>1 DEF MatcherRecord
  <1> QED
    BY <1>1, <1>2, <1>3 DEF MatcherOK

LEMMA StoringOK ==
    ASSUME TrieInv, MatchInv, NEW m \in Matchers, matcher[m].at \in Storing,
           NEW x \in MatcherRecord, x.at \in Storing \cup {"answered"},
           x.request = matcher[m].request, x.answer = matcher[m].answer, x.node = matcher[m].node,
           x.asOf = matcher[m].asOf, x.at = "evict" => Len(x.snapshot) >= MaxEntries
    PROVE  MatcherOK(x, DOMAIN nodes, Len(bound))
  <1>1. /\ matcher[m].request \in Requests /\ Kept(matcher[m].request, matcher[m].answer)
        /\ matcher[m].asOf <= Len(bound) /\ matcher[m].node \in DOMAIN nodes \cup {<<>>}
    BY StorerFacts
  <1>2. x.at \notin Walking
    BY DEF Storing, Walking, Kinds
  <1> QED
    BY <1>1, <1>2 DEF MatcherOK, Kept

LEMMA MatchStoreCounts ==
    ASSUME TrieInv, MatchInv, NEW m \in Matchers, StoreCounts(m)
    PROVE  /\ MatchInv'
           /\ LET full == count >= MaxEntries /\ Len(entries) >= MaxEntries
                  x == matcher'[m]
              IN  /\ matcher' = [matcher EXCEPT ![m] = x]
                  /\ x.at = IF full THEN "evict" ELSE "insert"
                  /\ x.snapshot = IF full THEN entries ELSE <<>>
                  /\ x.request = matcher[m].request /\ x.answer = matcher[m].answer
                  /\ x.asOf = matcher[m].asOf
  <1> DEFINE w == matcher[m]
             full == count >= MaxEntries /\ Len(entries) >= MaxEntries
             at == IF full THEN "evict" ELSE "insert"
             s == IF full THEN entries ELSE <<>>
             x == [w EXCEPT !.at = at, !.snapshot = s]
  <1>1. /\ w.at = "count" /\ matcher' = [matcher EXCEPT ![m].at = at, ![m].snapshot = s]
        /\ nodes' = nodes /\ bound' = bound /\ enabled' = enabled /\ entries' = entries
    BY DEF StoreCounts, cacheVars
  <1>2. w.at \in Storing
    BY <1>1 DEF Storing
  <1>3. w \in MatcherRecord /\ MapOK(entries, Len(bound))
    BY <1>2, StorerFacts
  <1>4. MapOK(s, Len(bound)) /\ s \in Seq(Entry)
    BY <1>3, NoMap DEF MapOK
  <1>5. at \in {"idle"} \cup Walking \cup Answering /\ at \in Storing \cup {"answered"}
    BY DEF Answering, Storing
  <1>6. at = "evict" => Len(s) >= MaxEntries
    OBVIOUS
  <1>7. matcher \in [Matchers -> MatcherRecord]
    BY DEF MatchInv
  <1> HIDE DEF s, at
  <1>8. matcher' = [matcher EXCEPT ![m] = x]
    BY <1>1, <1>3, <1>7 DEF MatcherRecord
  <1>9. /\ x \in MatcherRecord /\ x.at = at /\ x.snapshot = s /\ x.request = w.request
        /\ x.node = w.node /\ x.answer = w.answer /\ x.asOf = w.asOf
    BY <1>3, <1>4, <1>5 DEF MatcherRecord
  <1> HIDE DEF x
  <1>10. MatcherOK(x, DOMAIN nodes, Len(bound))
    BY <1>2, <1>5, <1>6, <1>9, StoringOK
  <1>11. MatchInv'
    BY <1>1, <1>3, <1>4, <1>8, <1>9, <1>10, MatchOne
  <1>12. matcher'[m] = x
    BY <1>7, <1>8
  <1> QED
    BY <1>8, <1>9, <1>11, <1>12 DEF s, at

(* The end of a map.                                                       *)
LEMMA EndOf ==
    ASSUME NEW S, NEW s \in Seq(S), NEW k \in Nat, k <= Len(s)
    PROVE  /\ SubSeq(s, k + 1, Len(s)) \in Seq(S) /\ Len(SubSeq(s, k + 1, Len(s))) = Len(s) - k
           /\ DOMAIN SubSeq(s, k + 1, Len(s)) = 1..(Len(s) - k)
           /\ \A i \in 1..(Len(s) - k) : SubSeq(s, k + 1, Len(s))[i] = s[i + k]
  <1>1. Len(s) \in Nat
    OBVIOUS
  <1>2. k + 1 \in 1..(Len(s) + 1)
    BY <1>1
  <1>3. /\ SubSeq(s, k + 1, Len(s)) \in Seq(S) /\ Len(SubSeq(s, k + 1, Len(s))) = Len(s) - k
        /\ \A i \in 1..(Len(s) - k) : SubSeq(s, k + 1, Len(s))[i] = s[i + k]
    BY <1>1, <1>2
  <1>4. DOMAIN SubSeq(s, k + 1, Len(s)) = 1..Len(SubSeq(s, k + 1, Len(s)))
    BY <1>3
  <1> QED
    BY <1>3, <1>4

LEMMA TailOf ==
    ASSUME NEW s, NEW last, MapOK(s, last), NEW k \in Nat, k <= Len(s)
    PROVE  LET t == SubSeq(s, k + 1, Len(s))
           IN  /\ MapOK(t, last) /\ Len(t) = Len(s) - k
               /\ \A i \in DOMAIN t : i + k \in DOMAIN s /\ t[i] = s[i + k]
  <1> DEFINE t == SubSeq(s, k + 1, Len(s))
  <1>1. s \in Seq(Entry) /\ Len(s) \in Nat /\ DOMAIN s = 1..Len(s)
    BY DEF MapOK
  <1>2. /\ t \in Seq(Entry) /\ Len(t) = Len(s) - k /\ DOMAIN t = 1..(Len(s) - k)
        /\ \A i \in 1..(Len(s) - k) : t[i] = s[i + k]
    BY <1>1, EndOf
  <1> HIDE DEF t
  <1>3. \A i \in DOMAIN t : i + k \in DOMAIN s /\ t[i] = s[i + k] /\ i \in Nat
    BY <1>1, <1>2
  <1>4. \A i, j \in DOMAIN s : s[i].key = s[j].key => i = j
    BY DEF MapOK
  <1>5. ASSUME NEW i \in DOMAIN t, NEW j \in DOMAIN t, t[i].key = t[j].key
        PROVE  i = j
    <2>1. i + k = j + k
      BY <1>3, <1>4, <1>5
    <2> QED
      BY <1>3, <2>1
  <1>6. \A i \in DOMAIN t : Kept(t[i].key, t[i].answer) /\ t[i].asOf <= last
    BY <1>3 DEF MapOK
  <1>7. MapOK(t, last)
    BY <1>2, <1>5, <1>6 DEF MapOK
  <1> QED
    BY <1>2, <1>3, <1>7 DEF t

LEMMA MatchEvict ==
    ASSUME TrieInv, MatchInv, NEW m \in Matchers, Evict(m)
    PROVE  /\ MatchInv'
           /\ matcher' = [matcher EXCEPT ![m] = matcher'[m]]
           /\ matcher'[m].at = "insert" /\ matcher'[m].snapshot = <<>>
           /\ matcher'[m].request = matcher[m].request /\ matcher'[m].answer = matcher[m].answer
           /\ matcher'[m].asOf = matcher[m].asOf
           /\ Len(entries') = Len(matcher[m].snapshot) - EvictCount
           /\ Len(matcher[m].snapshot) \in Nat
           /\ \A i \in DOMAIN entries' : \E j \in DOMAIN matcher[m].snapshot :
                 entries'[i] = matcher[m].snapshot[j]
  <1> DEFINE w == matcher[m]
             s == w.snapshot
             x == [w EXCEPT !.at = "insert", !.snapshot = <<>>]
  <1>1. /\ w.at = "evict" /\ matcher' = [matcher EXCEPT ![m].at = "insert", ![m].snapshot = <<>>]
        /\ nodes' = nodes /\ bound' = bound /\ enabled' = enabled
        /\ entries' = SubSeq(s, EvictCount + 1, Len(s))
    BY DEF Evict
  <1>2. w.at \in Storing
    BY <1>1 DEF Storing
  <1>3. w \in MatcherRecord /\ MapOK(s, Len(bound)) /\ Len(s) >= MaxEntries
    BY <1>1, <1>2, StorerFacts
  <1>4. EvictCount \in Nat /\ MaxEntries \in Nat /\ EvictCount <= MaxEntries
    BY RouterAssumption
  <1>5. Len(s) \in Nat
    BY <1>3 DEF MapOK
  <1>6. EvictCount <= Len(s)
    BY <1>3, <1>4, <1>5
  <1>7. /\ MapOK(entries', Len(bound)) /\ Len(entries') = Len(s) - EvictCount
        /\ \A i \in DOMAIN entries' : i + EvictCount \in DOMAIN s /\ entries'[i] = s[i + EvictCount]
    BY <1>1, <1>3, <1>4, <1>6, TailOf
  <1>8. matcher \in [Matchers -> MatcherRecord]
    BY DEF MatchInv
  <1>9. matcher' = [matcher EXCEPT ![m] = x]
    BY <1>1, <1>3, <1>8 DEF MatcherRecord
  <1>10. /\ x \in MatcherRecord /\ x.at = "insert" /\ x.snapshot = <<>> /\ x.request = w.request
         /\ x.node = w.node /\ x.answer = w.answer /\ x.asOf = w.asOf
    <2>1. "insert" \in {"idle"} \cup Walking \cup Answering /\ <<>> \in Seq(Entry)
      BY DEF Answering, Storing
    <2> QED
      BY <1>3, <2>1 DEF MatcherRecord
  <1> HIDE DEF x
  <1>11. MatcherOK(x, DOMAIN nodes, Len(bound))
    <2>1. x.at \in Storing /\ x.at # "evict"
      BY <1>10 DEF Storing
    <2> QED
      BY <1>2, <1>10, <2>1, StoringOK
  <1>12. MapOK(x.snapshot, Len(bound))
    BY <1>10, NoMap
  <1>13. MatchInv'
    BY <1>1, <1>7, <1>9, <1>10, <1>11, <1>12, MatchOne
  <1>14. matcher'[m] = x
    BY <1>8, <1>9
  <1> QED
    BY <1>5, <1>7, <1>9, <1>10, <1>13, <1>14

(* The map without the entry of a request.                                 *)
LEMMA OthersMap ==
    ASSUME MatchInv, NEW request \in Requests, Len(bound) \in Nat
    PROVE  /\ MapOK(Others(request), Len(bound)) /\ Len(Others(request)) <= Len(entries)
           /\ Len(Others(request)) \in Nat /\ Len(entries) \in Nat
           /\ \A i \in DOMAIN Others(request) :
                 /\ Others(request)[i].key # request
                 /\ \E j \in DOMAIN entries : Others(request)[i] = entries[j]
  <1>1. MapOK(entries, Len(bound))
    BY DEF MatchInv
  <1>2. /\ entries \in Seq(Entry) /\ Len(entries) \in Nat /\ DOMAIN entries = 1..Len(entries)
        /\ \A i, j \in DOMAIN entries : entries[i].key = entries[j].key => i = j
        /\ \A i \in DOMAIN entries : Kept(entries[i].key, entries[i].answer) /\ entries[i].asOf <= Len(bound)
    BY <1>1 DEF MapOK
  <1>3. CASE Cached(request) = {}
    <2>1. Others(request) = entries
      BY <1>3 DEF Others
    <2>2. \A i \in DOMAIN entries : entries[i].key # request
      BY <1>3 DEF Cached
    <2> QED
      BY <1>1, <1>2, <2>1, <2>2
  <1>4. CASE Cached(request) # {}
    <2> DEFINE c == CHOOSE i \in Cached(request) : TRUE
               t == Others(request)
               from(i) == IF i < c THEN i ELSE i + 1
    <2>1. c \in DOMAIN entries /\ entries[c].key = request
      BY <1>4 DEF Cached
    <2>2. t = SubSeq(entries, 1, c - 1) \o SubSeq(entries, c + 1, Len(entries))
      BY <1>4 DEF Others, RemoveAt
    <2> HIDE DEF c, t
    <2>3. c \in 1..Len(entries)
      BY <1>2, <2>1
    <2>4. /\ SubSeq(entries, 1, c - 1) \in Seq(Entry) /\ Len(SubSeq(entries, 1, c - 1)) = c - 1
          /\ \A i \in 1..(c - 1) : SubSeq(entries, 1, c - 1)[i] = entries[i]
      BY <1>2, <2>3
    <2>5. /\ SubSeq(entries, c + 1, Len(entries)) \in Seq(Entry)
          /\ Len(SubSeq(entries, c + 1, Len(entries))) = Len(entries) - c
          /\ \A i \in 1..(Len(entries) - c) :
                SubSeq(entries, c + 1, Len(entries))[i] = entries[i + c]
      <3>1. c \in Nat /\ c <= Len(entries) /\ entries \in Seq(Entry)
        BY <1>2, <2>3
      <3> HIDE DEF from
      <3> QED
        BY <3>1, EndOf
    <2>6. t \in Seq(Entry) /\ Len(t) = Len(entries) - 1
      <3>1. (c - 1) + (Len(entries) - c) = Len(entries) - 1
        BY <1>2, <2>3
      <3>2. \A u, v \in Seq(Entry) : u \o v \in Seq(Entry) /\ Len(u \o v) = Len(u) + Len(v)
        OBVIOUS
      <3> QED
        BY <2>2, <2>4, <2>5, <3>1, <3>2
    <2>7. DOMAIN t = 1..(Len(entries) - 1)
      BY <2>6
    <2>8. ASSUME NEW i \in 1..(Len(entries) - 1)
          PROVE  t[i] = entries[from(i)] /\ from(i) \in DOMAIN entries /\ from(i) # c
      <3>1. CASE i < c
        <4>1. i \in 1..(c - 1)
          BY <1>2, <2>3, <3>1
        <4>2. t[i] = SubSeq(entries, 1, c - 1)[i]
          BY <2>2, <2>4, <2>5, <4>1
        <4> QED
          BY <1>2, <2>4, <3>1, <4>1, <4>2
      <3>2. CASE ~(i < c)
        <4>1. i - (c - 1) \in 1..(Len(entries) - c) /\ (i - (c - 1)) + c = i + 1
          BY <1>2, <2>3, <3>2
        <4>2. t[i] = SubSeq(entries, c + 1, Len(entries))[i - (c - 1)]
          <5>1. \A u, v \in Seq(Entry) : \A k \in (Len(u) + 1)..(Len(u) + Len(v)) :
                   (u \o v)[k] = v[k - Len(u)]
            OBVIOUS
          <5>2. i \in ((c - 1) + 1)..((c - 1) + (Len(entries) - c))
            BY <1>2, <2>3, <3>2
          <5>3. PICK u \in Seq(Entry) : u = SubSeq(entries, 1, c - 1) /\ Len(u) = c - 1
            BY <2>4
          <5>4. PICK v \in Seq(Entry) : v = SubSeq(entries, c + 1, Len(entries)) /\ Len(v) = Len(entries) - c
            BY <2>5
          <5>6. i \in (Len(u) + 1)..(Len(u) + Len(v))
            BY <5>2, <5>3, <5>4
          <5>7. (u \o v)[i] = v[i - Len(u)]
            BY <5>1, <5>6
          <5>5. (u \o v)[i] = v[i - (c - 1)]
            BY <5>3, <5>7
          <5> QED
            BY <2>2, <5>3, <5>4, <5>5
        <4>3. t[i] = entries[i + 1]
          BY <2>5, <4>1, <4>2
        <4>4. i + 1 \in 1..Len(entries) /\ i + 1 # c
          BY <1>2, <2>3, <3>2
        <4> QED
          BY <1>2, <3>2, <4>3, <4>4
      <3> QED
        BY <3>1, <3>2
    <2>9. \A i, j \in 1..(Len(entries) - 1) : from(i) = from(j) => i = j
      BY <1>2, <2>3
    <2> HIDE DEF from
    <2>10. \A i \in DOMAIN t : t[i].key # request
      BY <1>2, <2>1, <2>7, <2>8
    <2>11. \A i, j \in DOMAIN t : t[i].key = t[j].key => i = j
      BY <1>2, <2>7, <2>8, <2>9
    <2>12. \A i \in DOMAIN t : \E j \in DOMAIN entries : t[i] = entries[j]
      BY <2>7, <2>8
    <2>13. MapOK(t, Len(bound))
      BY <1>2, <2>6, <2>11, <2>12 DEF MapOK
    <2>14. Len(t) <= Len(entries) /\ Len(t) \in Nat
      BY <1>2, <2>3, <2>6
    <2> QED
      BY <1>2, <2>10, <2>12, <2>13, <2>14 DEF t
  <1> QED
    BY <1>3, <1>4

LEMMA MatchStoreInserts ==
    ASSUME TrieInv, MatchInv, NEW m \in Matchers, StoreInserts(m)
    PROVE  /\ MatchInv'
           /\ matcher' = [matcher EXCEPT ![m] = matcher'[m]]
           /\ matcher'[m].at = "answered" /\ matcher'[m].snapshot = matcher[m].snapshot
           /\ matcher'[m].request = matcher[m].request /\ matcher'[m].answer = matcher[m].answer
           /\ matcher'[m].asOf = matcher[m].asOf
           /\ Len(entries') <= Len(entries) + 1 /\ Len(entries') \in Nat /\ Len(entries) \in Nat
           /\ \A i \in DOMAIN entries' :
                 \/ \E j \in DOMAIN entries : entries'[i] = entries[j]
                 \/ entries'[i] = [key |-> matcher[m].request, answer |-> matcher[m].answer,
                                   asOf |-> matcher[m].asOf]
  <1> DEFINE w == matcher[m]
             entry == [key |-> w.request, answer |-> w.answer, asOf |-> w.asOf]
             others == Others(w.request)
             x == [w EXCEPT !.at = "answered"]
  <1>1. /\ w.at = "insert" /\ matcher' = [matcher EXCEPT ![m].at = "answered"]
        /\ nodes' = nodes /\ bound' = bound /\ enabled' = enabled
        /\ entries' = Append(others, entry)
    BY DEF StoreInserts
  <1>2. w.at \in Storing
    BY <1>1 DEF Storing
  <1>3. /\ w \in MatcherRecord /\ w.request \in Requests /\ Kept(w.request, w.answer) /\ w.answer \in Answer
        /\ w.asOf \in Nat /\ w.asOf <= Len(bound) /\ MapOK(w.snapshot, Len(bound))
    BY <1>2, StorerFacts
  <1>4. /\ MapOK(others, Len(bound)) /\ Len(others) <= Len(entries)
        /\ Len(others) \in Nat /\ Len(entries) \in Nat
        /\ \A i \in DOMAIN others :
              others[i].key # w.request /\ \E j \in DOMAIN entries : others[i] = entries[j]
    BY <1>3, BoundLen, OthersMap
  <1>5. /\ entry \in Entry /\ entry.key = w.request /\ entry.answer = w.answer /\ entry.asOf = w.asOf
    BY <1>3 DEF Entry
  <1>6. others \in Seq(Entry)
    BY <1>4 DEF MapOK
  <1> HIDE DEF entry, others
  <1>7. /\ entries' \in Seq(Entry) /\ Len(entries') = Len(others) + 1
        /\ \A i \in 1..Len(others) : entries'[i] = others[i] /\ i \in DOMAIN others
        /\ entries'[Len(others) + 1] = entry
    BY <1>1, <1>5, <1>6, AppendType
  <1>8. DOMAIN entries' = 1..(Len(others) + 1)
    BY <1>7
  <1>9. \A i \in DOMAIN entries' : i \in 1..Len(others) \/ i = Len(others) + 1
    BY <1>4, <1>8
  <1>10. MapOK(entries', Len(bound))
    <2>1. ASSUME NEW i \in DOMAIN entries', NEW j \in DOMAIN entries', entries'[i].key = entries'[j].key
          PROVE  i = j
      <3>1. CASE i \in 1..Len(others) /\ j \in 1..Len(others)
        BY <1>4, <1>7, <2>1, <3>1 DEF MapOK
      <3>2. CASE i = Len(others) + 1 /\ j \in 1..Len(others)
        BY <1>4, <1>5, <1>7, <2>1, <3>2
      <3>3. CASE i \in 1..Len(others) /\ j = Len(others) + 1
        BY <1>4, <1>5, <1>7, <2>1, <3>3
      <3> QED
        BY <1>9, <3>1, <3>2, <3>3
    <2>2. ASSUME NEW i \in DOMAIN entries'
          PROVE  Kept(entries'[i].key, entries'[i].answer) /\ entries'[i].asOf <= Len(bound)
      <3>1. CASE i \in 1..Len(others)
        BY <1>4, <1>7, <3>1 DEF MapOK
      <3>2. CASE i = Len(others) + 1
        BY <1>3, <1>5, <1>7, <3>2
      <3> QED
        BY <1>9, <3>1, <3>2
    <2> QED
      BY <1>7, <2>1, <2>2 DEF MapOK
  <1>11. matcher \in [Matchers -> MatcherRecord]
    BY DEF MatchInv
  <1>12. matcher' = [matcher EXCEPT ![m] = x]
    BY <1>1, <1>11
  <1>13. /\ x \in MatcherRecord /\ x.at = "answered" /\ x.snapshot = w.snapshot /\ x.request = w.request
         /\ x.node = w.node /\ x.answer = w.answer /\ x.asOf = w.asOf
    <2>1. "answered" \in {"idle"} \cup Walking \cup Answering
      BY DEF Answering
    <2> QED
      BY <1>3, <2>1 DEF MatcherRecord
  <1> HIDE DEF x
  <1>14. MatcherOK(x, DOMAIN nodes, Len(bound))
    BY <1>2, <1>13, StoringOK
  <1>15. MatchInv'
    BY <1>1, <1>3, <1>10, <1>12, <1>13, <1>14, MatchOne
  <1>16. matcher'[m] = x
    BY <1>11, <1>12
  <1>17. \A i \in DOMAIN entries' :
            (\E j \in DOMAIN entries : entries'[i] = entries[j]) \/ entries'[i] = entry
    BY <1>4, <1>7, <1>9
  <1>18. Len(entries') <= Len(entries) + 1 /\ Len(entries') \in Nat
    BY <1>4, <1>7
  <1> QED
    BY <1>4, <1>12, <1>13, <1>15, <1>16, <1>17, <1>18 DEF entry

LEMMA IdleRecord == Idle \in MatcherRecord /\ Idle.at = "idle" /\ Idle.snapshot = <<>> /\ Idle.asOf = 0
  <1>1. 0 \in Nat /\ "idle" \in {"idle"} \cup Walking \cup Answering /\ None \in Requests \cup {None}
    OBVIOUS
  <1>2. NoMatch \in Answer
    BY NoAnswer
  <1> DEFINE s == Search("idle", None, NoMatch, 0)
  <1>3. s \in MatcherRecord /\ s.at = "idle" /\ s.snapshot = <<>> /\ s.asOf = 0
    BY <1>1, <1>2, SearchRecord
  <1> QED
    BY <1>3 DEF Idle

LEMMA MatchExecute ==
    ASSUME TrieInv, MatchInv, NEW m \in Matchers, Execute(m)
    PROVE  /\ MatchInv' /\ matcher' = [matcher EXCEPT ![m] = Idle]
           /\ Idle.at = "idle" /\ Idle.snapshot = <<>>
  <1>1. Idle \in MatcherRecord /\ Idle.at = "idle" /\ Idle.snapshot = <<>> /\ Idle.asOf = 0
    BY IdleRecord
  <1>2. MatcherOK(Idle, DOMAIN nodes, Len(bound))
    BY <1>1, BoundLen DEF MatcherOK, Walking, Kinds, Storing
  <1>3. MapOK(Idle.snapshot, Len(bound))
    BY <1>1, NoMap
  <1>4. /\ matcher' = [matcher EXCEPT ![m] = Idle] /\ nodes' = nodes /\ bound' = bound
        /\ enabled' = enabled /\ entries' = entries /\ MapOK(entries, Len(bound))
    BY DEF Execute, cacheVars, MatchInv
  <1>5. MatchInv'
    BY <1>1, <1>2, <1>3, <1>4, MatchOne
  <1> QED
    BY <1>1, <1>4, <1>5

LEMMA MatchInit ==
    ASSUME Init
    PROVE  MatchInv
  <1>1. /\ matcher = [m \in Matchers |-> Idle] /\ entries = <<>> /\ enabled = TRUE /\ bound = <<>>
    BY DEF Init
  <1>2. Idle \in MatcherRecord /\ Idle.at = "idle" /\ Idle.snapshot = <<>> /\ Idle.asOf = 0
    BY IdleRecord
  <1>3. MatcherOK(Idle, DOMAIN nodes, 0)
    BY <1>2 DEF MatcherOK, Walking, Kinds, Storing
  <1>4. Len(bound) = 0
    BY <1>1
  <1>5. MapOK(<<>>, 0)
    BY NoMap
  <1> QED
    BY <1>1, <1>2, <1>3, <1>4, <1>5 DEF MatchInv

------------------------------------------------------------------------------
(* The count of the shard and those who are about to store.                *)
LEMMA Inserters ==
    ASSUME NEW M
    PROVE  /\ IsFiniteSet(Matchers) /\ IsFiniteSet(Inserting(M)) /\ Inserting(M) \subseteq Matchers
           /\ Cardinality(Inserting(M)) \in Nat /\ Cardinality(Matchers) \in Nat
           /\ Cardinality(Inserting(M)) <= Cardinality(Matchers)
  <1>1. IsFiniteSet(Matchers)
    BY RouterAssumption
  <1>2. Inserting(M) \subseteq Matchers
    BY DEF Inserting
  <1> QED
    BY <1>1, <1>2, FS_Subset, FS_CardinalityType

LEMMA OneMore ==
    ASSUME NEW M \in [Matchers -> MatcherRecord], NEW m \in Matchers, NEW x, M[m].at # "insert"
    PROVE  LET K == [M EXCEPT ![m] = x] IN
           Cardinality(Inserting(K)) =
               IF x.at = "insert" THEN Cardinality(Inserting(M)) + 1 ELSE Cardinality(Inserting(M))
  <1> DEFINE K == [M EXCEPT ![m] = x]
  <1>1. \A k \in Matchers : K[k] = IF k = m THEN x ELSE M[k]
    OBVIOUS
  <1> HIDE DEF K
  <1>2. Inserting(K) = IF x.at = "insert" THEN Inserting(M) \cup {m} ELSE Inserting(M)
    BY <1>1 DEF Inserting
  <1>3. m \notin Inserting(M)
    BY DEF Inserting
  <1>4. IsFiniteSet(Inserting(M)) /\ Cardinality(Inserting(M)) \in Nat
    BY Inserters
  <1>5. Cardinality(Inserting(M) \cup {m}) = Cardinality(Inserting(M)) + 1
    BY <1>3, <1>4, FS_AddElement
  <1> QED
    BY <1>2, <1>5 DEF K

LEMMA OneLess ==
    ASSUME NEW M \in [Matchers -> MatcherRecord], NEW m \in Matchers, NEW x, M[m].at = "insert",
           x.at # "insert"
    PROVE  Cardinality(Inserting([M EXCEPT ![m] = x])) = Cardinality(Inserting(M)) - 1
  <1> DEFINE K == [M EXCEPT ![m] = x]
  <1>1. \A k \in Matchers : K[k] = IF k = m THEN x ELSE M[k]
    OBVIOUS
  <1> HIDE DEF K
  <1>2. Inserting(K) = Inserting(M) \ {m}
    BY <1>1 DEF Inserting
  <1>3. m \in Inserting(M)
    BY DEF Inserting
  <1>4. IsFiniteSet(Inserting(M)) /\ Cardinality(Inserting(M)) \in Nat
    BY Inserters
  <1>5. Cardinality(Inserting(M) \ {m}) = Cardinality(Inserting(M)) - 1
    BY <1>3, <1>4, FS_RemoveElement
  <1> QED
    BY <1>2, <1>5 DEF K

LEMMA Sizes ==
    ASSUME MatchInv, CacheInv
    PROVE  /\ Len(entries) \in Nat /\ count \in Int /\ -MaxCount <= count /\ count <= MaxCount
           /\ MaxCount \in Nat /\ MaxEntries \in Nat /\ MaxEntries >= 1
           /\ EvictCount \in Nat /\ EvictCount >= 1 /\ EvictCount <= MaxEntries
           /\ raced \in BOOLEAN /\ matcher \in [Matchers -> MatcherRecord]
  <1>1. Len(entries) \in Nat
    BY DEF MatchInv, MapOK
  <1>2. MaxCount \in Nat /\ count \in -MaxCount..MaxCount
    BY RouterAssumption DEF CacheInv
  <1>3. count \in Int /\ -MaxCount <= count /\ count <= MaxCount
    BY <1>2
  <1>4. MaxEntries \in Nat /\ MaxEntries >= 1 /\ EvictCount \in Nat /\ EvictCount >= 1 /\ EvictCount <= MaxEntries
    BY RouterAssumption
  <1> QED
    BY <1>1, <1>2, <1>3, <1>4 DEF CacheInv, MatchInv

LEMMA CacheSame ==
    ASSUME MatchInv, CacheInv, entries' = entries, count' = count, raced' = raced,
           Cardinality(Inserting(matcher')) = Cardinality(Inserting(matcher))
    PROVE  CacheInv'
  BY DEF CacheInv

(* A step of a search outside the cache.                                   *)
LEMMA CacheElsewhere ==
    ASSUME MatchInv, CacheInv, NEW m \in Matchers, NEW x, matcher' = [matcher EXCEPT ![m] = x],
           matcher[m].at # "insert", x.at # "insert", entries' = entries, count' = count, raced' = raced
    PROVE  CacheInv'
  <1>1. Cardinality(Inserting(matcher')) = Cardinality(Inserting(matcher))
    BY Sizes, OneMore
  <1> QED
    BY <1>1, CacheSame

LEMMA CacheStoreCounts ==
    ASSUME TrieInv, MatchInv, CacheInv, NEW m \in Matchers, StoreCounts(m)
    PROVE  CacheInv'
  <1> DEFINE x == matcher'[m]
             full == count >= MaxEntries /\ Len(entries) >= MaxEntries
             here == Cardinality(Inserting(matcher))
             all == Cardinality(Matchers)
  <1>1. matcher' = [matcher EXCEPT ![m] = x] /\ x.at = IF full THEN "evict" ELSE "insert"
    BY MatchStoreCounts
  <1> HIDE DEF x
  <1>2. matcher[m].at = "count" /\ entries' = entries /\ count' = count /\ raced' = raced
    BY DEF StoreCounts, cacheVars
  <1>3. CASE full
    BY <1>1, <1>2, <1>3, CacheElsewhere
  <1>4. CASE ~full
    <2>1. Cardinality(Inserting(matcher')) = here + 1
      BY <1>1, <1>2, <1>4, Sizes, OneMore
    <2>2. Cardinality(Inserting(matcher')) <= all /\ here \in Nat /\ all \in Nat
      BY Inserters
    <2>3. ~raced => Len(entries) <= count
      BY DEF CacheInv
    <2>4. ~raced => Len(entries) < MaxEntries
      BY <1>4, <2>3, Sizes
    <2>5. ~raced => Len(entries) + Cardinality(Inserting(matcher')) <= MaxEntries + all - 1
      BY <2>1, <2>2, <2>4, Sizes
    <2> QED
      BY <1>2, <2>3, <2>5 DEF CacheInv
  <1> QED
    BY <1>3, <1>4

LEMMA CacheEvict ==
    ASSUME TrieInv, MatchInv, CacheInv, NEW m \in Matchers, Evict(m)
    PROVE  CacheInv'
  <1> DEFINE x == matcher'[m]
             here == Cardinality(Inserting(matcher))
             all == Cardinality(Matchers)
  <1>1. /\ matcher' = [matcher EXCEPT ![m] = x] /\ x.at = "insert"
        /\ Len(entries') = Len(matcher[m].snapshot) - EvictCount /\ Len(matcher[m].snapshot) \in Nat
    BY MatchEvict
  <1> HIDE DEF x
  <1>2. /\ matcher[m].at = "evict" /\ count - EvictCount >= -MaxCount /\ count' = count - EvictCount
        /\ raced' = (raced \/ entries # matcher[m].snapshot)
    BY DEF Evict
  <1>3. Cardinality(Inserting(matcher')) = here + 1
    BY <1>1, <1>2, Sizes, OneMore
  <1>4. here \in Nat /\ all \in Nat
    BY Inserters
  <1>5. count' \in -MaxCount..MaxCount /\ raced' \in BOOLEAN
    BY <1>2, Sizes
  <1>6. ~raced' => Len(entries') = Len(entries) - EvictCount /\ ~raced
    BY <1>1, <1>2
  <1>7. ~raced => Len(entries) + here <= MaxEntries + all - 1 /\ Len(entries) <= count
    BY DEF CacheInv
  <1>8. /\ Len(entries) \in Nat /\ EvictCount \in Nat /\ count \in Int
        /\ EvictCount >= 1 /\ MaxEntries \in Nat
    BY Sizes
  <1> HIDE DEF here, all
  <1>9. ~raced' => Len(entries') + (here + 1) <= MaxEntries + all - 1
    BY <1>4, <1>6, <1>7, <1>8
  <1>10. ~raced' => Len(entries') <= count'
    <2>1. count' = count - EvictCount
      BY <1>2
    <2> QED
      BY <1>6, <1>7, <1>8, <2>1
  <1> QED
    BY <1>3, <1>5, <1>9, <1>10 DEF CacheInv, all

LEMMA CacheStoreInserts ==
    ASSUME TrieInv, MatchInv, CacheInv, NEW m \in Matchers, StoreInserts(m)
    PROVE  CacheInv'
  <1> DEFINE x == matcher'[m]
             here == Cardinality(Inserting(matcher))
             all == Cardinality(Matchers)
  <1>1. /\ matcher' = [matcher EXCEPT ![m] = x] /\ x.at = "answered"
        /\ Len(entries') <= Len(entries) + 1 /\ Len(entries') \in Nat
    BY MatchStoreInserts
  <1> HIDE DEF x
  <1>2. matcher[m].at = "insert" /\ count < MaxCount /\ count' = count + 1 /\ raced' = raced
    BY DEF StoreInserts
  <1>3. Cardinality(Inserting(matcher')) = here - 1
    BY <1>1, <1>2, Sizes, OneLess
  <1>4. here \in Nat /\ all \in Nat
    BY Inserters
  <1>5. count' \in -MaxCount..MaxCount /\ raced' \in BOOLEAN
    BY <1>2, Sizes
  <1>6. ~raced => Len(entries) + here <= MaxEntries + all - 1 /\ Len(entries) <= count
    BY DEF CacheInv
  <1>7. Len(entries) \in Nat /\ count \in Int /\ MaxEntries \in Nat
    BY Sizes
  <1> HIDE DEF here, all
  <1>8. ~raced' => Len(entries') + (here - 1) <= MaxEntries + all - 1
    BY <1>1, <1>2, <1>4, <1>6, <1>7
  <1>9. ~raced' => Len(entries') <= count'
    BY <1>1, <1>2, <1>6, <1>7
  <1> QED
    BY <1>3, <1>5, <1>8, <1>9 DEF CacheInv, all

LEMMA CacheClear ==
    ASSUME MatchInv, CacheInv, ClearHotCache
    PROVE  CacheInv'
  <1>1. /\ entries' = <<>> /\ count' = 0 /\ matcher' = matcher /\ raced' = raced
    BY DEF ClearHotCache
  <1>2. Len(entries') = 0
    BY <1>1
  <1>3. 0 \in -MaxCount..MaxCount
    BY Sizes
  <1>4. /\ Cardinality(Inserting(matcher)) \in Nat /\ Cardinality(Matchers) \in Nat
        /\ Cardinality(Inserting(matcher)) <= Cardinality(Matchers)
    BY Inserters
  <1>5. 0 + Cardinality(Inserting(matcher)) <= MaxEntries + Cardinality(Matchers) - 1
    BY <1>4, Sizes
  <1> QED
    BY <1>1, <1>2, <1>3, <1>5, Sizes DEF CacheInv

LEMMA CacheInit ==
    ASSUME Init
    PROVE  CacheInv
  <1>1. matcher = [m \in Matchers |-> Idle] /\ entries = <<>> /\ count = 0 /\ raced = FALSE
    BY DEF Init
  <1>2. Inserting(matcher) = {}
    BY <1>1, IdleRecord DEF Inserting
  <1>3. Cardinality(Inserting(matcher)) = 0 /\ Cardinality(Matchers) \in Nat
    BY <1>2, FS_EmptySet, Inserters
  <1>4. MaxCount \in Nat /\ MaxEntries \in Nat /\ MaxEntries >= 1
    BY RouterAssumption
  <1>5. Len(entries) = 0 /\ 0 \in -MaxCount..MaxCount
    BY <1>1, <1>4
  <1>6. Len(entries) + Cardinality(Inserting(matcher)) <= MaxEntries + Cardinality(Matchers) - 1
    BY <1>3, <1>4, <1>5
  <1>7. count \in -MaxCount..MaxCount /\ Len(entries) <= count 
    BY <1>1, <1>5
  <1>8. raced \in BOOLEAN
    BY <1>1
  <1> QED
    BY <1>6, <1>7, <1>8 DEF CacheInv

------------------------------------------------------------------------------
(* The invariant, for every step.                                          *)
LEMMA NodesOnly ==
    ASSUME Inv, TrieInv', DOMAIN nodes \subseteq DOMAIN nodes', Len(bound) <= Len(bound'),
           matcher' = matcher, UNCHANGED cacheVars
    PROVE  Inv'
  <1>1. entries' = entries /\ enabled' = enabled /\ count' = count /\ raced' = raced /\ enabled \in BOOLEAN
    BY DEF cacheVars, Inv, MatchInv
  <1>2. Len(bound) \in Nat
    BY BoundLen DEF Inv
  <1>3. Len(bound') \in Nat
    BY DEF TrieInv
  <1>4. MatchInv'
    BY <1>1, <1>2, <1>3, MatchKept DEF Inv
  <1>5. CacheInv'
    BY <1>1 DEF Inv, CacheInv
  <1> QED
    BY <1>4, <1>5 DEF Inv

LEMMA InvAdders ==
    ASSUME Inv, NEW a \in Adders, (\E r \in Routes : AddRoute(a, r)) \/ Insert(a) \/ SetHandler(a)
    PROVE  Inv'
  <1>1. Len(bound) \in Nat
    BY BoundLen DEF Inv
  <1>2. ASSUME NEW r \in Routes, AddRoute(a, r) PROVE Inv'
    <2>1. matcher' = matcher /\ bound' = bound /\ UNCHANGED cacheVars
      BY <1>2 DEF AddRoute
    <2>2. TrieInv' /\ DOMAIN nodes \subseteq DOMAIN nodes'
      BY <1>2, TrieAddRoute DEF Inv
    <2> QED
      BY <1>1, <2>1, <2>2, NodesOnly
  <1>3. CASE Insert(a)
    <2>1. matcher' = matcher /\ bound' = bound /\ UNCHANGED cacheVars
      BY <1>3 DEF Insert
    <2>2. TrieInv' /\ DOMAIN nodes \subseteq DOMAIN nodes'
      BY <1>3, TrieInsert DEF Inv
    <2> QED
      BY <1>1, <2>1, <2>2, NodesOnly
  <1>4. CASE SetHandler(a)
    <2>1. matcher' = matcher /\ UNCHANGED cacheVars
      BY <1>4 DEF SetHandler
    <2>2. TrieInv' /\ DOMAIN nodes' = DOMAIN nodes /\ bound' = Append(bound, adder[a].route)
      BY <1>4, TrieSetHandler DEF Inv
    <2>3. Len(bound') = Len(bound) + 1
      <3>1. bound \in Seq(ValidRoutes)
        BY DEF Inv, TrieInv
      <3> QED
        BY <2>2, <3>1
    <2> QED
      BY <1>1, <2>1, <2>2, <2>3, NodesOnly
  <1> QED
    BY <1>2, <1>3, <1>4

LEMMA InvSearch ==
    ASSUME Inv, NEW m \in Matchers,
           \/ \E request \in Requests : CacheHit(m, request) \/ CacheMiss(m, request)
           \/ \E kind \in Kinds : Walk(m, kind)
           \/ GetHandler(m) \/ Execute(m)
    PROVE  Inv'
  <1>1. TrieInv /\ MatchInv /\ CacheInv
    BY DEF Inv
  <1>2. matcher \in [Matchers -> MatcherRecord]
    BY <1>1 DEF MatchInv
  <1>3. ASSUME NEW request \in Requests, CacheHit(m, request) PROVE Inv'
    <2>1. MatchInv'
      BY <1>1, <1>3, MatchCacheHit
    <2>2. /\ UNCHANGED <<nodes, adder, bound, cacheVars>> /\ matcher[m].at = "idle"
          /\ \E x : matcher' = [matcher EXCEPT ![m] = x] /\ x.at = "answered"
      <3>1. PICK i \in Cached(request) :
               matcher' = [matcher EXCEPT ![m] =
                    Search("answered", request, entries[i].answer, entries[i].asOf)]
        BY <1>3 DEF CacheHit
      <3>2. Search("answered", request, entries[i].answer, entries[i].asOf).at = "answered"
        BY DEF Search
      <3>3. UNCHANGED <<nodes, adder, bound, cacheVars>> /\ matcher[m].at = "idle"
        BY <1>3 DEF CacheHit
      <3> HIDE DEF Search
      <3> QED
        BY <3>1, <3>2, <3>3
    <2>3. CacheInv'
      BY <1>1, <2>2, CacheElsewhere DEF cacheVars
    <2> QED
      BY <1>1, <2>1, <2>2, <2>3, TrieSame DEF Inv
  <1>4. ASSUME NEW request \in Requests, CacheMiss(m, request) PROVE Inv'
    <2>1. /\ MatchInv' /\ matcher' = [matcher EXCEPT ![m] = matcher'[m]]
          /\ matcher'[m].at \in {"handler", "static", "answered"}
      BY <1>1, <1>4, MatchCacheMiss
    <2>2. UNCHANGED <<nodes, adder, bound, cacheVars>> /\ matcher[m].at = "idle"
      BY <1>4 DEF CacheMiss
    <2>3. \E x : matcher' = [matcher EXCEPT ![m] = x] /\ x.at # "insert"
      BY <2>1
    <2>4. CacheInv'
      BY <1>1, <2>2, <2>3, CacheElsewhere DEF cacheVars
    <2> QED
      BY <1>1, <2>1, <2>2, <2>4, TrieSame DEF Inv
  <1>5. ASSUME NEW kind \in Kinds, Walk(m, kind) PROVE Inv'
    <2>1. MatchInv' /\ matcher'[m].at # "insert"
      BY <1>1, <1>5, MatchWalk
    <2>2. /\ matcher[m].at = kind /\ UNCHANGED <<nodes, adder, bound, cacheVars>>
          /\ \E x : matcher' = [matcher EXCEPT ![m] = x]
      BY <1>2, <1>5, WalkSteps
    <2>3. \E x : matcher' = [matcher EXCEPT ![m] = x] /\ x.at # "insert"
      BY <1>2, <2>1, <2>2
    <2>4. matcher[m].at # "insert"
      BY <2>2 DEF Kinds
    <2>5. CacheInv'
      BY <1>1, <2>2, <2>3, <2>4, CacheElsewhere DEF cacheVars
    <2> QED
      BY <1>1, <2>1, <2>2, <2>5, TrieSame DEF Inv
  <1>6. CASE GetHandler(m)
    <2>1. TrieInv' /\ MatchInv'
      BY <1>1, <1>6, MatchGetHandler
    <2>2. /\ matcher[m].at = "handler" /\ matcher' = [matcher EXCEPT ![m] = matcher'[m]]
          /\ matcher'[m].at \in {"count", "answered"}
      BY <1>1, <1>6, HandlerSteps
    <2>3. \E x : matcher' = [matcher EXCEPT ![m] = x] /\ x.at # "insert"
      BY <2>2
    <2>4. UNCHANGED cacheVars
      BY <1>6 DEF GetHandler
    <2>5. CacheInv'
      BY <1>1, <2>2, <2>3, <2>4, CacheElsewhere DEF cacheVars
    <2> QED
      BY <2>1, <2>5 DEF Inv
  <1>7. CASE Execute(m)
    <2>1. MatchInv' /\ matcher' = [matcher EXCEPT ![m] = Idle] /\ Idle.at = "idle"
      BY <1>1, <1>7, MatchExecute
    <2>2. UNCHANGED <<nodes, adder, bound, cacheVars>> /\ matcher[m].at = "answered"
      BY <1>7 DEF Execute
    <2>3. CacheInv'
      BY <1>1, <2>1, <2>2, CacheElsewhere DEF cacheVars
    <2> QED
      BY <1>1, <2>1, <2>2, <2>3, TrieSame DEF Inv
  <1> QED
    BY <1>3, <1>4, <1>5, <1>6, <1>7

LEMMA InvStore ==
    ASSUME Inv, NEW m \in Matchers, StoreCounts(m) \/ Evict(m) \/ StoreInserts(m)
    PROVE  Inv'
  <1>1. TrieInv /\ MatchInv /\ CacheInv
    BY DEF Inv
  <1>2. UNCHANGED <<nodes, adder, bound>>
    BY DEF StoreCounts, Evict, StoreInserts
  <1>3. TrieInv'
    BY <1>1, <1>2, TrieSame
  <1>4. MatchInv'
    BY <1>1, MatchStoreCounts, MatchEvict, MatchStoreInserts
  <1>5. CacheInv'
    BY <1>1, CacheStoreCounts, CacheEvict, CacheStoreInserts
  <1> QED
    BY <1>3, <1>4, <1>5 DEF Inv

LEMMA InvSwitches ==
    ASSUME Inv, EnableHotCache \/ DisableHotCache \/ ClearHotCache
    PROVE  Inv'
  <1>1. TrieInv /\ MatchInv /\ CacheInv /\ enabled \in BOOLEAN /\ Len(bound) \in Nat
    BY BoundLen DEF Inv, MatchInv
  <1>2. UNCHANGED <<nodes, adder, matcher, bound>>
    BY DEF EnableHotCache, DisableHotCache, ClearHotCache
  <1>3. TrieInv'
    BY <1>1, <1>2, TrieSame
  <1>4. CASE EnableHotCache \/ DisableHotCache
    <2>1. entries' = entries /\ count' = count /\ raced' = raced /\ enabled' \in BOOLEAN
      BY <1>4 DEF EnableHotCache, DisableHotCache
    <2>2. MatchInv'
      BY <1>1, <1>2, <2>1, MatchKept
    <2>3. CacheInv'
      BY <1>1, <1>2, <2>1 DEF CacheInv
    <2> QED
      BY <1>3, <2>2, <2>3 DEF Inv
  <1>5. CASE ClearHotCache
    <2>1. entries' = <<>> /\ enabled' = enabled
      BY <1>5 DEF ClearHotCache
    <2>2. MapOK(entries', Len(bound))
      BY <2>1, NoMap
    <2>3. MatchInv'
      BY <1>1, <1>2, <2>1, <2>2 DEF MatchInv
    <2>4. CacheInv'
      BY <1>1, <1>5, CacheClear
    <2> QED
      BY <1>3, <2>3, <2>4 DEF Inv
  <1> QED
    BY <1>4, <1>5

LEMMA InvStutter ==
    ASSUME Inv, UNCHANGED vars
    PROVE  Inv'
  <1>1. /\ nodes' = nodes /\ adder' = adder /\ matcher' = matcher /\ bound' = bound /\ entries' = entries
        /\ count' = count /\ enabled' = enabled /\ raced' = raced
    BY DEF vars, cacheVars
  <1>2. TrieInv'
    BY <1>1, TrieSame DEF Inv
  <1>3. MatchInv'
    BY <1>1 DEF Inv, MatchInv
  <1>4. CacheInv'
    BY <1>1 DEF Inv, CacheInv
  <1> QED
    BY <1>2, <1>3, <1>4 DEF Inv

LEMMA InvNext ==
    ASSUME Inv, [Next]_vars
    PROVE  Inv'
  <1>1. ASSUME NEW a \in Adders, (\E r \in Routes : AddRoute(a, r)) \/ Insert(a) \/ SetHandler(a)
        PROVE  Inv'
    BY <1>1, InvAdders
  <1>2. ASSUME NEW m \in Matchers,
               \/ \E request \in Requests : CacheHit(m, request) \/ CacheMiss(m, request)
               \/ \E kind \in Kinds : Walk(m, kind)
               \/ GetHandler(m) \/ StoreCounts(m) \/ Evict(m) \/ StoreInserts(m) \/ Execute(m)
        PROVE  Inv'
    BY <1>2, InvSearch, InvStore
  <1>3. CASE EnableHotCache \/ DisableHotCache \/ ClearHotCache
    BY <1>3, InvSwitches
  <1>4. CASE UNCHANGED vars
    BY <1>4, InvStutter
  <1> QED
    BY <1>1, <1>2, <1>3, <1>4 DEF Next

LEMMA InvInit ==
    ASSUME Init
    PROVE  Inv
  BY TrieInit, MatchInit, CacheInit DEF Inv

LEMMA InvAlways == Spec => []Inv
  <1>1. Init => Inv
    BY InvInit
  <1>2. Inv /\ [Next]_vars => Inv'
    BY InvNext
  <1> QED
    BY <1>1, <1>2, PTL DEF Spec

LEMMA InvFits ==
    ASSUME Inv
    PROVE  AnswerFits
  <1>1. ASSUME NEW m \in Matchers, matcher[m].at \in {"count", "evict", "insert", "answered"}
        PROVE  AnswerFitsRoute(matcher[m].request, matcher[m].answer)
    <2>1. MatcherOK(matcher[m], DOMAIN nodes, Len(bound))
      BY DEF Inv, MatchInv
    <2> QED
      BY <1>1, <2>1 DEF MatcherOK, Storing, Kept
  <1>2. ASSUME NEW i \in DOMAIN entries
        PROVE  /\ AnswerFitsRoute(entries[i].key, entries[i].answer)
               /\ ~IsWildcard(Edges[entries[i].answer.handler])
    BY DEF Inv, MatchInv, MapOK, Kept
  <1> QED
    BY <1>1, <1>2 DEF AnswerFits

(* Whatever AddRoute does meanwhile, an answer is the handler of a route   *)
(* the request fits, with the request's values under the route's names     *)
(* (router.go:210-289), and the cache keeps no wildcard's.                 *)
THEOREM RouterFits == Spec => []AnswerFits
  BY InvAlways, InvFits, PTL

LEMMA InvTypes ==
    ASSUME Inv
    PROVE  TypeOK
  <1>1. TrieInv /\ MatchInv /\ CacheInv
    BY DEF Inv
  <1>2. ASSUME NEW n \in DOMAIN nodes
        PROVE  /\ n = <<>> \/ Front(n) \in DOMAIN nodes
               /\ nodes[n].handler \in Routes \cup {None} /\ nodes[n].middleware \in Wrapped \cup {None}
               /\ nodes[n].hits \in 0..Threshold
    <2>1. n \in Seq(Labels) /\ nodes[n] \in NodeRecord /\ \A k \in 0..Len(n) : SubSeq(n, 1, k) \in DOMAIN nodes
      BY <1>1 DEF TrieInv, Tree
    <2>2. n # <<>> => Len(n) - 1 \in 0..Len(n)
      BY <2>1
    <2>3. n = <<>> \/ Front(n) \in DOMAIN nodes
      BY <2>1, <2>2 DEF Front
    <2> QED
      BY <2>1, <2>3 DEF NodeRecord
  <1>3. ASSUME NEW a \in Adders
        PROVE  adder[a].at \in {"idle", "insert"} /\ adder[a].route \in Routes \cup {None}
    <2>1. adder[a] \in AdderRecord
      BY <1>1 DEF TrieInv
    <2> QED
      BY <2>1 DEF AdderRecord
  <1>4. ASSUME NEW m \in Matchers
        PROVE  /\ matcher[m].at \in {"idle", "handler", "count", "evict", "insert", "answered"} \cup Kinds
               /\ matcher[m].at # "idle" =>
                      matcher[m].request \in Requests /\ matcher[m].node \in DOMAIN nodes \cup {<<>>}
    <2>1. matcher[m] \in MatcherRecord /\ MatcherOK(matcher[m], DOMAIN nodes, Len(bound))
      BY <1>1 DEF MatchInv
    <2>2. matcher[m].at \in {"idle"} \cup Walking \cup Answering
      BY <2>1 DEF MatcherRecord
    <2>3. matcher[m].at # "idle" =>
             matcher[m].at \in Walking \/ matcher[m].at = "answered" \/ matcher[m].at \in Storing
      BY <2>2 DEF Answering
    <2> QED
      BY <2>1, <2>2, <2>3 DEF MatcherOK, Walking, Answering, Storing
  <1>5. MapOK(entries, Len(bound))
    BY <1>1 DEF MatchInv
  <1>6. /\ \A i \in DOMAIN entries : entries[i].key \in Requests /\ entries[i].answer.handler \in Routes
        /\ \A i, j \in DOMAIN entries : entries[i].key = entries[j].key => i = j
    <2>1. \A i \in DOMAIN entries : entries[i] \in Entry
      BY <1>5 DEF MapOK
    <2> QED
      BY <1>5, <2>1 DEF MapOK, Kept, Entry
  <1>7. count \in -MaxCount..MaxCount /\ {enabled, raced} \subseteq BOOLEAN
    BY <1>1 DEF CacheInv, MatchInv
  <1>8. bound \in Seq(Routes)
    <2>1. bound \in Seq(ValidRoutes) /\ ValidRoutes \subseteq Routes
      BY <1>1 DEF TrieInv, ValidRoutes
    <2> QED
      BY <2>1
  <1> QED
    BY <1>2, <1>3, <1>4, <1>6, <1>7, <1>8 DEF TypeOK

LEMMA InvBounds ==
    ASSUME Inv
    PROVE  CacheBounded
  <1>1. TypeOK
    BY InvTypes
  <1>2. MatchInv /\ CacheInv
    BY DEF Inv
  <1>3. ASSUME ~raced
        PROVE  Len(entries) <= MaxEntries + Cardinality(Matchers) - 1 /\ Len(entries) <= count
    <2>1. /\ Len(entries) + Cardinality(Inserting(matcher)) <= MaxEntries + Cardinality(Matchers) - 1
          /\ Len(entries) <= count
      BY <1>2, <1>3 DEF CacheInv
    <2>2. Cardinality(Inserting(matcher)) \in Nat /\ Cardinality(Matchers) \in Nat
      BY Inserters
    <2> QED
      BY <1>2, <2>1, <2>2, Sizes
  <1> QED
    BY <1>1, <1>3 DEF CacheBounded

(* The shard keeps to its limit, give or take those who store at the same  *)
(* time, and counts no entry too few (cache.go:83-183).                    *)
THEOREM RouterBounded == Spec => []CacheBounded
  BY InvAlways, InvBounds, PTL

------------------------------------------------------------------------------
(* The way of a search and the routes that part from it.                   *)
LEMMA RankOrder ==
    ASSUME NEW e \in Labels, NEW f \in Labels, NEW seg
    PROVE  /\ Rank(e[1]) \in 1..3 /\ Rank("static") = 1
           /\ Rank(e[1]) = Rank(f[1]) => e[1] = f[1]
           /\ e[1] = f[1] /\ FitsAt(e, seg) /\ FitsAt(f, seg) => e = f
  <1>1. Rank("static") = 1 /\ Rank("param") = 2 /\ Rank("wild") = 3
    BY DEF Rank
  <1>2. e[1] \in {"static", "param", "wild"} /\ f[1] \in {"static", "param", "wild"}
    BY LabelKind DEF Kinds
  <1>3. e[1] = f[1] /\ FitsAt(e, seg) /\ FitsAt(f, seg) => e = f
    <2>1. /\ e[1] = "static" => e = <<"static", e[2]>>
          /\ e[1] = "param" => e = <<"param">>
          /\ e[1] = "wild" => e = <<"wild">>
      BY LabelKind
    <2>2. /\ f[1] = "static" => f = <<"static", f[2]>>
          /\ f[1] = "param" => f = <<"param">>
          /\ f[1] = "wild" => f = <<"wild">>
      BY LabelKind
    <2> QED
      BY <1>2, <2>1, <2>2 DEF FitsAt
  <1> QED
    BY <1>1, <1>2, <1>3

LEMMA LeastOf ==
    ASSUME NEW S, S \subseteq Nat, S # {}
    PROVE  \E x \in S : \A y \in S : x <= y
  <1>1. PICK x \in S : \A y \in S : ~(<<y, x>> \in OpToRel(<, Nat))
    BY NatLessThanWellFounded, WFMin, Zenon
  <1>2. \A y \in S : ~(y < x)
    BY <1>1 DEF OpToRel
  <1> QED
    BY <1>2

LEMMA FirstDifference ==
    ASSUME NEW c \in Seq(Labels), NEW n \in Seq(Labels)
    PROVE  \/ \A k \in DOMAIN n \cap DOMAIN c : c[k] = n[k]
           \/ \E j \in DOMAIN n \cap DOMAIN c : Agree(c, n, j) /\ c[j] # n[j]
  <1> DEFINE S == {k \in DOMAIN n \cap DOMAIN c : c[k] # n[k]}
  <1>1. DOMAIN n = 1..Len(n) /\ DOMAIN c = 1..Len(c) /\ Len(n) \in Nat /\ Len(c) \in Nat
    OBVIOUS
  <1>2. S \subseteq Nat
    BY <1>1
  <1>3. CASE S = {}
    BY <1>3
  <1>4. CASE S # {}
    <2>1. PICK j \in S : \A y \in S : j <= y
      <3> HIDE DEF S
      <3> QED
        BY <1>2, <1>4, LeastOf
    <2>2. j \in 1..Len(n) /\ j \in 1..Len(c) /\ c[j] # n[j]
      BY <1>1
    <2>3. \A k \in 1..(j - 1) : k \in DOMAIN n \cap DOMAIN c /\ ~(j <= k)
      BY <1>1, <2>2
    <2>4. \A k \in 1..(j - 1) : c[k] = n[k]
      BY <2>1, <2>3
    <2> QED
      BY <2>4 DEF Agree
  <1> QED
    BY <1>3, <1>4

(* In a trie at rest every node is on the way to a registered route.       *)
LEMMA OnAWay ==
    ASSUME TrieInv, Quiet, NEW n \in DOMAIN nodes
    PROVE  \E q \in ToSet(bound) : q \in Routes /\ Edges[q] \in Seq(Labels) /\ Begins(n, Edges[q])
  <1>1. Reached(n, bound, adder) /\ \A a \in Adders : adder[a].at # "insert"
    BY DEF TrieInv, Quiet
  <1>2. PICK i \in DOMAIN bound : Begins(n, Edges[bound[i]])
    BY <1>1 DEF Reached
  <1>3. bound[i] \in Routes /\ bound[i] \in ToSet(bound)
    BY BoundLen DEF ToSet
  <1> QED
    BY <1>2, <1>3, EdgesType

LEMMA BoundRoute ==
    ASSUME TrieInv, NEW r \in ToSet(bound)
    PROVE  /\ r \in Routes /\ Edges[r] \in Seq(Labels) /\ Edges[r] \in DOMAIN nodes /\ Straight(Edges[r])
           /\ \E i \in DOMAIN bound : r = bound[i]
  <1>1. PICK i \in DOMAIN bound : r = bound[i]
    BY DEF ToSet
  <1>2. r \in ValidRoutes /\ Edges[r] \in DOMAIN nodes
    BY <1>1, BoundLen DEF TrieInv
  <1> QED
    BY <1>1, <1>2, ValidStraight, EdgesType

(* A route that parts from the way of a search, where the request fits it, *)
(* is overtaken by a route that does not.                                  *)
LEMMA Overtaken ==
    ASSUME TrieInv, Quiet, NEW n \in DOMAIN nodes, NEW segs, FitsUpTo(n, segs, Len(n)),
           NEW r \in ToSet(bound), NoneBefore(Edges[r], n, segs),
           NEW j \in DOMAIN n \cap DOMAIN Edges[r], Agree(Edges[r], n, j), Edges[r][j] # n[j],
           FitsAt(Edges[r][j], segs[j])
    PROVE  \E q \in ToSet(bound) : Overtakes(q, r, segs)
  <1> DEFINE c == Edges[r]
  <1>1. n \in Seq(Labels) /\ c \in Seq(Labels)
    BY BoundRoute DEF TrieInv, Tree
  <1>2. /\ DOMAIN n = 1..Len(n) /\ DOMAIN c = 1..Len(c) /\ Len(n) \in Nat /\ Len(c) \in Nat
        /\ n[j] \in Labels /\ c[j] \in Labels /\ j \in Nat /\ j - 1 \in Nat
    BY <1>1
  <1>3. FitsAt(n[j], segs[j])
    BY <1>2 DEF FitsUpTo, FitsAt
  <1>4. Rank(n[j][1]) <= Rank(c[j][1])
    BY DEF NoneBefore
  <1>5. Rank(n[j][1]) # Rank(c[j][1])
    BY <1>2, <1>3, RankOrder
  <1>6. Rank(n[j][1]) < Rank(c[j][1])
    <2>1. Rank(n[j][1]) \in 1..3 /\ Rank(c[j][1]) \in 1..3
      BY <1>2, RankOrder
    <2> QED
      BY <1>4, <1>5, <2>1
  <1>7. PICK q \in ToSet(bound) : q \in Routes /\ Edges[q] \in Seq(Labels) /\ Begins(n, Edges[q])
    BY OnAWay
  <1> DEFINE e == Edges[q]
  <1>8. /\ DOMAIN e = 1..Len(e) /\ Len(e) \in Nat /\ Len(n) <= Len(e)
        /\ \A k \in 1..Len(n) : n[k] = e[k]
    BY <1>7 DEF Begins
  <1>9. j \in 1..Len(n) /\ j \in 1..Len(c)
    BY <1>2
  <1>10. j \in DOMAIN e /\ e[j] = n[j] /\ \A k \in 1..j : e[k] = n[k] /\ k \in 1..Len(n)
    BY <1>2, <1>8, <1>9
  <1>11. FitsUpTo(e, segs, j)
    BY <1>10 DEF FitsUpTo
  <1>12. SubSeq(e, 1, j - 1) = SubSeq(c, 1, j - 1)
    <2>1. j - 1 \in 0..Len(e) /\ j - 1 \in 0..Len(c) /\ \A k \in 1..(j - 1) : k \in 1..j
      BY <1>2, <1>8, <1>9
    <2>2. /\ SubSeq(e, 1, j - 1) \in Seq(Labels) /\ Len(SubSeq(e, 1, j - 1)) = j - 1
          /\ \A k \in 1..(j - 1) : SubSeq(e, 1, j - 1)[k] = e[k]
      BY <1>7, <2>1, SubSeqType
    <2>3. /\ SubSeq(c, 1, j - 1) \in Seq(Labels) /\ Len(SubSeq(c, 1, j - 1)) = j - 1
          /\ \A k \in 1..(j - 1) : SubSeq(c, 1, j - 1)[k] = c[k]
      BY <1>1, <2>1, SubSeqType
    <2>4. \A k \in 1..(j - 1) : e[k] = c[k]
      BY <1>10, <2>1 DEF Agree
    <2> QED
      BY <2>2, <2>3, <2>4, SeqEqual
  <1>13. Overtakes(q, r, segs)
    BY <1>6, <1>10, <1>11, <1>12 DEF Overtakes
  <1> QED
    BY <1>13

(* Where a route that fits the request can be, when none came before.      *)
LEMMA WhereBest ==
    ASSUME TrieInv, Quiet, NEW n \in DOMAIN nodes, NEW request, NEW r \in BestOf(bound, request),
           FitsUpTo(n, Segs[request], Len(n)), NoneBefore(Edges[r], n, Segs[request])
    PROVE  /\ r \in ToSet(bound) /\ Fits(r, Segs[request])
           /\ \A k \in DOMAIN n \cap DOMAIN Edges[r] : Edges[r][k] = n[k]
  <1> DEFINE segs == Segs[request]
             c == Edges[r]
  <1>1. r \in ToSet(bound) /\ Fits(r, segs) /\ \A q \in ToSet(bound) : ~Overtakes(q, r, segs)
    BY DEF BestOf
  <1>2. n \in Seq(Labels) /\ c \in Seq(Labels)
    BY <1>1, BoundRoute DEF TrieInv, Tree
  <1>3. \A j \in DOMAIN c : FitsAt(c[j], segs[j])
    <2>1. DOMAIN c = 1..Len(c) /\ FitsUpTo(c, segs, Len(c))
      BY <1>1, <1>2 DEF Fits
    <2> QED
      BY <2>1 DEF FitsUpTo, FitsAt
  <1>4. ASSUME NEW j \in DOMAIN n \cap DOMAIN c, Agree(c, n, j), c[j] # n[j]
        PROVE  FALSE
    BY <1>1, <1>3, <1>4, Overtaken
  <1> QED
    BY <1>1, <1>2, <1>4, FirstDifference

LEMMA BestAtNode ==
    ASSUME TrieInv, MatchInv, Quiet, NEW m \in Matchers, matcher[m].at = "handler",
           Greedy(matcher[m], DOMAIN nodes)
    PROVE  BestOf(bound, matcher[m].request) = {r \in ToSet(bound) : Edges[r] = matcher[m].node}
  <1> DEFINE w == matcher[m]
             n == w.node
             segs == Segs[w.request]
  <1>1. w.at \in Walking
    BY DEF Walking
  <1>2. /\ w.request.method = Method /\ w.request.path # <<>>
        /\ n \in DOMAIN nodes /\ n \in Seq(Labels) /\ Straight(n)
        /\ segs \in Seq(STRING) /\ Len(segs) \in Nat /\ Len(n) \in Nat
        /\ FitsUpTo(n, segs, Len(n))
        /\ Len(n) = Len(segs) \/ (IsWildcard(n) /\ Len(n) <= Len(segs))
    BY <1>1, SearchFacts
  <1>3. ASSUME NEW r \in ToSet(bound), Edges[r] = n
        PROVE  r \in BestOf(bound, w.request)
    <2>1. r \in Routes
      BY BoundRoute
    <2>2. Fits(r, segs)
      BY <1>2, <1>3, <2>1, FitsRoute
    <2>3. ASSUME NEW q \in ToSet(bound), Overtakes(q, r, segs)
          PROVE  FALSE
      <3> DEFINE e == Edges[q]
      <3>1. e \in DOMAIN nodes /\ e \in Seq(Labels)
        BY BoundRoute
      <3>2. PICK i \in DOMAIN e \cap DOMAIN n :
               /\ SubSeq(e, 1, i - 1) = SubSeq(n, 1, i - 1)
               /\ Rank(e[i][1]) < Rank(n[i][1])
               /\ FitsUpTo(e, segs, i)
        BY <1>3, <2>3 DEF Overtakes
      <3>3. /\ DOMAIN e = 1..Len(e) /\ DOMAIN n = 1..Len(n) /\ Len(e) \in Nat /\ i \in Nat /\ i >= 1
            /\ i <= Len(e) /\ i <= Len(n) /\ e[i] \in Labels /\ n[i] \in Labels
        BY <1>2, <3>1
      <3>4. i - 1 \in 0..Len(e) /\ i - 1 \in 0..Len(n)
        BY <1>2, <3>3
      <3>5. \A k \in 1..(i - 1) : SubSeq(e, 1, i - 1)[k] = e[k] /\ SubSeq(n, 1, i - 1)[k] = n[k]
        BY <1>2, <3>1, <3>4, SubSeqType
      <3>6. Agree(e, n, i)
        BY <3>2, <3>5 DEF Agree
      <3>7. FitsAt(e[i], segs[i])
        BY <3>2, <3>3 DEF FitsUpTo, FitsAt
      <3>8. Rank(n[i][1]) <= Rank(e[i][1])
        BY <3>1, <3>6, <3>7 DEF Greedy, NoneBefore
      <3>9. Rank(n[i][1]) \in 1..3 /\ Rank(e[i][1]) \in 1..3
        BY <3>3, RankOrder
      <3> QED
        BY <3>2, <3>8, <3>9
    <2> QED
      BY <1>2, <2>2, <2>3 DEF BestOf
  <1>4. ASSUME NEW r \in BestOf(bound, w.request)
        PROVE  r \in ToSet(bound) /\ Edges[r] = n
    <2> DEFINE c == Edges[r]
    <2>1. r \in ToSet(bound)
      BY DEF BestOf
    <2>2. c \in DOMAIN nodes /\ c \in Seq(Labels) /\ Straight(c) /\ Len(c) \in Nat
      BY <2>1, BoundRoute
    <2>3. NoneBefore(c, n, segs)
      BY <2>2 DEF Greedy
    <2>4. Fits(r, segs) /\ \A k \in DOMAIN n \cap DOMAIN c : c[k] = n[k]
      BY <1>2, <2>3, WhereBest
    <2>5. DOMAIN n = 1..Len(n) /\ DOMAIN c = 1..Len(c)
      BY <1>2, <2>2
    <2>6. Len(c) = Len(segs) \/ (IsWildcard(c) /\ Len(c) < Len(segs))
      BY <2>4 DEF Fits
    <2>7. Len(c) >= Len(n)
      <3>1. SUFFICES ASSUME Len(c) < Len(n) PROVE FALSE
        BY <1>2, <2>2
      <3>2. IsWildcard(c)
        BY <1>2, <2>2, <2>6, <3>1
      <3>3. Len(c) > 0 /\ c[Len(c)] = <<"wild">>
        BY <2>2, <3>2, LastLabel
      <3>4. Len(c) \in DOMAIN n \cap DOMAIN c
        BY <1>2, <2>2, <2>5, <3>1, <3>3
      <3>5. n[Len(c)] = <<"wild">>
        <4> HIDE DEF c
        <4> QED
          BY <2>4, <3>3, <3>4
      <3>6. Straight(n) /\ Len(n) \in Nat
        BY <1>2
      <3>7. Len(c) = Len(n)
        <4> HIDE DEF c
        <4> QED
          BY <3>4, <3>5, <3>6 DEF Straight
      <3> HIDE DEF c
      <3> QED
        BY <3>1, <3>6, <3>7
    <2>8. Len(c) <= Len(n)
      <3>1. SUFFICES ASSUME Len(n) < Len(c) PROVE FALSE
        BY <1>2, <2>2
      <3>2. IsWildcard(n)
        BY <1>2, <2>2, <2>6, <3>1
      <3>3. Len(n) > 0 /\ n[Len(n)] = <<"wild">>
        BY <1>2, <3>2, LastLabel
      <3>4. Len(n) \in DOMAIN n \cap DOMAIN c
        BY <1>2, <2>2, <2>5, <3>1, <3>3
      <3>5. c[Len(n)] = <<"wild">>
        BY <2>4, <3>3, <3>4
      <3> QED
        BY <1>2, <2>2, <3>1, <3>4, <3>5 DEF Straight
    <2>9. Len(c) = Len(n)
      BY <1>2, <2>2, <2>7, <2>8
    <2>10. c = n
      BY <1>2, <2>2, <2>4, <2>5, <2>9, SeqEqual
    <2> QED
      BY <2>1, <2>10
  <1> QED
    BY <1>3, <1>4 DEF BestOf

(* A search that finds no edge, not even "*", has no route to find.        *)
LEMMA BestNowhere ==
    ASSUME TrieInv, MatchInv, Quiet, NEW m \in Matchers, matcher[m].at = "wild",
           Greedy(matcher[m], DOMAIN nodes), Child(matcher[m], "wild") \notin DOMAIN nodes
    PROVE  BestOf(bound, matcher[m].request) = {}
  <1> DEFINE w == matcher[m]
             n == w.node
             segs == Segs[w.request]
             i == Len(n) + 1
  <1>1. w.at \in Walking /\ w.at \in Kinds
    BY DEF Walking, Kinds
  <1>2. /\ n \in DOMAIN nodes /\ n \in Seq(Labels) /\ Straight(n)
        /\ segs \in Seq(STRING) /\ Len(segs) \in Nat /\ Len(n) \in Nat
        /\ FitsUpTo(n, segs, Len(n)) /\ Len(n) < Len(segs) /\ ~IsWildcard(n)
    BY <1>1, SearchFacts
  <1>3. SUFFICES ASSUME NEW r \in BestOf(bound, w.request) PROVE FALSE
    OBVIOUS
  <1> DEFINE c == Edges[r]
  <1>4. r \in ToSet(bound)
    BY DEF BestOf
  <1>5. c \in DOMAIN nodes /\ c \in Seq(Labels) /\ Straight(c) /\ Len(c) \in Nat
    BY <1>4, BoundRoute
  <1>6. NoneBefore(c, n, segs) /\ NoneMissed(c, n, segs, "wild")
    BY <1>1, <1>5 DEF Greedy
  <1>7. Fits(r, segs) /\ \A k \in DOMAIN n \cap DOMAIN c : c[k] = n[k]
    BY <1>2, <1>6, WhereBest
  <1>8. DOMAIN n = 1..Len(n) /\ DOMAIN c = 1..Len(c)
    BY <1>2, <1>5
  <1>9. /\ Len(c) = Len(segs) \/ (IsWildcard(c) /\ Len(c) < Len(segs))
        /\ FitsUpTo(c, segs, Len(c))
    BY <1>7 DEF Fits
  <1>10. Len(c) > Len(n)
    <2>1. SUFFICES ASSUME Len(c) <= Len(n) PROVE FALSE
      BY <1>2, <1>5
    <2>2. IsWildcard(c)
      BY <1>2, <1>5, <1>9, <2>1
    <2>3. Len(c) > 0 /\ c[Len(c)] = <<"wild">>
      BY <1>5, <2>2, LastLabel
    <2>4. Len(c) \in DOMAIN n \cap DOMAIN c /\ Len(c) \in 1..Len(n)
      BY <1>2, <1>5, <1>8, <2>1, <2>3
    <2>5. n[Len(c)] = <<"wild">>
      BY <1>7, <2>3, <2>4
    <2> QED
      BY <1>2, <2>4, <2>5, LastLabel
  <1>11. i \in 1..Len(c) /\ i <= Len(c) /\ c[i] \in Labels
    BY <1>2, <1>5, <1>10
  <1>12. Agree(c, n, i)
    <2>1. \A k \in 1..(i - 1) : k \in DOMAIN n \cap DOMAIN c
      BY <1>2, <1>5, <1>8, <1>10
    <2> QED
      BY <1>7, <2>1 DEF Agree
  <1>13. FitsAt(c[i], segs[i])
    BY <1>9, <1>11 DEF FitsUpTo, FitsAt
  <1>14. Rank("wild") <= Rank(c[i][1])
    BY <1>6, <1>11, <1>12, <1>13 DEF NoneMissed
  <1>15. c[i] = <<"wild">>
    <2>1. Rank("static") = 1 /\ Rank("param") = 2 /\ Rank("wild") = 3
      BY DEF Rank
    <2> QED
      BY <1>11, <1>14, <2>1, LabelKind DEF Kinds
  <1>16. SubSeq(c, 1, i) = Child(w, "wild")
    <2>1. Child(w, "wild") = Append(n, <<"wild">>) /\ <<"wild">> \in Labels
      BY DEF Child, ChildEdge, Labels
    <2>2. /\ Append(n, <<"wild">>) \in Seq(Labels) /\ Len(Append(n, <<"wild">>)) = i
          /\ \A k \in 1..Len(n) : Append(n, <<"wild">>)[k] = n[k]
          /\ Append(n, <<"wild">>)[i] = <<"wild">>
      BY <1>2, <2>1, AppendType
    <2>3. i \in 0..Len(c)
      BY <1>5, <1>11
    <2>4. /\ SubSeq(c, 1, i) \in Seq(Labels) /\ Len(SubSeq(c, 1, i)) = i
          /\ \A k \in 1..i : SubSeq(c, 1, i)[k] = c[k]
      BY <1>5, <2>3, SubSeqType
    <2>5. \A k \in 1..i : k \in 1..Len(n) \/ k = i
      BY <1>2
    <2>6. \A k \in 1..Len(n) : c[k] = n[k]
      BY <1>2, <1>5, <1>7, <1>8, <1>10
    <2>7. \A k \in 1..i : SubSeq(c, 1, i)[k] = Append(n, <<"wild">>)[k]
      BY <1>15, <2>2, <2>4, <2>5, <2>6
    <2> QED
      BY <2>1, <2>2, <2>4, <2>7, SeqEqual
  <1>17. SubSeq(c, 1, i) \in DOMAIN nodes
    <2>1. i \in 0..Len(c)
      BY <1>5, <1>11
    <2> QED
      BY <1>5, <2>1 DEF TrieInv, Tree
  <1> QED
    BY <1>16, <1>17

------------------------------------------------------------------------------
(* Answers stay right until a route is added.                              *)
LEMMA RightOne ==
    ASSUME MatchInv, RightInv, NEW m \in Matchers, NEW x, matcher' = [matcher EXCEPT ![m] = x],
           adder' = adder, bound' = bound, DOMAIN nodes' = DOMAIN nodes,
           Quiet => RightMatcher(x, DOMAIN nodes, bound) /\ RightMap(entries', bound)
    PROVE  RightInv'
  <1>1. ASSUME Quiet'
        PROVE  /\ \A k \in Matchers : RightMatcher(matcher'[k], DOMAIN nodes, bound)
               /\ RightMap(entries', bound)
    <2>1. Quiet
      BY <1>1 DEF Quiet
    <2>2. \A k \in Matchers : RightMatcher(matcher[k], DOMAIN nodes, bound)
      BY <2>1 DEF RightInv
    <2>3. \A k \in Matchers : matcher'[k] = IF k = m THEN x ELSE matcher[k]
      BY DEF MatchInv
    <2> QED
      BY <2>1, <2>2, <2>3
  <1> QED
    BY <1>1 DEF RightInv

(* The answers that are kept, here and in the shard.                       *)
LEMMA RightKept ==
    ASSUME RightInv, Quiet
    PROVE  /\ RightMap(entries, bound)
           /\ \A m \in Matchers : /\ RightMap(matcher[m].snapshot, bound)
                                  /\ RightMatcher(matcher[m], DOMAIN nodes, bound)
  BY DEF RightInv, RightMatcher

LEMMA RightNoMap ==
    ASSUME NEW b
    PROVE  RightMap(<<>>, b)
  BY DEF RightMap

LEMMA RightCacheHit ==
    ASSUME TrieInv, MatchInv, RightInv, NEW m \in Matchers, NEW request \in Requests, CacheHit(m, request)
    PROVE  RightInv'
  <1>1. PICK i \in Cached(request) :
           matcher' = [matcher EXCEPT ![m] =
                Search("answered", request, entries[i].answer, entries[i].asOf)]
    BY DEF CacheHit
  <1>2. i \in DOMAIN entries /\ entries[i].key = request
    BY DEF Cached
  <1> DEFINE x == Search("answered", request, entries[i].answer, entries[i].asOf)
  <1>3. /\ x.at = "answered" /\ x.request = request /\ x.answer = entries[i].answer
        /\ x.asOf = entries[i].asOf /\ x.snapshot = <<>>
    BY DEF Search
  <1>4. x.at \notin Walking
    BY <1>3 DEF Walking, Kinds
  <1>5. matcher' = [matcher EXCEPT ![m] = x]
    BY <1>1
  <1>6. nodes' = nodes /\ adder' = adder /\ bound' = bound /\ entries' = entries
    BY DEF CacheHit, cacheVars
  <1> HIDE DEF x
  <1>7. ASSUME Quiet
        PROVE  RightMatcher(x, DOMAIN nodes, bound) /\ RightMap(entries', bound)
    <2>1. RightMap(entries, bound)
      BY <1>7, RightKept
    <2>2. x.asOf = Len(bound) => IsRight(bound, x.request, x.answer)
      BY <1>2, <1>3, <2>1 DEF RightMap
    <2>3. RightMap(x.snapshot, bound)
      BY <1>3, RightNoMap
    <2> QED
      BY <1>4, <1>6, <2>1, <2>2, <2>3 DEF RightMatcher
  <1> QED
    BY <1>5, <1>6, <1>7, RightOne

LEMMA RightCacheMiss ==
    ASSUME TrieInv, MatchInv, RightInv, NEW m \in Matchers, NEW request \in Requests, CacheMiss(m, request)
    PROVE  RightInv'
  <1> DEFINE x == matcher'[m]
  <1>1. /\ matcher' = [matcher EXCEPT ![m] = x]
        /\ x.node = <<>> /\ x.snapshot = <<>> /\ x.request = request /\ x.answer = NoMatch
        /\ \/ x.at = "handler" \/ x.at = "static"
           \/ /\ x.at = "answered"
              /\ <<>> \notin DOMAIN nodes \/ request.method # Method \/ request.path = <<>>
    BY MatchCacheMiss
  <1>2. nodes' = nodes /\ adder' = adder /\ bound' = bound /\ entries' = entries
    BY DEF CacheMiss, cacheVars
  <1> HIDE DEF x
  <1>3. ASSUME x.at \in Walking
        PROVE  Greedy(x, DOMAIN nodes)
    <2>1. x.at \in Kinds => x.at = "static"
      BY <1>1 DEF Kinds
    <2>2. \A c \in DOMAIN nodes : NoneBefore(c, <<>>, Segs[request])
      BY DEF NoneBefore
    <2>3. ASSUME NEW c \in DOMAIN nodes
          PROVE  NoneMissed(c, <<>>, Segs[request], "static")
      <3>1. c \in Seq(Labels)
        BY DEF TrieInv, Tree
      <3>2. Len(<<>>) + 1 = 1 /\ (1 <= Len(c) => c[1] \in Labels)
        BY <3>1
      <3>3. 1 <= Len(c) => Rank("static") <= Rank(c[1][1])
        <4>1. 1 <= Len(c) => Rank("static") = 1 /\ Rank(c[1][1]) \in 1..3
          BY <3>2, RankOrder
        <4> QED
          BY <4>1
      <3> QED
        BY <3>2, <3>3 DEF NoneMissed
    <2> QED
      BY <1>1, <2>1, <2>2, <2>3 DEF Greedy
  <1>4. ASSUME x.at \in Answering
        PROVE  IsRight(bound, x.request, x.answer)
    <2>1. <<>> \notin DOMAIN nodes \/ request.method # Method \/ request.path = <<>>
      BY <1>1, <1>4 DEF Answering, Storing
    <2>2. ASSUME NEW r \in BestOf(bound, request)
          PROVE  FALSE
      <3>1. r \in ToSet(bound) /\ request.method = Method /\ request.path # <<>>
        BY DEF BestOf
      <3>2. Edges[r] \in DOMAIN nodes /\ Edges[r] \in Seq(Labels)
        BY <3>1, BoundRoute
      <3>3. SubSeq(Edges[r], 1, 0) \in DOMAIN nodes /\ SubSeq(Edges[r], 1, 0) = <<>>
        <4>1. 0 \in 0..Len(Edges[r])
          BY <3>2
        <4>2. SubSeq(Edges[r], 1, 0) \in DOMAIN nodes
          BY <3>2, <4>1 DEF TrieInv, Tree
        <4>3. SubSeq(Edges[r], 1, 0) = <<>>
          BY <3>2
        <4> QED
          BY <4>2, <4>3
      <3> QED
        BY <2>1, <3>1, <3>3
    <2> QED
      BY <1>1, <2>2, NoAnswer DEF IsRight
  <1>5. ASSUME Quiet
        PROVE  RightMatcher(x, DOMAIN nodes, bound) /\ RightMap(entries', bound)
    BY <1>1, <1>2, <1>3, <1>4, <1>5, RightKept, RightNoMap DEF RightMatcher
  <1> QED
    BY <1>1, <1>2, <1>5, RightOne

(* Down an edge, the kinds before it were not there; past a kind, the next *)
(* one is the first that can be.                                           *)
LEMMA GreedyDown ==
    ASSUME TrieInv, MatchInv, NEW m \in Matchers, NEW kind \in Kinds, matcher[m].at = kind,
           Greedy(matcher[m], DOMAIN nodes), NEW x, x.request = matcher[m].request,
           Child(matcher[m], kind) \in DOMAIN nodes, x.node = Child(matcher[m], kind),
           x.at \in {"handler", "static"}
    PROVE  Greedy(x, DOMAIN nodes)
  <1> DEFINE w == matcher[m]
             n == w.node
             segs == Segs[w.request]
             i == Len(n) + 1
             e == ChildEdge(kind, segs[i])
  <1>1. w.at \in Walking /\ w.at \in Kinds
    BY DEF Walking
  <1>2. /\ n \in DOMAIN nodes /\ n \in Seq(Labels) /\ segs \in Seq(STRING) /\ Len(segs) \in Nat
        /\ Len(n) \in Nat /\ Len(n) < Len(segs)
    BY <1>1, SearchFacts
  <1>3. segs[i] \in STRING
    BY <1>2
  <1>4. e \in Labels /\ e[1] = kind
    BY <1>3, EdgeToChild
  <1>5. x.node = Append(n, e)
    BY DEF Child
  <1> HIDE DEF e
  <1>6. /\ DOMAIN n = 1..Len(n) /\ x.node \in Seq(Labels) /\ Len(x.node) = i
        /\ \A k \in 1..Len(n) : x.node[k] = n[k]
        /\ x.node[i] = e
    BY <1>2, <1>4, <1>5, AppendType
  <1>7. DOMAIN x.node = 1..i
    BY <1>6
  <1>8. ASSUME NEW c \in DOMAIN nodes
        PROVE  NoneBefore(c, x.node, segs)
    <2>1. NoneBefore(c, n, segs) /\ NoneMissed(c, n, segs, kind)
      BY <1>1 DEF Greedy
    <2>2. SUFFICES ASSUME NEW j \in DOMAIN x.node \cap DOMAIN c, Agree(c, x.node, j), FitsAt(c[j], segs[j])
                   PROVE  Rank(x.node[j][1]) <= Rank(c[j][1])
      BY DEF NoneBefore
    <2>3. c \in Seq(Labels)
      BY DEF TrieInv, Tree
    <2>4. j \in 1..i /\ j \in 1..Len(c) /\ Len(c) \in Nat
      BY <1>7, <2>3
    <2>5. \A k \in 1..(j - 1) : k \in 1..Len(n)
      BY <1>2, <2>4
    <2>6. Agree(c, n, j)
      BY <1>6, <2>2, <2>5 DEF Agree
    <2>7. CASE j = i
      <3>1. Rank(kind) <= Rank(c[i][1])
        BY <2>1, <2>2, <2>4, <2>6, <2>7 DEF NoneMissed
      <3> QED
        BY <1>4, <1>6, <2>7, <3>1
    <2>8. CASE j # i
      <3>1. j \in 1..Len(n)
        BY <1>2, <2>4, <2>8
      <3>2. j \in DOMAIN n \cap DOMAIN c
        BY <1>6, <2>2, <3>1
      <3> QED
        BY <1>6, <2>1, <2>2, <2>6, <3>1, <3>2 DEF NoneBefore
    <2> QED
      BY <2>7, <2>8
  <1>9. ASSUME NEW c \in DOMAIN nodes, x.at \in Kinds
        PROVE  NoneMissed(c, x.node, segs, x.at)
    <2>1. x.at = "static"
      BY <1>9 DEF Kinds
    <2>2. c \in Seq(Labels)
      BY DEF TrieInv, Tree
    <2>3. i + 1 \in Nat /\ (i + 1 <= Len(c) => c[i + 1] \in Labels)
      BY <1>2, <2>2
    <2>4. i + 1 <= Len(c) => Rank("static") <= Rank(c[i + 1][1])
      <3>1. i + 1 <= Len(c) => Rank("static") = 1 /\ Rank(c[i + 1][1]) \in 1..3
        BY <2>3, RankOrder
      <3> QED
        BY <3>1
    <2> QED
      BY <1>6, <2>1, <2>4 DEF NoneMissed
  <1> QED
    BY <1>8, <1>9 DEF Greedy

LEMMA GreedyOn ==
    ASSUME TrieInv, MatchInv, NEW m \in Matchers, NEW kind \in Kinds, matcher[m].at = kind, kind # "wild",
           Greedy(matcher[m], DOMAIN nodes), NEW x, x.request = matcher[m].request,
           Child(matcher[m], kind) \notin DOMAIN nodes, x.node = matcher[m].node,
           x.at = NextKind(kind)
    PROVE  Greedy(x, DOMAIN nodes)
  <1> DEFINE w == matcher[m]
             n == w.node
             segs == Segs[w.request]
             i == Len(n) + 1
  <1>1. w.at \in Walking /\ w.at \in Kinds
    BY DEF Walking
  <1>2. /\ n \in DOMAIN nodes /\ n \in Seq(Labels) /\ segs \in Seq(STRING) /\ Len(segs) \in Nat
        /\ Len(n) \in Nat /\ Len(n) < Len(segs)
    BY <1>1, SearchFacts
  <1>3. segs[i] \in STRING
    BY <1>2
  <1>4. /\ ChildEdge(kind, segs[i]) \in Labels /\ ChildEdge(kind, segs[i])[1] = kind
        /\ FitsAt(ChildEdge(kind, segs[i]), segs[i])
    BY <1>3, EdgeToChild
  <1>5. Child(w, kind) = Append(n, ChildEdge(kind, segs[i]))
    BY DEF Child
  <1>6. \/ kind = "static" /\ x.at = "param" /\ Rank(kind) = 1 /\ Rank(x.at) = 2
        \/ kind = "param" /\ x.at = "wild" /\ Rank(kind) = 2 /\ Rank(x.at) = 3
    <2>1. Rank("static") = 1 /\ Rank("param") = 2 /\ Rank("wild") = 3
      BY DEF Rank
    <2>2. kind = "static" \/ kind = "param"
      BY DEF Kinds
    <2>3. NextKind("static") = "param" /\ NextKind("param") = "wild"
      BY DEF NextKind
    <2> QED
      BY <2>1, <2>2, <2>3
  <1>7. ASSUME NEW c \in DOMAIN nodes
        PROVE  NoneMissed(c, n, segs, x.at)
    <2>1. NoneMissed(c, n, segs, kind)
      BY <1>1 DEF Greedy
    <2>2. SUFFICES ASSUME i <= Len(c), Agree(c, n, i), FitsAt(c[i], segs[i])
                   PROVE  Rank(x.at) <= Rank(c[i][1])
      BY DEF NoneMissed
    <2>3. c \in Seq(Labels) /\ \A k \in 0..Len(c) : SubSeq(c, 1, k) \in DOMAIN nodes
      BY DEF TrieInv, Tree
    <2>4. i \in 1..Len(c) /\ i \in 0..Len(c) /\ c[i] \in Labels /\ Len(c) \in Nat
      BY <1>2, <2>2, <2>3
    <2>5. Rank(kind) <= Rank(c[i][1])
      BY <2>1, <2>2 DEF NoneMissed
    <2>6. c[i][1] # kind
      <3>1. SUFFICES ASSUME c[i][1] = kind PROVE FALSE
        OBVIOUS
      <3>2. c[i] = ChildEdge(kind, segs[i])
        BY <1>4, <2>2, <2>4, <3>1, RankOrder
      <3>3. /\ SubSeq(c, 1, i) \in Seq(Labels) /\ Len(SubSeq(c, 1, i)) = i
            /\ \A k \in 1..i : SubSeq(c, 1, i)[k] = c[k]
        BY <2>3, <2>4, SubSeqType
      <3>4. /\ Child(w, kind) \in Seq(Labels) /\ Len(Child(w, kind)) = i
            /\ \A k \in 1..Len(n) : Child(w, kind)[k] = n[k]
            /\ Child(w, kind)[i] = ChildEdge(kind, segs[i])
        BY <1>2, <1>4, <1>5, AppendType
      <3>5. \A k \in 1..i : (k \in 1..(i - 1) /\ k \in 1..Len(n)) \/ k = i
        BY <1>2
      <3>6. \A k \in 1..i : SubSeq(c, 1, i)[k] = Child(w, kind)[k]
        BY <2>2, <3>2, <3>3, <3>4, <3>5 DEF Agree
      <3>7. SubSeq(c, 1, i) = Child(w, kind)
        BY <3>3, <3>4, <3>6, SeqEqual
      <3> QED
        BY <2>3, <2>4, <3>7
    <2>7. Rank(c[i][1]) # Rank(kind)
      BY <1>4, <2>4, <2>6, RankOrder
    <2>8. Rank(c[i][1]) \in 1..3
      BY <2>4, RankOrder
    <2> QED
      BY <1>6, <2>5, <2>7, <2>8
  <1>8. \A c \in DOMAIN nodes : NoneBefore(c, n, segs)
    BY DEF Greedy
  <1> QED
    BY <1>7, <1>8 DEF Greedy

LEMMA RightWalk ==
    ASSUME TrieInv, MatchInv, RightInv, NEW m \in Matchers, NEW kind \in Kinds, Walk(m, kind)
    PROVE  RightInv'
  <1> DEFINE w == matcher[m]
             x == matcher'[m]
             N == DOMAIN nodes
  <1>1. /\ x.request = w.request /\ x.asOf = w.asOf /\ x.snapshot = w.snapshot
        /\ \/ Child(w, kind) \in N /\ x.node = Child(w, kind) /\ x.at \in {"handler", "static"}
           \/ /\ Child(w, kind) \notin N /\ x.node = w.node
              /\ kind = "wild" /\ x.at = "answered" /\ x.answer.handler = None
           \/ /\ Child(w, kind) \notin N /\ x.node = w.node
              /\ kind # "wild" /\ x.at = NextKind(kind) /\ NextKind(kind) \in Kinds
    BY MatchWalk
  <1>2. /\ w.at = kind /\ UNCHANGED <<nodes, adder, bound, cacheVars>>
        /\ \E y : matcher' = [matcher EXCEPT ![m] = y]
    BY WalkSteps DEF MatchInv
  <1>3. PICK y : matcher' = [matcher EXCEPT ![m] = y]
    BY <1>2
  <1>4. y = x
    BY <1>3 DEF MatchInv
  <1>5. nodes' = nodes /\ adder' = adder /\ bound' = bound /\ entries' = entries
    BY <1>2 DEF cacheVars
  <1>6. w.at \in Walking
    BY <1>2 DEF Walking
  <1> HIDE DEF x, w
  <1>7. ASSUME Quiet
        PROVE  RightMatcher(x, N, bound) /\ RightMap(entries', bound)
    <2>1. RightMap(entries, bound) /\ RightMap(w.snapshot, bound) /\ RightMatcher(w, N, bound)
      BY <1>7, RightKept DEF w
    <2>2. w.asOf = Len(bound) => Greedy(w, N)
      BY <1>6, <2>1 DEF RightMatcher
    <2>3. CASE Child(w, kind) \in N /\ x.node = Child(w, kind) /\ x.at \in {"handler", "static"}
      <3>1. w.asOf = Len(bound) => Greedy(x, N)
        BY <1>1, <1>2, <2>2, <2>3, GreedyDown DEF w
      <3>2. x.at \notin Answering
        BY <2>3 DEF Answering, Storing
      <3> QED
        BY <1>1, <1>5, <2>1, <3>1, <3>2 DEF RightMatcher
    <2>4. CASE /\ Child(w, kind) \notin N /\ x.node = w.node
               /\ kind = "wild" /\ x.at = "answered" /\ x.answer.handler = None
      <3>1. w.asOf = Len(bound) => BestOf(bound, w.request) = {}
        BY <1>2, <1>7, <2>2, <2>4, BestNowhere DEF w
      <3>2. w.asOf = Len(bound) => IsRight(bound, x.request, x.answer)
        BY <1>1, <2>4, <3>1 DEF IsRight
      <3>3. x.at \notin Walking
        BY <2>4 DEF Walking, Kinds
      <3> QED
        BY <1>1, <1>5, <2>1, <3>2, <3>3 DEF RightMatcher
    <2>5. CASE /\ Child(w, kind) \notin N /\ x.node = w.node
               /\ kind # "wild" /\ x.at = NextKind(kind) /\ NextKind(kind) \in Kinds
      <3>1. w.asOf = Len(bound) => Greedy(x, N)
        BY <1>1, <1>2, <2>2, <2>5, GreedyOn DEF w
      <3>2. x.at \notin Answering
        BY <2>5 DEF Answering, Storing, Kinds
      <3> QED
        BY <1>1, <1>5, <2>1, <3>1, <3>2 DEF RightMatcher
    <2> QED
      BY <1>1, <2>3, <2>4, <2>5
  <1> QED
    BY <1>3, <1>4, <1>5, <1>7, RightOne

LEMMA RightGetHandler ==
    ASSUME TrieInv, MatchInv, RightInv, NEW m \in Matchers, GetHandler(m)
    PROVE  RightInv'
  <1> DEFINE w == matcher[m]
             x == matcher'[m]
             n == w.node
             N == DOMAIN nodes
  <1>1. /\ w.at = "handler" /\ matcher' = [matcher EXCEPT ![m] = x]
        /\ x.request = w.request /\ x.asOf = w.asOf /\ x.snapshot = w.snapshot
        /\ x.at \in {"count", "answered"} /\ x.answer.handler = nodes[n].handler
    BY HandlerSteps
  <1>2. adder' = adder /\ bound' = bound /\ entries' = entries /\ DOMAIN nodes' = N
    BY MatchGetHandler DEF GetHandler, cacheVars
  <1>3. w.at \in Walking
    BY <1>1 DEF Walking
  <1>4. n \in N
    BY <1>3, SearchFacts
  <1>5. x.at \notin Walking
    BY <1>1 DEF Walking, Kinds
  <1> HIDE DEF x
  <1>6. ASSUME Quiet
        PROVE  RightMatcher(x, N, bound) /\ RightMap(entries', bound)
    <2>1. RightMap(entries, bound) /\ RightMap(w.snapshot, bound) /\ RightMatcher(w, N, bound)
      BY <1>6, RightKept
    <2>2. ASSUME w.asOf = Len(bound)
          PROVE  IsRight(bound, w.request, x.answer)
      <3>1. BestOf(bound, w.request) = {r \in ToSet(bound) : Edges[r] = n}
        BY <1>1, <1>3, <1>6, <2>1, <2>2, BestAtNode DEF RightMatcher
      <3>2. HandlerOK(n, nodes[n], bound)
        BY <1>4 DEF TrieInv
      <3>3. \A i \in DOMAIN bound : bound[i] \in ToSet(bound)
        BY DEF ToSet
      <3>4. \A i \in DOMAIN bound : bound[i] \in BestOf(bound, w.request) <=> Edges[bound[i]] = n
        BY <3>1, <3>3
      <3>5. CASE nodes[n].handler = None /\ \A i \in DOMAIN bound : Edges[bound[i]] # n
        <4>1. BestOf(bound, w.request) = {}
          BY <3>1, <3>5 DEF ToSet
        <4> QED
          BY <1>1, <3>5, <4>1 DEF IsRight
      <3>6. CASE \E i \in DOMAIN bound :
                    /\ nodes[n].handler = bound[i] /\ Edges[bound[i]] = n
                    /\ \A j \in DOMAIN bound : Edges[bound[j]] = n => j <= i
        <4>1. BestOf(bound, w.request) # {}
          BY <3>4, <3>6
        <4> QED
          BY <1>1, <3>4, <3>6, <4>1 DEF IsRight
      <3> QED
        BY <3>2, <3>5, <3>6 DEF HandlerOK
    <2> QED
      BY <1>1, <1>2, <1>5, <2>1, <2>2 DEF RightMatcher
  <1> QED
    BY <1>1, <1>2, <1>6, RightOne

LEMMA RightStore ==
    ASSUME TrieInv, MatchInv, RightInv, NEW m \in Matchers, StoreCounts(m) \/ Evict(m) \/ StoreInserts(m)
    PROVE  RightInv'
  <1> DEFINE w == matcher[m]
             x == matcher'[m]
             N == DOMAIN nodes
             s == w.snapshot
  <1>1. /\ w.at \in Storing /\ nodes' = nodes /\ adder' = adder /\ bound' = bound
        /\ matcher' = [matcher EXCEPT ![m] = x] /\ x.at \in Storing \cup {"answered"}
        /\ x.request = w.request /\ x.answer = w.answer /\ x.asOf = w.asOf
    <2>1. CASE StoreCounts(m)
      <3>1. w.at = "count" /\ nodes' = nodes /\ adder' = adder /\ bound' = bound
        BY <2>1 DEF StoreCounts
      <3>2. /\ matcher' = [matcher EXCEPT ![m] = x] /\ x.at \in {"evict", "insert"}
            /\ x.request = w.request /\ x.answer = w.answer /\ x.asOf = w.asOf
        BY <2>1, MatchStoreCounts
      <3> HIDE DEF x
      <3> QED
        BY <3>1, <3>2 DEF Storing
    <2>2. CASE Evict(m)
      <3>1. w.at = "evict" /\ nodes' = nodes /\ adder' = adder /\ bound' = bound
        BY <2>2 DEF Evict
      <3>2. /\ matcher' = [matcher EXCEPT ![m] = x] /\ x.at = "insert"
            /\ x.request = w.request /\ x.answer = w.answer /\ x.asOf = w.asOf
        BY <2>2, MatchEvict
      <3> HIDE DEF x
      <3> QED
        BY <3>1, <3>2 DEF Storing
    <2>3. CASE StoreInserts(m)
      <3>1. w.at = "insert" /\ nodes' = nodes /\ adder' = adder /\ bound' = bound
        BY <2>3 DEF StoreInserts
      <3>2. /\ matcher' = [matcher EXCEPT ![m] = x] /\ x.at = "answered"
            /\ x.request = w.request /\ x.answer = w.answer /\ x.asOf = w.asOf
        BY <2>3, MatchStoreInserts
      <3> HIDE DEF x
      <3> QED
        BY <3>1, <3>2 DEF Storing
    <2> QED
      BY <2>1, <2>2, <2>3
  <1>2. \/ x.snapshot \in {<<>>, entries} /\ entries' = entries
        \/ x.snapshot = <<>> /\ \A i \in DOMAIN entries' : \E j \in DOMAIN s : entries'[i] = s[j]
        \/ /\ x.snapshot = s
           /\ \A i \in DOMAIN entries' :
                 \/ \E j \in DOMAIN entries : entries'[i] = entries[j]
                 \/ entries'[i] = [key |-> w.request, answer |-> w.answer, asOf |-> w.asOf]
    <2>1. CASE StoreCounts(m)
      BY <2>1, MatchStoreCounts DEF StoreCounts, cacheVars
    <2>2. CASE Evict(m)
      BY <2>2, MatchEvict
    <2>3. CASE StoreInserts(m)
      BY <2>3, MatchStoreInserts
    <2> QED
      BY <2>1, <2>2, <2>3
  <1>3. w.at \in Answering /\ x.at \notin Walking
    <2> HIDE DEF x, w
    <2> QED
      BY <1>1 DEF Answering, Storing, Walking, Kinds
  <1> HIDE DEF x
  <1>4. ASSUME Quiet
        PROVE  RightMatcher(x, N, bound) /\ RightMap(entries', bound)
    <2>1. RightMap(entries, bound) /\ RightMap(s, bound) /\ RightMatcher(w, N, bound)
      BY <1>4, RightKept
    <2>2. w.asOf = Len(bound) => IsRight(bound, w.request, w.answer)
      BY <1>3, <2>1 DEF RightMatcher
    <2>3. RightMap(x.snapshot, bound)
      BY <1>2, <2>1, RightNoMap
    <2>4. RightMatcher(x, N, bound)
      BY <1>1, <1>3, <2>2, <2>3 DEF RightMatcher
    <2>5. ASSUME NEW i \in DOMAIN entries', entries'[i].asOf = Len(bound)
          PROVE  IsRight(bound, entries'[i].key, entries'[i].answer)
      <3>1. CASE \E j \in DOMAIN entries : entries'[i] = entries[j]
        BY <2>1, <2>5, <3>1 DEF RightMap
      <3>2. CASE \E j \in DOMAIN s : entries'[i] = s[j]
        BY <2>1, <2>5, <3>2 DEF RightMap
      <3>3. CASE entries'[i] = [key |-> w.request, answer |-> w.answer, asOf |-> w.asOf]
        <4>1. entries'[i].key = w.request /\ entries'[i].answer = w.answer /\ entries'[i].asOf = w.asOf
          BY <3>3
        <4> QED
          BY <2>2, <2>5, <4>1
      <3> QED
        BY <1>2, <3>1, <3>2, <3>3
    <2>6. RightMap(entries', bound)
      BY <2>5 DEF RightMap
    <2> QED
      BY <2>4, <2>6
  <1>5. DOMAIN nodes' = DOMAIN nodes
    BY <1>1
  <1> QED
    BY <1>1, <1>4, <1>5, RightOne

LEMMA RightExecute ==
    ASSUME TrieInv, MatchInv, RightInv, NEW m \in Matchers, Execute(m)
    PROVE  RightInv'
  <1>1. matcher' = [matcher EXCEPT ![m] = Idle] /\ Idle.at = "idle" /\ Idle.snapshot = <<>>
    BY MatchExecute
  <1>2. nodes' = nodes /\ adder' = adder /\ bound' = bound /\ entries' = entries
    BY DEF Execute, cacheVars
  <1>3. ASSUME Quiet
        PROVE  RightMatcher(Idle, DOMAIN nodes, bound) /\ RightMap(entries', bound)
    BY <1>1, <1>2, <1>3, RightKept, RightNoMap DEF RightMatcher, Walking, Answering, Storing, Kinds
  <1> QED
    BY <1>1, <1>2, <1>3, RightOne

(* A route that is being added, or just was, leaves nothing to show.       *)
LEMMA RightAdders ==
    ASSUME TrieInv, MatchInv, NEW a \in Adders,
           (\E r \in Routes : AddRoute(a, r)) \/ Insert(a) \/ SetHandler(a)
    PROVE  RightInv'
  <1>1. adder \in [Adders -> AdderRecord]
    BY DEF TrieInv
  <1>2. ASSUME NEW r \in Routes, AddRoute(a, r) PROVE RightInv'
    <2>1. adder'[a].at = "insert"
      BY <1>1, <1>2 DEF AddRoute
    <2>2. ~Quiet'
      BY <2>1 DEF Quiet
    <2> QED
      BY <2>2 DEF RightInv
  <1>3. CASE Insert(a)
    <2>1. adder' = [adder EXCEPT ![a].node = Append(@, Edge(Parts[adder[a].route][Len(@) + 1]))]
      BY <1>3 DEF Insert
    <2>2. adder'[a].at = "insert"
      BY <1>1, <1>3, <2>1 DEF Insert, AdderRecord
    <2>3. ~Quiet'
      BY <2>2 DEF Quiet
    <2> QED
      BY <2>3 DEF RightInv
  <1>4. CASE SetHandler(a)
    <2>1. bound' = Append(bound, adder[a].route) /\ matcher' = matcher /\ entries' = entries
      BY <1>4 DEF SetHandler, cacheVars
    <2>2. Len(bound') = Len(bound) + 1 /\ Len(bound) \in Nat
      <3>1. bound \in Seq(ValidRoutes)
        BY DEF TrieInv
      <3> QED
        BY <2>1, <3>1
    <2>3. ASSUME NEW s, MapOK(s, Len(bound))
          PROVE  RightMap(s, bound')
      <3>1. ASSUME NEW i \in DOMAIN s
            PROVE  s[i].asOf # Len(bound')
        <4>1. s[i] \in Entry /\ s[i].asOf <= Len(bound)
          BY <2>3 DEF MapOK
        <4>2. s[i].asOf \in Nat
          BY <4>1 DEF Entry
        <4> QED
          BY <2>2, <4>1, <4>2
      <3> QED
        BY <3>1 DEF RightMap
    <2>4. ASSUME NEW m \in Matchers
          PROVE  RightMatcher(matcher[m], DOMAIN nodes', bound')
      <3>1. /\ matcher[m] \in MatcherRecord /\ matcher[m].asOf <= Len(bound)
            /\ MapOK(matcher[m].snapshot, Len(bound))
        BY DEF MatchInv, MatcherOK
      <3>2. matcher[m].asOf \in Nat
        BY <3>1 DEF MatcherRecord
      <3>3. matcher[m].asOf # Len(bound')
        BY <2>2, <3>1, <3>2
      <3> QED
        BY <2>3, <3>1, <3>3 DEF RightMatcher
    <2>5. RightMap(entries', bound')
      BY <2>1, <2>3 DEF MatchInv
    <2> QED
      BY <2>1, <2>4, <2>5 DEF RightInv
  <1> QED
    BY <1>2, <1>3, <1>4

LEMMA RightElsewhere ==
    ASSUME RightInv, UNCHANGED <<nodes, adder, matcher, bound>>, entries' \in {entries, <<>>}
    PROVE  RightInv'
  <1>1. ASSUME Quiet'
        PROVE  /\ \A m \in Matchers : RightMatcher(matcher[m], DOMAIN nodes, bound)
               /\ RightMap(entries', bound)
    <2>1. Quiet
      BY <1>1 DEF Quiet
    <2> QED
      BY <2>1, RightKept, RightNoMap
  <1> QED
    BY <1>1 DEF RightInv

LEMMA RightNext ==
    ASSUME Inv, RightInv, [Next]_vars
    PROVE  RightInv'
  <1>1. TrieInv /\ MatchInv
    BY DEF Inv
  <1>2. ASSUME NEW a \in Adders, (\E r \in Routes : AddRoute(a, r)) \/ Insert(a) \/ SetHandler(a)
        PROVE  RightInv'
    BY <1>1, <1>2, RightAdders
  <1>3. ASSUME NEW m \in Matchers,
               \/ \E request \in Requests : CacheHit(m, request) \/ CacheMiss(m, request)
               \/ \E kind \in Kinds : Walk(m, kind)
               \/ GetHandler(m) \/ StoreCounts(m) \/ Evict(m) \/ StoreInserts(m) \/ Execute(m)
        PROVE  RightInv'
    BY <1>1, <1>3, RightCacheHit, RightCacheMiss, RightWalk, RightGetHandler, RightStore, RightExecute
  <1>4. CASE EnableHotCache \/ DisableHotCache \/ ClearHotCache \/ UNCHANGED vars
    <2>1. UNCHANGED <<nodes, adder, matcher, bound>> /\ entries' \in {entries, <<>>}
      BY <1>4 DEF EnableHotCache, DisableHotCache, ClearHotCache, vars, cacheVars
    <2> QED
      BY <2>1, RightElsewhere
  <1> QED
    BY <1>2, <1>3, <1>4 DEF Next

LEMMA RightInit ==
    ASSUME Init
    PROVE  RightInv
  <1>1. matcher = [m \in Matchers |-> Idle] /\ entries = <<>>
    BY DEF Init
  <1>2. Idle.at \notin Walking /\ Idle.at \notin Answering /\ RightMap(Idle.snapshot, bound)
    BY IdleRecord, RightNoMap DEF Walking, Answering, Storing, Kinds
  <1>3. \A m \in Matchers : RightMatcher(matcher[m], DOMAIN nodes, bound)
    BY <1>1, <1>2 DEF RightMatcher
  <1> QED
    BY <1>1, <1>3, RightNoMap DEF RightInv

LEMMA RightAlways == Spec => []RightInv
  <1>1. Init => RightInv
    BY RightInit
  <1>2. Inv /\ RightInv /\ [Next]_vars => RightInv'
    BY RightNext
  <1> QED
    BY <1>1, <1>2, InvAlways, PTL DEF Spec

(* The last registration is the one there is.                              *)
LEMMA LatestIs ==
    ASSUME TrieInv, NEW request, NEW answer, IsRight(bound, request, answer)
    PROVE  RightAnswer(request, answer)
  <1>1. BestOf(bound, request) = Best(request)
    BY DEF BestOf, Best
  <1> DEFINE S == Best(request)
  <1>2. CASE S = {}
    BY <1>1, <1>2 DEF IsRight, RightAnswer
  <1>3. CASE S # {}
    <2> HIDE DEF S
    <2> DEFINE last(i) == bound[i] \in S /\ \A j \in DOMAIN bound : bound[j] \in S => j <= i
               c == CHOOSE i \in DOMAIN bound : last(i)
    <2>1. PICK i \in DOMAIN bound : answer.handler = bound[i] /\ last(i)
      BY <1>1, <1>3 DEF IsRight, S
    <2>2. c \in DOMAIN bound /\ last(c)
      BY <2>1
    <2>3. DOMAIN bound = 1..Len(bound) /\ Len(bound) \in Nat
      BY BoundLen
    <2>4. c <= i /\ i <= c
      BY <2>1, <2>2
    <2> HIDE DEF c
    <2>5. c = i
      BY <2>1, <2>2, <2>3, <2>4
    <2>6. Latest(S) = bound[c]
      BY DEF Latest, c
    <2> QED
      BY <1>3, <2>1, <2>5, <2>6 DEF RightAnswer, S
  <1> QED
    BY <1>2, <1>3

LEMMA InvRight ==
    ASSUME Inv, RightInv
    PROVE  MatchIsRight
  <1>1. TrieInv
    BY DEF Inv
  <1>2. ASSUME Quiet, NEW m \in Matchers, matcher[m].at = "answered", matcher[m].asOf = Len(bound)
        PROVE  RightAnswer(matcher[m].request, matcher[m].answer)
    <2>1. RightMatcher(matcher[m], DOMAIN nodes, bound)
      BY <1>2, RightKept
    <2> QED
      BY <1>1, <1>2, <2>1, LatestIs DEF RightMatcher, Answering
  <1>3. ASSUME Quiet, NEW i \in DOMAIN entries, entries[i].asOf = Len(bound)
        PROVE  RightAnswer(entries[i].key, entries[i].answer)
    <2>1. RightMap(entries, bound)
      BY <1>3, RightKept
    <2> QED
      BY <1>1, <1>3, <2>1, LatestIs DEF RightMap
  <1> QED
    BY <1>2, <1>3 DEF MatchIsRight, Quiet

(* Unless a route was added since the search began, Match and the cache    *)
(* answer what the registered routes say (router.go:172-290).              *)
THEOREM RouterRight == Spec => []MatchIsRight
  BY InvAlways, RightAlways, InvRight, PTL

(***************************************************************************)
(* Congestion                                                              *)
(***************************************************************************)
(* What the window, the estimates and the packets under way are. *)
Widest == IF InitialCWnd >= MaxCWnd THEN InitialCWnd ELSE MaxCWnd
BBRStates == {"STARTUP", "DRAIN", "PROBE_BW", "PROBE_RTT"}
WindowInv ==
    /\ algorithm \in Algorithms /\ touched \in BOOLEAN
    /\ cwnd \in Nat /\ ssthresh \in Nat /\ target \in Nat /\ dupAckCount \in 0..4
    /\ bbr \in [samples : Seq(Int), state : BBRStates] /\ Len(bbr.samples) <= MaxSamples
    /\ cwnd <= Widest
    /\ WindowProtected
RttInv == minRTT \in Rtts \cup {0} /\ rtt \in 0..Max(Rtts) /\ minRTT <= rtt
FlightInv ==
    /\ outstanding \in 0..Packets /\ losses \in Nat
    /\ inFlight = PacketSize * (outstanding + losses)
CongestionInv == WindowInv /\ RttInv /\ FlightInv

(* A finite set of integers has a greatest. *)
LEMMA MaxOfFinite ==
    ASSUME NEW S, S \subseteq Int, S # {}, IsFiniteSet(S)
    PROVE  Max(S) \in S /\ \A y \in S : Max(S) >= y
  <1>1. PICK n \in Nat : ExistsSurjection(1..n, S)
    BY FS_NatSurjection
  <1>2. PICK f \in [1..n -> S] : \A y \in S : \E i \in 1..n : f[i] = y
    BY <1>1 DEF ExistsSurjection, Surjection
  <1> DEFINE Above(k) == \E x \in S : \A i \in 1..k : x >= f[i]
             T == {k \in Nat : 1 <= k /\ k <= n => Above(k)}
  <1>3. 0 \in T
    OBVIOUS
  <1>4. ASSUME NEW k \in Nat, k \in T
        PROVE  k + 1 \in T
    <2>. SUFFICES ASSUME k + 1 <= n
                  PROVE  Above(k + 1)
      OBVIOUS
    <2>1. f[k + 1] \in S /\ \A i \in 1..(k + 1) : f[i] \in Int /\ (i = k + 1 \/ i \in 1..k)
      <3>1. \A i \in 1..(k + 1) : i \in 1..n /\ (i = k + 1 \/ i \in 1..k)
        BY <1>1
      <3>2. k + 1 \in 1..n
        BY <1>1
      <3>. QED
        BY <1>2, <3>1, <3>2
    <2>2. CASE k = 0
      BY <2>1, <2>2
    <2>3. CASE k # 0
      <3>1. PICK x \in S : \A i \in 1..k : x >= f[i]
        BY <1>4, <2>3
      <3>2. CASE x >= f[k + 1]
        BY <2>1, <3>1, <3>2
      <3>3. CASE f[k + 1] >= x
        BY <2>1, <3>1, <3>3
      <3>. QED
        BY <2>1, <3>2, <3>3
    <2>. QED
      BY <2>2, <2>3
  <1>. HIDE DEF T
  <1>5. n \in T
    BY <1>3, <1>4, AllNaturals
  <1>6. n >= 1
    <2>1. \E y \in S : TRUE
      OBVIOUS
    <2>. QED
      BY <1>2, <2>1
  <1>7. PICK x \in S : \A i \in 1..n : x >= f[i]
    BY <1>5, <1>6 DEF T
  <1>8. \A y \in S : x >= y
    BY <1>2, <1>7
  <1>. QED
    BY <1>8 DEF Max

LEMMA MaxOfTwo ==
    ASSUME NEW a \in Int, NEW b \in Int
    PROVE  /\ Max({a, b}) = IF a >= b THEN a ELSE b
           /\ Min({a, b}) = IF a <= b THEN a ELSE b
  <1>1. Max({a, b}) \in {a, b} /\ \A y \in {a, b} : Max({a, b}) >= y
    <2>1. \E x \in {a, b} : \A y \in {a, b} : x >= y
      <3>1. a >= b \/ b >= a
        OBVIOUS
      <3>. QED
        BY <3>1
    <2>. QED
      BY <2>1 DEF Max
  <1>2. Min({a, b}) \in {a, b} /\ \A y \in {a, b} : Min({a, b}) <= y
    <2>1. \E x \in {a, b} : \A y \in {a, b} : x <= y
      <3>1. a <= b \/ b <= a
        OBVIOUS
      <3>. QED
        BY <3>1
    <2>. QED
      BY <2>1 DEF Min
  <1>. QED
    BY <1>1, <1>2

LEMMA Parameters ==
    /\ PacketSize \in Nat /\ PacketSize >= 1 /\ Ticks \in Nat /\ Ticks >= 1
    /\ MaxCWnd \in Nat /\ InitialCWnd \in Nat /\ DefaultSsthresh \in Nat /\ MaxSamples \in Nat
    /\ MinCWnd \in Nat /\ MinCWnd >= 2 /\ MinCWnd <= MaxCWnd /\ MinCWnd <= DefaultSsthresh
    /\ Widest \in Nat /\ MaxCWnd <= Widest /\ InitialCWnd <= Widest
    /\ Packets = Widest \div PacketSize
    /\ Rtts \subseteq Nat /\ Max(Rtts) \in Nat /\ \A new \in Rtts : new <= Max(Rtts)
  <1>1. /\ PacketSize \in Nat /\ PacketSize >= 1 /\ Ticks \in Nat /\ Ticks >= 1
        /\ MaxCWnd \in Nat /\ InitialCWnd \in Nat /\ DefaultSsthresh \in Nat /\ MaxSamples \in Nat
        /\ 2 * PacketSize <= MaxCWnd /\ 2 * PacketSize <= DefaultSsthresh /\ Rtts \subseteq Nat
    BY CongestionAssumption
  <1>2. Max({InitialCWnd, MaxCWnd}) = Widest
    BY <1>1, MaxOfTwo DEF Widest
  <1>3. Max(Rtts) \in Rtts /\ \A new \in Rtts : Max(Rtts) >= new
    <2>1. Rtts \subseteq Int /\ Rtts # {} /\ IsFiniteSet(Rtts)
      BY CongestionAssumption
    <2>. QED
      BY <2>1, MaxOfFinite
  <1>4. Packets = Widest \div PacketSize
    BY <1>2 DEF Packets
  <1>5. Widest \in Nat /\ MaxCWnd <= Widest /\ InitialCWnd <= Widest
    BY <1>1 DEF Widest
  <1>6. MinCWnd \in Nat /\ MinCWnd >= 2 /\ MinCWnd <= MaxCWnd /\ MinCWnd <= DefaultSsthresh
    BY <1>1 DEF MinCWnd
  <1>7. Max(Rtts) \in Nat /\ \A new \in Rtts : new <= Max(Rtts)
    BY <1>1, <1>3
  <1>. QED
    BY <1>1, <1>4, <1>5, <1>6, <1>7

(* The window that is set is within its bounds. *)
LEMMA WindowSet ==
    ASSUME NEW n \in Int, setCongestionWindow(n)
    PROVE  /\ cwnd' \in Nat /\ MinCWnd <= cwnd' /\ cwnd' <= MaxCWnd /\ cwnd' <= Widest
           /\ touched' = TRUE
  <1>1. Max({n, MinCWnd}) = IF n >= MinCWnd THEN n ELSE MinCWnd
    BY Parameters, MaxOfTwo
  <1>. DEFINE m == Max({n, MinCWnd})
  <1>2. m \in Int /\ m >= MinCWnd
    BY <1>1, Parameters
  <1>3. cwnd' = Min({m, MaxCWnd}) /\ touched' = TRUE
    BY DEF setCongestionWindow
  <1>. HIDE DEF m
  <1>4. cwnd' = IF m <= MaxCWnd THEN m ELSE MaxCWnd
    BY <1>2, <1>3, Parameters, MaxOfTwo
  <1>. QED
    BY <1>2, <1>3, <1>4, Parameters

(* A measured time leaves the least one below the smoothed one. *)
LEMMA RttKept ==
    ASSUME RttInv, NEW new \in Rtts, updateRTT(new)
    PROVE  RttInv' /\ minRTT' \in Nat
  <1>1. /\ new \in Nat /\ new <= Max(Rtts) /\ Max(Rtts) \in Nat /\ rtt \in Nat /\ rtt <= Max(Rtts)
        /\ minRTT \in Nat /\ minRTT <= rtt
    BY Parameters DEF RttInv
  <1>2. CASE rtt = 0
    BY <1>1, <1>2 DEF updateRTT, RttInv
  <1>3. CASE rtt # 0
    <2>1. rtt' = (7 * rtt + new) \div 8 /\ minRTT' = IF new < minRTT THEN new ELSE minRTT
      BY <1>3 DEF updateRTT
    <2>2. rtt' \in Nat /\ rtt' <= Max(Rtts)
      BY <1>1, <2>1
    <2>3. minRTT' \in Nat /\ minRTT' <= rtt' /\ minRTT' \in Rtts \cup {0}
      BY <1>1, <2>1 DEF RttInv
    <2>. QED
      BY <1>1, <2>2, <2>3 DEF RttInv
  <1>. QED
    BY <1>2, <1>3

(* A call that sets the window keeps to what the window has to be. *)
LEMMA WindowKept ==
    ASSUME WindowInv, NEW n \in Int, setCongestionWindow(n), algorithm' = algorithm,
           ssthresh' \in Nat, target' \in Nat, dupAckCount' \in 0..4,
           bbr' \in [samples : Seq(Int), state : BBRStates], Len(bbr'.samples) <= MaxSamples,
           algorithm = "reno" => ssthresh' >= MinCWnd
    PROVE  WindowInv'
  <1>1. cwnd' \in Nat /\ MinCWnd <= cwnd' /\ cwnd' <= MaxCWnd /\ cwnd' <= Widest /\ touched' = TRUE
    BY WindowSet
  <1>. QED
    BY <1>1 DEF WindowInv, WindowProtected, Widest, MinCWnd

LEMMA HalvedWindow ==
    ASSUME WindowInv
    PROVE  Halved \in Nat /\ Halved >= MinCWnd
  <1>1. cwnd \div 2 \in Nat
    BY DEF WindowInv
  <1>. QED
    BY <1>1, Parameters, MaxOfTwo DEF Halved

LEMMA RenoAnswers ==
    ASSUME WindowInv, algorithm = "reno", algorithm' = algorithm, RenoDuplicate \/ RenoAck
    PROVE  WindowInv'
  <1>. USE DEF WindowInv
  <1>1. ssthresh >= MinCWnd
    BY DEF WindowProtected
  <1>2. CASE RenoDuplicate
    <2>. DEFINE n == CASE dupAckCount < 2 -> cwnd
                       [] dupAckCount = 2 -> Halved + 3 * PacketSize
                       [] OTHER -> cwnd + PacketSize
    <2>1. n \in Int
      <3>1. cwnd \in Int /\ cwnd + PacketSize \in Int
        BY Parameters
      <3>2. Halved \in Int
        BY HalvedWindow
      <3>. HIDE DEF WindowInv
      <3>3. Halved + 3 * PacketSize \in Int
        BY <3>2, Parameters
      <3>. QED
        BY <3>1, <3>3
    <2>2. setCongestionWindow(n)
      BY <1>2 DEF RenoDuplicate
    <2>. HIDE DEF n
    <2>3. dupAckCount' \in 0..4 /\ target' = target /\ bbr' = bbr
      BY <1>2 DEF RenoDuplicate
    <2>4. ssthresh' \in Nat /\ ssthresh' >= MinCWnd
      BY <1>1, <1>2, HalvedWindow DEF RenoDuplicate
    <2>. QED
      BY <2>1, <2>2, <2>3, <2>4, WindowKept
  <1>3. CASE RenoAck
    <2>1. Increase \in Int
      <3>1. CASE cwnd < ssthresh
        BY <3>1, Parameters DEF Increase
      <3>2. CASE ~(cwnd < ssthresh)
        <4>1. cwnd \in Nat /\ cwnd >= 1 /\ PacketSize * PacketSize \in Nat
          BY <1>1, <3>2, Parameters
        <4>. DEFINE x == PacketSize * PacketSize
        <4>. HIDE DEF x
        <4>2. x \div cwnd \in Int
          BY <4>1 DEF x
        <4>. QED
          BY <3>2, <4>2 DEF Increase, x
      <3>. QED
        BY <3>1, <3>2
    <2>2. cwnd + Increase \in Int
      BY <2>1
    <2>3. setCongestionWindow(cwnd + Increase) /\ dupAckCount' \in 0..4
          /\ UNCHANGED <<ssthresh, target, bbr>>
      BY <1>3 DEF RenoAck
    <2>. QED
      BY <1>1, <2>2, <2>3, WindowKept
  <1>. QED
    BY <1>2, <1>3

LEMMA CubicAnswers ==
    ASSUME WindowInv, algorithm = "cubic", algorithm' = algorithm, CubicAck
    PROVE  WindowInv'
  <1>. USE DEF WindowInv
  <1>1. UNCHANGED <<ssthresh, dupAckCount, bbr>>
    BY DEF CubicAck
  <1>2. \E n \in Int : setCongestionWindow(n) /\ target' \in Nat
    <2>1. CASE cwnd < ssthresh
      <3>1. cwnd + PacketSize \in Int
        BY Parameters
      <3>. QED
        BY <2>1, <3>1 DEF CubicAck
    <2>2. CASE ~(cwnd < ssthresh)
      <3>1. PICK now \in target..(MaxCWnd + PacketSize) :
               /\ target' = now
               /\ setCongestionWindow(IF now > cwnd THEN cwnd + Min({now - cwnd, PacketSize}) ELSE cwnd)
        BY <2>2 DEF CubicAck
      <3>2. now \in Nat
        BY Parameters
      <3>3. Min({now - cwnd, PacketSize}) \in Int
        <4>. DEFINE room == now - cwnd
        <4>1. room \in Int /\ PacketSize \in Int
          BY <3>2, Parameters
        <4>. HIDE DEF room
        <4>2. Min({room, PacketSize}) = IF room <= PacketSize THEN room ELSE PacketSize
          BY <4>1, MaxOfTwo
        <4>. QED
          BY <4>1, <4>2 DEF room
      <3>. DEFINE n == IF now > cwnd THEN cwnd + Min({now - cwnd, PacketSize}) ELSE cwnd
      <3>4. n \in Int
        BY <3>3
      <3>. QED
        BY <3>1, <3>2, <3>4
    <2>. QED
      BY <2>1, <2>2
  <1>. QED
    BY <1>1, <1>2, WindowKept

LEMMA VegasAnswers ==
    ASSUME WindowInv, algorithm = "vegas", algorithm' = algorithm,
           NEW size \in Nat, NEW new \in Nat, VegasAck(size, new)
    PROVE  WindowInv'
  <1>. USE DEF WindowInv
  <1>. DEFINE diff == Ticks * (cwnd * new - size * minRTT')
              slow == diff < 3 * PacketSize * new * minRTT'
              fast == diff > 6 * PacketSize * new * minRTT'
              n == CASE slow -> cwnd + PacketSize [] fast -> cwnd - PacketSize [] OTHER -> cwnd
  <1>1. /\ UNCHANGED <<ssthresh, dupAckCount, target, bbr>>
        /\ UNCHANGED <<cwnd, touched>> \/ setCongestionWindow(n)
    BY DEF VegasAck
  <1>. HIDE DEF slow, fast
  <1>2. n \in Int
    BY Parameters
  <1>. HIDE DEF n
  <1>3. CASE UNCHANGED <<cwnd, touched>>
    BY <1>1, <1>3 DEF WindowProtected
  <1>4. CASE setCongestionWindow(n)
    BY <1>1, <1>2, <1>4, WindowKept
  <1>. QED
    BY <1>1, <1>3, <1>4

(* The estimate of BBR is the greatest of its samples. *)
LEMMA EstimateNat ==
    ASSUME NEW samples \in Seq(Int)
    PROVE  Estimate(samples) \in Nat
  <1>. DEFINE S == {0} \cup ToSet(samples)
  <1>1. /\ DOMAIN samples = 1..Len(samples) /\ Len(samples) \in Nat
        /\ samples \in [1..Len(samples) -> Int]
    OBVIOUS
  <1>2. IsFiniteSet(ToSet(samples)) /\ ToSet(samples) \subseteq Int
    <2>1. samples \in [1..Len(samples) -> ToSet(samples)]
      BY <1>1 DEF ToSet
    <2>2. \A y \in ToSet(samples) : \E i \in 1..Len(samples) : samples[i] = y
      BY <1>1 DEF ToSet
    <2>3. ExistsSurjection(1..Len(samples), ToSet(samples))
      BY <2>1, <2>2 DEF ExistsSurjection, Surjection
    <2>. QED
      BY <1>1, <2>3, FS_NatSurjection DEF ToSet
  <1>3. IsFiniteSet(S) /\ S \subseteq Int /\ 0 \in S
    <2>1. IsFiniteSet(ToSet(samples) \cup {0})
      BY <1>2, FS_AddElement
    <2>2. S = ToSet(samples) \cup {0}
      OBVIOUS
    <2>. HIDE DEF S
    <2>. QED
      BY <1>2, <2>1, <2>2
  <1>. HIDE DEF S
  <1>4. Max(S) \in S /\ Max(S) >= 0
    BY <1>3, MaxOfFinite
  <1>. QED
    BY <1>3, <1>4 DEF Estimate, S

LEMMA BBRAnswers ==
    ASSUME WindowInv, minRTT' \in Nat, algorithm = "bbr", algorithm' = algorithm,
           NEW size \in Nat, NEW new \in Nat, BBRAck(size, new)
    PROVE  WindowInv'
  <1>. USE DEF WindowInv
  <1>. DEFINE bw == Bandwidth(size, new)
              samples == updateBandwidth(bw)
              estimate == Estimate(samples)
              wide == 2 * estimate * minRTT'
  <1>1. bw \in Int
    <2>. DEFINE x == size * Ticks
    <2>1. x \in Int
      BY Parameters
    <2>. HIDE DEF x
    <2>2. new # 0 => x \div new \in Int
      BY <2>1
    <2>. QED
      BY <2>2 DEF Bandwidth, x
  <1>. HIDE DEF bw
  <1>2. samples \in Seq(Int) /\ Len(samples) <= MaxSamples
    <2>. DEFINE more == Append(bbr.samples, bw)
    <2>1. /\ bbr.samples \in Seq(Int) /\ Len(bbr.samples) <= MaxSamples /\ Len(bbr.samples) \in Nat
      OBVIOUS
    <2>2. more \in Seq(Int) /\ Len(more) = Len(bbr.samples) + 1 /\ more # <<>>
      BY <1>1, <2>1, AppendProperties
    <2>. HIDE DEF more
    <2>3. Tail(more) \in Seq(Int) /\ Len(Tail(more)) = Len(more) - 1
      <3>. HIDE DEF WindowInv, samples
      <3>. QED
        BY <2>2, HeadTailProperties
    <2>4. samples = IF Len(more) > MaxSamples THEN Tail(more) ELSE more
      BY DEF updateBandwidth, more
    <2>. HIDE DEF WindowInv, samples
    <2>. QED
      BY <2>1, <2>2, <2>3, <2>4, Parameters
  <1>. HIDE DEF samples
  <1>3. estimate \in Nat
    BY <1>2, EstimateNat
  <1>. HIDE DEF estimate
  <1>4. wide \in Int
    BY <1>3
  <1>5. /\ \E state \in BBRState(bw, estimate, inFlight') : bbr' = [samples |-> samples, state |-> state]
        /\ setCongestionWindow(wide \div Ticks)
        /\ UNCHANGED <<ssthresh, dupAckCount, target>>
    BY DEF BBRAck, estimate, samples, bw
  <1>. HIDE DEF wide
  <1>6. wide \div Ticks \in Int
    BY <1>4, Parameters
  <1>7. bbr' \in [samples : Seq(Int), state : BBRStates] /\ Len(bbr'.samples) <= MaxSamples
    <2>1. \A state \in BBRState(bw, estimate, inFlight') : state \in BBRStates
      BY DEF BBRState, BBRStates
    <2>. QED
      BY <1>2, <1>5, <2>1
  <1>. QED
    BY <1>5, <1>6, <1>7, WindowKept

LEMMA AckKept ==
    ASSUME WindowInv, RttInv, algorithm' = algorithm, NEW size \in Nat, NEW new \in Rtts,
           OnAckReceived(size, new)
    PROVE  WindowInv' /\ RttInv' /\ inFlight' = inFlight - size
  <1>1. inFlight' = inFlight - size /\ updateRTT(new) /\ new \in Nat
    BY Parameters DEF OnAckReceived
  <1>2. RttInv' /\ minRTT' \in Nat
    BY <1>1, RttKept
  <1>3. CASE algorithm = "reno"
    BY <1>1, <1>2, <1>3, RenoAnswers DEF OnAckReceived
  <1>4. CASE algorithm = "cubic"
    BY <1>1, <1>2, <1>4, CubicAnswers DEF OnAckReceived
  <1>5. CASE algorithm = "vegas"
    BY <1>1, <1>2, <1>5, VegasAnswers DEF OnAckReceived
  <1>6. CASE algorithm = "bbr"
    BY <1>1, <1>2, <1>6, BBRAnswers DEF OnAckReceived
  <1>7. algorithm \in {"reno", "cubic", "vegas", "bbr"}
    BY CongestionAssumption DEF WindowInv
  <1>. QED
    BY <1>1, <1>2, <1>3, <1>4, <1>5, <1>6, <1>7

LEMMA LossKept ==
    ASSUME WindowInv, RttInv, algorithm' = algorithm, OnPacketLost
    PROVE  WindowInv' /\ RttInv' /\ inFlight' = inFlight
  <1>1. UNCHANGED <<inFlight, rtt, minRTT, dupAckCount, bbr>>
    BY DEF OnPacketLost, rttVars
  <1>2. RttInv'
    BY <1>1 DEF RttInv
  <1>3. /\ dupAckCount' \in 0..4 /\ Len(bbr'.samples) <= MaxSamples
        /\ bbr' \in [samples : Seq(Int), state : BBRStates]
        /\ cwnd \in Nat /\ ssthresh \in Nat /\ target \in Nat /\ algorithm \in Algorithms
    BY <1>1 DEF WindowInv
  <1>4. CASE algorithm = "reno"
    <2>1. ssthresh' = Halved /\ setCongestionWindow(Halved) /\ target' = target
      BY <1>4 DEF OnPacketLost, RenoLost
    <2>. QED
      BY <1>1, <1>2, <1>3, <2>1, HalvedWindow, WindowKept
  <1>5. CASE algorithm = "cubic"
    <2>. DEFINE left == (7 * cwnd) \div 10
    <2>1. ssthresh' = left /\ setCongestionWindow(left) /\ target' = left
      BY <1>5 DEF OnPacketLost, CubicLost
    <2>2. left \in Nat
      BY <1>3
    <2>. HIDE DEF left
    <2>. QED
      BY <1>1, <1>2, <1>3, <1>5, <2>1, <2>2, WindowKept
  <1>6. CASE algorithm = "vegas"
    <2>. DEFINE left == cwnd \div 2
    <2>1. ssthresh' = left /\ setCongestionWindow(left) /\ target' = target
      BY <1>6 DEF OnPacketLost, VegasLost
    <2>2. left \in Nat
      BY <1>3
    <2>. HIDE DEF left
    <2>. QED
      BY <1>1, <1>2, <1>3, <1>6, <2>1, <2>2, WindowKept
  <1>7. CASE algorithm = "bbr"
    <2>. DEFINE left == (9 * cwnd) \div 10
    <2>1. setCongestionWindow(left) /\ UNCHANGED <<ssthresh, target>>
      BY <1>7 DEF OnPacketLost, BBRLost
    <2>2. left \in Nat
      BY <1>3
    <2>. HIDE DEF left
    <2>. QED
      BY <1>1, <1>2, <1>3, <1>7, <2>1, <2>2, WindowKept
  <1>8. algorithm \in {"reno", "cubic", "vegas", "bbr"}
    BY <1>3, CongestionAssumption
  <1>. QED
    BY <1>1, <1>2, <1>4, <1>5, <1>6, <1>7, <1>8

(* What fits into the window is not more than there are packets. *)
LEMMA PacketsFit ==
    ASSUME NEW k \in Nat, k * PacketSize <= Widest
    PROVE  k <= Packets
  <1>. DEFINE q == Widest \div PacketSize
  <1>1. PacketSize \in Nat /\ PacketSize >= 1 /\ Widest \in Nat /\ Packets = q
    BY Parameters
  <1>2. q \in Nat /\ Widest < (q + 1) * PacketSize
    <2>1. \A a \in Nat, b \in Nat \ {0} : a \div b \in Nat /\ a < (a \div b + 1) * b
      OBVIOUS
    <2>. QED
      BY <1>1, <2>1
  <1>. HIDE DEF q
  <1>3. ASSUME k >= q + 1
        PROVE  FALSE
    <2>1. \A a, b, c \in Nat : a >= b => a * c >= b * c
      OBVIOUS
    <2>2. k * PacketSize >= (q + 1) * PacketSize
      BY <1>1, <1>2, <1>3, <2>1
    <2>3. k * PacketSize \in Nat /\ (q + 1) * PacketSize \in Nat
      BY <1>1, <1>2
    <2>. QED
      BY <1>1, <1>2, <2>2, <2>3
  <1>. QED
    BY <1>1, <1>2, <1>3

LEMMA CongestionInitially == CongestionInit => CongestionInv
  <1>. SUFFICES ASSUME CongestionInit PROVE CongestionInv
    OBVIOUS
  <1>. USE DEF CongestionInit
  <1>1. WindowInv
    <2>1. bbr \in [samples : Seq(Int), state : BBRStates] /\ Len(bbr.samples) = 0
      BY DEF BBRStates
    <2>2. Len(bbr.samples) <= MaxSamples /\ touched = FALSE /\ dupAckCount \in 0..4
      BY <2>1, Parameters
    <2>3. /\ cwnd \in Nat /\ ssthresh \in Nat /\ target \in Nat
          /\ cwnd <= Widest /\ ssthresh >= MinCWnd
      BY Parameters
    <2>4. algorithm \in Algorithms
      OBVIOUS
    <2>. HIDE DEF CongestionInit
    <2>. QED
      BY <2>1, <2>2, <2>3, <2>4 DEF WindowInv, WindowProtected
  <1>2. RttInv
    BY Parameters DEF RttInv
  <1>3. FlightInv
    <2>1. Packets \in Nat
      <3>1. \A a \in Nat, b \in Nat \ {0} : a \div b \in Nat
        OBVIOUS
      <3>. QED
        BY <3>1, Parameters
    <2>2. PacketSize * 0 = 0
      BY Parameters
    <2>. QED
      BY <2>1, <2>2 DEF FlightInv
  <1>. QED
    BY <1>1, <1>2, <1>3 DEF CongestionInv

(* The packets under way, and what the controller believes of them. *)
LEMMA FlightKept ==
    ASSUME FlightInv, NEW k \in Int, NEW lost \in {0, 1}, outstanding' = outstanding + k,
           outstanding' \in 0..Packets, losses' = losses + lost,
           inFlight' = inFlight + PacketSize * (k + lost)
    PROVE  FlightInv'
  <1>1. /\ losses \in Nat /\ outstanding \in Int /\ PacketSize \in Nat
        /\ inFlight = PacketSize * (outstanding + losses)
    BY Parameters DEF FlightInv
  <1>2. \A a, b, c \in Int : c * (a + b) = c * a + c * b
    OBVIOUS
  <1>. DEFINE old == outstanding + losses
              more == k + lost
  <1>3. old \in Int /\ more \in Int /\ outstanding' + losses' = old + more
    BY <1>1
  <1>4. inFlight = PacketSize * old /\ inFlight' = inFlight + PacketSize * more
    BY <1>1
  <1>. HIDE DEF old, more
  <1>5. inFlight' = PacketSize * (old + more)
    BY <1>1, <1>2, <1>3, <1>4
  <1>6. inFlight' = PacketSize * (outstanding' + losses')
    BY <1>3, <1>5
  <1>7. losses' \in Nat
    BY <1>1
  <1>. QED
    BY <1>6, <1>7 DEF FlightInv, Packets

LEMMA CongestionStep ==
    ASSUME CongestionInv, CongestionNext
    PROVE  CongestionInv'
  <1>. USE DEF CongestionInv
  <1>1. /\ outstanding \in Nat /\ outstanding <= Packets /\ Packets \in Nat /\ losses \in Nat
        /\ PacketSize \in Nat /\ inFlight \in Int
    <2>1. \A a \in Nat, b \in Nat \ {0} : a \div b \in Nat
      OBVIOUS
    <2>2. Packets \in Nat /\ PacketSize \in Nat
      BY <2>1, Parameters
    <2>3. outstanding \in Nat /\ outstanding <= Packets /\ losses \in Nat
      BY <2>2 DEF FlightInv
    <2>4. PacketSize * (outstanding + losses) \in Int
      BY <2>2, <2>3
    <2>. QED
      BY <2>2, <2>3, <2>4 DEF FlightInv
  <1>2. CASE Send
    <2>1. WindowInv' /\ RttInv'
      BY <1>2 DEF Send, WindowInv, RttInv, WindowProtected, rttVars, Widest, MinCWnd
    <2>2. (outstanding + 1) * PacketSize <= Widest
      <3>1. (outstanding + 1) * PacketSize <= cwnd /\ cwnd <= Widest
        BY <1>2 DEF Send, WindowInv
      <3>2. (outstanding + 1) * PacketSize \in Int /\ cwnd \in Int /\ Widest \in Int
        BY <1>1, Parameters DEF WindowInv
      <3>. DEFINE x == (outstanding + 1) * PacketSize
      <3>. HIDE DEF x
      <3>3. x <= Widest
        BY <3>1, <3>2 DEF x
      <3>. QED
        BY <3>3 DEF x
    <2>3. outstanding + 1 <= Packets
      BY <1>1, <2>2, PacketsFit
    <2>4. /\ outstanding' = outstanding + 1 /\ losses' = losses + 0
          /\ inFlight' = inFlight + PacketSize * (1 + 0)
      BY <1>1, <1>2 DEF Send
    <2>5. FlightInv'
      BY <1>1, <2>3, <2>4, FlightKept
    <2>. QED
      BY <2>1, <2>5
  <1>3. CASE Acked
    <2>1. PICK new \in Rtts : OnAckReceived(PacketSize, new)
      BY <1>3 DEF Acked
    <2>2. outstanding > 0 /\ outstanding' = outstanding - 1 /\ algorithm' = algorithm /\ losses' = losses
      BY <1>3 DEF Acked
    <2>3. WindowInv' /\ RttInv' /\ inFlight' = inFlight - PacketSize
      BY <1>1, <2>1, <2>2, AckKept
    <2>4. /\ outstanding' = outstanding + (-1) /\ losses' = losses + 0
          /\ inFlight' = inFlight + PacketSize * (-1 + 0)
      BY <1>1, <2>2, <2>3
    <2>5. FlightInv'
      BY <1>1, <2>2, <2>4, FlightKept
    <2>. QED
      BY <2>3, <2>5
  <1>4. CASE Duplicated
    <2>1. PICK new \in Rtts : OnAckReceived(0, new)
      BY <1>4 DEF Duplicated
    <2>2. outstanding' = outstanding /\ algorithm' = algorithm /\ losses' = losses
      BY <1>4 DEF Duplicated
    <2>3. WindowInv' /\ RttInv' /\ inFlight' = inFlight - 0
      BY <2>1, <2>2, AckKept
    <2>4. FlightInv'
      BY <1>1, <2>2, <2>3 DEF FlightInv, Packets
    <2>. QED
      BY <2>3, <2>4
  <1>5. CASE Lost
    <2>1. /\ outstanding > 0 /\ outstanding' = outstanding - 1 /\ losses' = losses + 1
          /\ OnPacketLost /\ algorithm' = algorithm
      BY <1>5 DEF Lost
    <2>2. WindowInv' /\ RttInv' /\ inFlight' = inFlight
      BY <2>1, LossKept
    <2>3. outstanding' = outstanding + (-1) /\ inFlight' = inFlight + PacketSize * (-1 + 1)
      BY <1>1, <2>1, <2>2
    <2>4. FlightInv'
      BY <1>1, <2>1, <2>3, FlightKept
    <2>. QED
      BY <2>2, <2>4
  <1>. QED
    BY <1>2, <1>3, <1>4, <1>5 DEF CongestionNext

(* Whatever is measured, repeated and lost, and by whichever of the four   *)
(* algorithms, a window that was set lies between two packets and the      *)
(* greatest one, Reno's threshold is not below two packets, the least RTT  *)
(* is not above the smoothed one, and the controller believes to be under  *)
(* way what is, and all that was ever lost (controller.go:63-129).         *)
THEOREM CongestionHolds == CongestionSpec => []WindowHolds
  <1>1. CongestionInit => CongestionInv
    BY CongestionInitially
  <1>2. CongestionInv /\ [CongestionNext]_ccVars => CongestionInv'
    <2>1. ASSUME CongestionInv, UNCHANGED ccVars
          PROVE  CongestionInv'
      BY <2>1 DEF ccVars, rttVars, CongestionInv, WindowInv, RttInv, FlightInv, WindowProtected,
         Widest, MinCWnd, Packets
    <2>. QED
      BY <2>1, CongestionStep
  <1>3. CongestionInv => WindowHolds
    BY DEF CongestionInv, WindowInv, RttInv, FlightInv, WindowHolds, CongestionTypeOK, EstimatesHold,
       BBRStates
  <1>. QED
    BY <1>1, <1>2, <1>3, PTL DEF CongestionSpec

(***************************************************************************)
(* State machines                                                          *)
(***************************************************************************)
MachineRecord == [current : States, initial : States]
CallRecord == [what : Events \cup {"reset", "none"}, left : SUBSET Machines]
EventRecord == [event : Events \cup {"none"}, number : Nat]
WorkerRecord == [at : {"none", "selects", "triggers", "gone"}, late : BOOLEAN, event : EventRecord]

(* What the fields hold; who follows the callbacks knows the state.        *)
FollowInv ==
    /\ machine \in [Machines -> MachineRecord] /\ saved \in MachineRecord
    /\ entered \in [Machines -> Seq(States)] /\ disturbed \subseteq Machines
    /\ CallbacksFollow
RulesInv ==
    /\ rules \in [Machines -> SUBSET (Rules \cup LateRules)]
    /\ \A m \in Machines : \A r, t \in rules[m] : r.from = t.from /\ r.event = t.event => r = t
GroupInv == group \subseteq Machines /\ call \in CallRecord

(* The events in the queue have the last numbers that were given.          *)
QueueInv ==
    /\ queue \in Seq(EventRecord) /\ Len(queue) <= QueueSize
    /\ accepted \in 0..MaxEvents
    /\ \A i \in 1..Len(queue) : queue[i].number = accepted - Len(queue) + i

(* What a single worker has handled, has in its hands and has not yet      *)
(* taken are the numbers up to accepted.  Who is at an event after Stop    *)
(* has returned was started after that.                                    *)
Alone == \A w \in 2..MaxStarts : workers[w].at = "none"
WorkersInv ==
    /\ workers \in [1..MaxStarts -> WorkerRecord] /\ handled \in Seq(Nat)
    /\ stop \in {"no", "closed", "returned"}
    /\ stop = "returned" => \A w \in 1..MaxStarts : workers[w].late \/ workers[w].at \in {"none", "gone"}
OrderInv ==
    Alone => /\ \A i \in 1..Len(handled) : handled[i] = i
             /\ workers[1].at = "triggers" =>
                    /\ workers[1].event.number = Len(handled) + 1
                    /\ Len(handled) + 1 + Len(queue) = accepted
             /\ workers[1].at # "triggers" => Len(handled) + Len(queue) = accepted

MachinesInv == FollowInv /\ RulesInv /\ GroupInv /\ QueueInv /\ WorkersInv /\ OrderInv

------------------------------------------------------------------------------
(* One turn of the loop of getAncestors.                                   *)
Climb(m, u) ==
    IF m = "hsm" /\ Last(u) \in DOMAIN Parent THEN Append(u, Parent[Last(u)]) ELSE u

LEMMA ClimbType ==
    ASSUME NEW m, NEW u \in Seq(States)
    PROVE  Climb(m, u) \in Seq(States)
  <1>1. Last(u) \in DOMAIN Parent => Parent[Last(u)] \in States
    BY MachinesAssumption
  <1>. QED
    BY <1>1 DEF Climb

LEMMA ClimbsExist ==
    ASSUME NEW m, NEW s \in States, NEW N \in Nat
    PROVE  \E f \in [0..N -> Seq(States)] :
               f[0] = <<s>> /\ \A i \in 1..N : f[i] = Climb(m, f[i - 1])
  <1> DEFINE S == Seq(States)
             Good(n) == \E f \in [0..n -> S] :
                            f[0] = <<s>> /\ \A i \in 1..n : f[i] = Climb(m, f[i - 1])
             T == {n \in Nat : Good(n)}
  <1>0. <<s>> \in S /\ \A u \in S : Climb(m, u) \in S
    BY ClimbType
  <1>. HIDE DEF S
  <1>1. 0 \in T
    <2> DEFINE f == [i \in 0..0 |-> <<s>>]
    <2>1. f \in [0..0 -> S] /\ f[0] = <<s>> /\ \A i \in 1..0 : f[i] = Climb(m, f[i - 1])
      BY <1>0
    <2>. HIDE DEF f
    <2>. QED
      BY <2>1
  <1>2. ASSUME NEW n \in Nat, n \in T
        PROVE  n + 1 \in T
    <2>1. PICK f \in [0..n -> S] : f[0] = <<s>> /\ \A i \in 1..n : f[i] = Climb(m, f[i - 1])
      BY <1>2
    <2> DEFINE g == [i \in 0..(n + 1) |-> IF i <= n THEN f[i] ELSE Climb(m, f[n])]
    <2>2. f[n] \in S /\ Climb(m, f[n]) \in S
      BY <1>0, <2>1
    <2>3. \A i \in 0..(n + 1) : i \in 0..n \/ i = n + 1
      OBVIOUS
    <2>4. g \in [0..(n + 1) -> S]
      BY <2>1, <2>2, <2>3
    <2>5. g[0] = <<s>>
      BY <2>1
    <2>6. ASSUME NEW i \in 1..(n + 1)
          PROVE  g[i] = Climb(m, g[i - 1])
      <3>1. CASE i <= n
        <4>1. g[i] = f[i] /\ g[i - 1] = f[i - 1]
          BY <3>1
        <4>. QED
          BY <2>1, <3>1, <4>1
      <3>2. CASE i = n + 1
        <4>1. g[i] = Climb(m, f[n]) /\ g[i - 1] = f[n]
          BY <3>2
        <4>. QED
          BY <3>2, <4>1
      <3>. QED
        BY <3>1, <3>2
    <2>. HIDE DEF g
    <2>. QED
      BY <2>4, <2>5, <2>6
  <1>. HIDE DEF T
  <1>3. N \in T
    BY <1>1, <1>2, AllNaturals
  <1>. QED
    BY <1>3 DEF T, S

(* What the loop of getAncestors gathers.                                  *)
LEMMA AncestorsUpTo ==
    ASSUME NEW m \in Machines, NEW s \in States, NEW N \in Nat,
           NEW up, up = [i \in 0..N |-> IF i = 0 THEN <<s>> ELSE Climb(m, up[i - 1])]
    PROVE  up[N] \in Seq(States) /\ (m = "fsm" => up[N] = <<s>>)
  <1> DEFINE T == {n \in Nat : n <= N => up[n] \in Seq(States) /\ (m = "fsm" => up[n] = <<s>>)}
  <1>1. 0 \in T
    <2>1. <<s>> \in Seq(States)
      OBVIOUS
    <2>. QED
      BY <2>1
  <1>2. ASSUME NEW n \in Nat, n \in T
        PROVE  n + 1 \in T
    <2>1. ASSUME n + 1 <= N
          PROVE  up[n + 1] \in Seq(States) /\ (m = "fsm" => up[n + 1] = <<s>>)
      <3>1. n + 1 \in 0..N /\ n + 1 # 0 /\ (n + 1) - 1 = n /\ n <= N
        BY <2>1
      <3>2. up[n + 1] = Climb(m, up[n])
        BY <3>1
      <3>3. m = "fsm" => Climb(m, up[n]) = up[n]
        BY DEF Climb
      <3>. QED
        BY <1>2, <3>1, <3>2, <3>3, ClimbType
    <2>2. n + 1 \in Nat
      OBVIOUS
    <2>. QED
      BY <2>1, <2>2
  <1>. HIDE DEF T
  <1>3. N \in T
    BY <1>1, <1>2, AllNaturals
  <1>. QED
    BY <1>3 DEF T

LEMMA AncestorsType ==
    ASSUME NEW m \in Machines, NEW s \in States
    PROVE  /\ Ancestors(m, s) \in Seq(States)
           /\ m = "fsm" => Ancestors(m, s) = <<s>>
  <1>1. PICK N \in Nat : N = Cardinality(DOMAIN Parent)
    BY MachinesAssumption, FS_Subset, FS_CardinalityType
  <1> DEFINE up == CHOOSE f : f = [i \in 0..N |-> IF i = 0 THEN <<s>> ELSE Climb(m, f[i - 1])]
  <1>2. Ancestors(m, s) = up[N]
    BY <1>1 DEF Ancestors, Climb
  <1>3. PICK f \in [0..N -> Seq(States)] :
            f[0] = <<s>> /\ \A i \in 1..N : f[i] = Climb(m, f[i - 1])
    BY ClimbsExist
  <1>4. \A i \in 0..N : f[i] = IF i = 0 THEN <<s>> ELSE Climb(m, f[i - 1])
    <2>1. \A i \in 0..N : i # 0 => i \in 1..N
      OBVIOUS
    <2>. QED
      BY <1>3, <2>1
  <1>5. f = [i \in 0..N |-> f[i]]
    BY <1>3
  <1>6. f = [i \in 0..N |-> IF i = 0 THEN <<s>> ELSE Climb(m, f[i - 1])]
    BY <1>4, <1>5
  <1>7. up = [i \in 0..N |-> IF i = 0 THEN <<s>> ELSE Climb(m, up[i - 1])]
    BY <1>6
  <1>. HIDE DEF up
  <1>. QED
    BY <1>2, <1>7, AncestorsUpTo

LEMMA ReverseType ==
    ASSUME NEW S, NEW s \in Seq(S)
    PROVE  /\ Reverse(s) \in Seq(S) /\ Len(Reverse(s)) = Len(s)
           /\ \A i \in 1..Len(s) : Reverse(s)[i] = s[Len(s) - i + 1]
  <1>1. Len(s) \in Nat /\ \A i \in 1..Len(s) : s[i] \in S
    BY LenProperties, ElementOfSeq
  <1>2. \A i \in 1..Len(s) : Len(s) - i + 1 \in 1..Len(s)
    BY <1>1
  <1>3. Reverse(s) \in [1..Len(s) -> S]
    BY <1>1, <1>2 DEF Reverse
  <1>4. Reverse(s) \in Seq(S)
    BY <1>1, <1>3, SeqDef
  <1>5. DOMAIN Reverse(s) = 1..Len(s) /\ DOMAIN Reverse(s) = 1..Len(Reverse(s)) /\ Len(Reverse(s)) \in Nat
    BY <1>3, <1>4, LenProperties
  <1>6. Len(Reverse(s)) = Len(s)
    BY <1>1, <1>5
  <1>. QED
    BY <1>4, <1>6 DEF Reverse

LEMMA ChainsType ==
    ASSUME NEW m \in Machines, NEW s \in States
    PROVE  /\ Chains[m][s] \in Seq(States)
           /\ m = "fsm" => Chains[m][s] = <<s>>
  <1>1. Chains[m][s] = Reverse(Ancestors(m, s))
    BY DEF Chains
  <1>2. Ancestors(m, s) \in Seq(States) /\ (m = "fsm" => Ancestors(m, s) = <<s>>)
    BY AncestorsType
  <1>3. Reverse(<<s>>) = <<s>>
    <2>1. <<s>> \in Seq(States) /\ Len(<<s>>) = 1 /\ <<s>>[1] = s
      OBVIOUS
    <2> DEFINE one == <<s>>
    <2>2. one \in Seq(States) /\ Len(one) = 1 /\ one[1] = s
      BY <2>1
    <2>. HIDE DEF one
    <2>3. Reverse(one) \in Seq(States) /\ Len(Reverse(one)) = 1 /\ Reverse(one)[1] = one[1 - 1 + 1]
      BY <2>2, ReverseType
    <2>4. Reverse(one) = one
      BY <2>2, <2>3, SeqEqual
    <2>. QED
      BY <2>4 DEF one
  <1>. QED
    BY <1>1, <1>2, <1>3, ReverseType

(* Two chains have their outermost states in common. *)
LEMMA CommonIs ==
    ASSUME NEW a \in Seq(States), NEW b \in Seq(States)
    PROVE  /\ Common(a, b) \in 0..Len(a) /\ Common(a, b) <= Len(b)
           /\ SubSeq(a, 1, Common(a, b)) = SubSeq(b, 1, Common(a, b))
  <1> DEFINE least == Min({Len(a), Len(b)})
             S == {n \in 0..least : SubSeq(a, 1, n) = SubSeq(b, 1, n)}
  <1>1. Len(a) \in Nat /\ Len(b) \in Nat
    OBVIOUS
  <1>2. least \in Nat /\ least <= Len(a) /\ least <= Len(b)
    <2>1. least = IF Len(a) <= Len(b) THEN Len(a) ELSE Len(b)
      <3>1. Len(a) \in Int /\ Len(b) \in Int
        BY <1>1
      <3>2. least = IF Len(a) <= Len(b) THEN Len(a) ELSE Len(b)
        BY <3>1, MaxOfTwo, Zenon
      <3>. QED
        BY <3>2
    <2>. QED
      BY <1>1, <2>1
  <1>3. Common(a, b) = Max(S)
    BY DEF Common
  <1>. HIDE DEF least
  <1>4. S \subseteq Int /\ 0 \in S
    <2>1. SubSeq(a, 1, 0) = SubSeq(b, 1, 0)
      BY SubSeqEmpty
    <2>. QED
      BY <1>2, <2>1
  <1>5. IsFiniteSet(S)
    <2>1. IsFiniteSet(0..least) /\ S \subseteq 0..least
      BY <1>2, FS_Interval
    <2>. QED
      BY <2>1, FS_Subset
  <1>6. Max(S) \in S
    <2>. HIDE DEF S
    <2>. QED
      BY <1>4, <1>5, MaxOfFinite
  <1>7. Common(a, b) \in S
    BY <1>3, <1>6
  <1>8. Common(a, b) \in 0..least /\ SubSeq(a, 1, Common(a, b)) = SubSeq(b, 1, Common(a, b))
    BY <1>7
  <1>. QED
    BY <1>1, <1>2, <1>8

(* A chain that is left from the inside out as far as its part c.          *)
LEMMA LeaveOne ==
    ASSUME NEW a \in Seq(States), NEW n \in 1..Len(a)
    PROVE  Leave(SubSeq(a, 1, n), a[n]) = SubSeq(a, 1, n - 1)
  <1> DEFINE b == SubSeq(a, 1, n)
  <1>1. Len(a) \in Nat /\ \A i \in 1..n : a[i] \in States
    BY ElementOfSeq
  <1>2. b \in Seq(States) /\ Len(b) = n /\ \A i \in 1..n : b[i] = a[i]
    BY <1>1, SubSeqProperties
  <1>3. b # <<>> /\ Last(b) = a[n]
    BY <1>2 DEF Last
  <1>. HIDE DEF b
  <1>4. Leave(b, a[n]) = SubSeq(b, 1, n - 1)
    BY <1>2, <1>3 DEF Leave, Front
  <1> DEFINE c == SubSeq(b, 1, n - 1)
             d == SubSeq(a, 1, n - 1)
  <1>5. c \in Seq(States) /\ Len(c) = n - 1 /\ \A i \in 1..(n - 1) : c[i] = b[i]
    <2>1. \A i \in 1..(n - 1) : b[i] \in States
      BY <1>1, <1>2
    <2>. QED
      BY <2>1, SubSeqProperties
  <1>6. d \in Seq(States) /\ Len(d) = n - 1 /\ \A i \in 1..(n - 1) : d[i] = a[i]
    BY <1>1, SubSeqProperties
  <1>. HIDE DEF c, d
  <1>7. c = d
    BY <1>2, <1>5, <1>6, SeqEqual
  <1>. QED
    BY <1>4, <1>7 DEF b, c, d

LEMMA ToldIs ==
    ASSUME NEW a \in Seq(States), NEW c \in 0..Len(a), NEW exits \in Seq(States), NEW enters,
           Len(exits) = Len(a) - c,
           \A i \in 1..Len(exits) : exits[i] = a[Len(a) - i + 1]
    PROVE  Told(a, exits, enters) = SubSeq(a, 1, c) \o enters
  <1>1. PICK N : N = Len(exits)
    OBVIOUS
  <1>2. Len(a) \in Nat /\ N \in 0..Len(a) /\ Len(a) - N = c
    BY <1>1
  <1> DEFINE left == CHOOSE f : f = [i \in 0..N |-> IF i = 0 THEN a ELSE Leave(f[i - 1], exits[i])]
             g == [i \in 0..N |-> SubSeq(a, 1, Len(a) - i)]
  <1>3. Told(a, exits, enters) = left[N] \o enters
    BY <1>1 DEF Told
  <1>4. ASSUME NEW i \in 0..N
        PROVE  g[i] = IF i = 0 THEN a ELSE Leave(g[i - 1], exits[i])
    <2>1. CASE i = 0
      BY <1>2, <2>1, SubSeqFull
    <2>2. CASE i # 0
      <3>1. i - 1 \in 0..N /\ i \in 1..Len(exits) /\ Len(a) - (i - 1) = Len(a) - i + 1
            /\ Len(a) - i + 1 \in 1..Len(a) /\ (Len(a) - i + 1) - 1 = Len(a) - i
        BY <1>1, <1>2, <2>2
      <3>2. g[i - 1] = SubSeq(a, 1, Len(a) - i + 1) /\ g[i] = SubSeq(a, 1, Len(a) - i)
        BY <3>1
      <3>3. exits[i] = a[Len(a) - i + 1]
        BY <3>1
      <3>. HIDE DEF g
      <3>4. Leave(SubSeq(a, 1, Len(a) - i + 1), a[Len(a) - i + 1]) = SubSeq(a, 1, Len(a) - i)
        BY <3>1, LeaveOne
      <3>. QED
        BY <2>2, <3>2, <3>3, <3>4
    <2>. QED
      BY <2>1, <2>2
  <1>5. g = [i \in 0..N |-> g[i]]
    OBVIOUS
  <1>. HIDE DEF g
  <1>6. g = [i \in 0..N |-> IF i = 0 THEN a ELSE Leave(g[i - 1], exits[i])]
    BY <1>4, <1>5
  <1>7. left = [i \in 0..N |-> IF i = 0 THEN a ELSE Leave(left[i - 1], exits[i])]
    BY <1>6
  <1>. HIDE DEF left
  <1> DEFINE T == {n \in Nat : n <= N => left[n] = SubSeq(a, 1, Len(a) - n)}
  <1>8. 0 \in T
    <2>1. left[0] = a
      BY <1>2, <1>7
    <2>. QED
      BY <1>2, <2>1, SubSeqFull
  <1>9. ASSUME NEW n \in Nat, n \in T
        PROVE  n + 1 \in T
    <2>1. ASSUME n + 1 <= N
          PROVE  left[n + 1] = SubSeq(a, 1, Len(a) - (n + 1))
      <3>1. n + 1 \in 0..N /\ n + 1 # 0 /\ (n + 1) - 1 = n /\ n <= N /\ n + 1 \in 1..Len(exits)
        BY <1>1, <1>2, <2>1
      <3>2. left[n + 1] = Leave(left[n], exits[n + 1])
        BY <1>7, <3>1
      <3>3. left[n] = SubSeq(a, 1, Len(a) - n)
        BY <1>9, <3>1
      <3>4. exits[n + 1] = a[Len(a) - n]
        <4>1. Len(a) - (n + 1) + 1 = Len(a) - n
          BY <1>2
        <4>. QED
          BY <3>1, <4>1
      <3>5. Len(a) - n \in 1..Len(a) /\ (Len(a) - n) - 1 = Len(a) - (n + 1)
        BY <1>2, <3>1
      <3>. QED
        BY <3>2, <3>3, <3>4, <3>5, LeaveOne
    <2>2. n + 1 \in Nat
      OBVIOUS
    <2>. QED
      BY <2>1, <2>2
  <1>. HIDE DEF T
  <1>10. N \in Nat
    BY <1>2
  <1>11. N \in T
    BY <1>8, <1>9, <1>10, AllNaturals
  <1>12. left[N] = SubSeq(a, 1, Len(a) - N)
    BY <1>11 DEF T
  <1>. QED
    BY <1>2, <1>3, <1>12

(* The callbacks of a transition lead from one chain to the other.         *)
LEMMA ToldFollows ==
    ASSUME NEW m \in Machines, NEW from \in States, NEW to \in States
    PROVE  Told(Chains[m][from], ExitPath(m, from, to), EnterPath(m, from, to)) = Chains[m][to]
  <1> DEFINE a == Chains[m][from]
             b == Chains[m][to]
             exits == ExitPath(m, from, to)
             enters == EnterPath(m, from, to)
  <1>1. a \in Seq(States) /\ b \in Seq(States) /\ Len(a) \in Nat /\ Len(b) \in Nat
    BY ChainsType
  <1>2. CASE m = "fsm"
    <2>1. a = <<from>> /\ b = <<to>> /\ exits = <<from>> /\ enters = <<to>>
      BY <1>2, ChainsType DEF ExitPath, EnterPath
    <2>. HIDE DEF a, b, exits, enters
    <2>2. exits \in Seq(States) /\ Len(a) = 1 /\ Len(exits) = Len(a) - 0
          /\ \A i \in 1..Len(exits) : exits[i] = a[Len(a) - i + 1]
      BY <2>1
    <2>3. Told(a, exits, enters) = SubSeq(a, 1, 0) \o enters
      <3>1. 0 \in 0..Len(a) /\ a \in Seq(States)
        BY <1>1 DEF a
      <3>. QED
        BY <2>2, <3>1, ToldIs
    <2>4. SubSeq(a, 1, 0) = <<>>
      BY SubSeqEmpty
    <2>5. <<>> \o enters = b
      <3>1. <<>> \o <<to>> = <<to>>
        OBVIOUS
      <3>. QED
        BY <2>1, <3>1
    <2>. QED
      BY <2>3, <2>4, <2>5 DEF a, b, exits, enters
  <1>3. CASE m # "fsm"
    <2> DEFINE c == Common(a, b)
               s == SubSeq(a, c + 1, Len(a))
    <2>1. exits = Reverse(s) /\ enters = SubSeq(b, c + 1, Len(b))
      BY <1>3 DEF ExitPath, EnterPath
    <2>. HIDE DEF a, b, exits, enters
    <2>2. c \in 0..Len(a) /\ c <= Len(b) /\ SubSeq(a, 1, c) = SubSeq(b, 1, c)
      BY <1>1, CommonIs
    <2>. HIDE DEF c
    <2>3. \A i \in (c + 1)..Len(a) : a[i] \in States
      BY <1>1, <2>2, ElementOfSeq
    <2>4. s \in Seq(States) /\ Len(s) = Len(a) - c /\ \A i \in 1..(Len(a) - c) : s[i] = a[c + i]
      <3>1. /\ SubSeq(a, c + 1, Len(a)) \in Seq(States)
            /\ Len(SubSeq(a, c + 1, Len(a))) = IF c + 1 <= Len(a) THEN Len(a) - (c + 1) + 1 ELSE 0
            /\ \A i \in 1..(Len(a) - (c + 1) + 1) : SubSeq(a, c + 1, Len(a))[i] = a[c + 1 + i - 1]
        <4>1. c + 1 \in Int /\ Len(a) \in Int
          BY <1>1, <2>2
        <4>. QED
          BY <2>3, <4>1, SubSeqProperties
      <3>. QED
        BY <1>1, <2>2, <3>1
    <2>. HIDE DEF s
    <2>5. exits \in Seq(States) /\ Len(exits) = Len(a) - c
          /\ \A i \in 1..Len(exits) : exits[i] = a[Len(a) - i + 1]
      <3>1. exits \in Seq(States) /\ Len(exits) = Len(s)
            /\ \A i \in 1..Len(s) : exits[i] = s[Len(s) - i + 1]
        BY <2>1, <2>4, ReverseType
      <3>2. \A i \in 1..Len(s) : Len(s) - i + 1 \in 1..(Len(a) - c)
                /\ c + (Len(s) - i + 1) = Len(a) - i + 1
        BY <1>1, <2>2, <2>4
      <3>. QED
        BY <2>4, <3>1, <3>2
    <2>6. Told(a, exits, enters) = SubSeq(a, 1, c) \o enters
      BY <1>1, <2>2, <2>5, ToldIs
    <2>7. SubSeq(b, 1, c) \o SubSeq(b, c + 1, Len(b)) = SubSeq(b, 1, Len(b))
      <3>1. 1 \in 1..(Len(b) + 1) /\ c \in 0..Len(b) /\ Len(b) \in c..Len(b)
        BY <1>1, <2>2
      <3>2. c \in (1 - 1)..Len(b)
        BY <3>1
      <3>. QED
        BY <1>1, <3>1, <3>2, ConcatAdjacentSubSeq
    <2>8. SubSeq(b, 1, Len(b)) = b
      BY <1>1, SubSeqFull
    <2>. QED
      BY <2>1, <2>2, <2>6, <2>7, <2>8 DEF a, b, exits, enters
  <1>. QED
    BY <1>2, <1>3

------------------------------------------------------------------------------
(* What changes the state of a machine.                                    *)
LEMMA MatchingRules ==
    ASSUME NEW m \in Machines, RulesInv, NEW e, NEW r \in Matching(m, e)
    PROVE  r.to \in States
  <1>1. r \in rules[m]
    BY DEF Matching
  <1>2. r \in Rules \cup LateRules
    BY <1>1 DEF RulesInv
  <1>. QED
    BY <1>2, MachinesAssumption

LEMMA FireFollows ==
    ASSUME FollowInv, saved' = saved, NEW m \in Machines, NEW r, r.to \in States, Fire(m, r)
    PROVE  FollowInv'
  <1> DEFINE from == machine[m].current
             exits == ExitPath(m, from, r.to)
             enters == EnterPath(m, from, r.to)
             between == IF m = "fsm" THEN 1 ELSE 0
             total == Len(exits) + between + Len(enters)
  <1>1. from \in States /\ machine[m] \in MachineRecord /\ r.to \in States
    BY DEF FollowInv, MachineRecord
  <1>2. Told(Chains[m][from], exits, enters) = Chains[m][r.to]
    BY <1>1, ToldFollows
  <1>3. PICK ok \in 0..total :
            /\ machine' = IF ok >= Len(exits) + between THEN [machine EXCEPT ![m].current = r.to] ELSE machine
            /\ disturbed' = IF ok < total THEN disturbed \cup {m} ELSE disturbed
            /\ entered' = [entered EXCEPT ![m] = IF m \in disturbed' THEN <<>>
                                                 ELSE Told(entered[m], exits, enters)]
    BY DEF Fire
  <1>4. Len(exits) \in Nat /\ Len(enters) \in Nat
    <2>1. Chains[m][from] \in Seq(States) /\ Chains[m][r.to] \in Seq(States)
      BY <1>1, ChainsType
    <2>2. CASE m = "fsm"
      <3>1. exits = <<from>> /\ enters = <<r.to>>
        BY <2>2 DEF ExitPath, EnterPath
      <3>. QED
        BY <3>1
    <2>3. CASE m # "fsm"
      <3> DEFINE a == Chains[m][from]
                 b == Chains[m][r.to]
                 c == Common(a, b)
      <3>1. exits = Reverse(SubSeq(a, c + 1, Len(a))) /\ enters = SubSeq(b, c + 1, Len(b))
        BY <2>3 DEF ExitPath, EnterPath
      <3>2. a \in Seq(States) /\ b \in Seq(States)
        BY <2>1
      <3>. HIDE DEF a, b, exits, enters
      <3>3. c \in 0..Len(a) /\ Len(a) \in Nat /\ Len(b) \in Nat
        <4>. HIDE DEF from, total
        <4>1. Common(a, b) \in 0..Len(a)
          BY <3>2, CommonIs
        <4>. QED
          BY <3>2, <4>1
      <3>. HIDE DEF c
      <3>4. (\A i \in (c + 1)..Len(a) : a[i] \in States) /\ (\A i \in (c + 1)..Len(b) : b[i] \in States)
        BY <3>3, <3>2, ElementOfSeq
      <3>5. SubSeq(a, c + 1, Len(a)) \in Seq(States) /\ SubSeq(b, c + 1, Len(b)) \in Seq(States)
        BY <3>3, <3>4, SubSeqProperties
      <3>. QED
        BY <3>1, <3>5, ReverseType, LenProperties
    <2>. QED
      BY <2>2, <2>3
  <1>. HIDE DEF exits, enters
  <1>5. machine' \in [Machines -> MachineRecord] /\ \A n \in Machines \ {m} : machine'[n] = machine[n]
    BY <1>1, <1>3 DEF FollowInv, MachineRecord
  <1>6. disturbed' \subseteq Machines /\ disturbed \subseteq disturbed'
        /\ disturbed' \subseteq disturbed \cup {m}
    BY <1>3 DEF FollowInv
  <1>7. m \notin disturbed' => machine'[m].current = r.to /\ entered'[m] = Chains[m][r.to]
    <2>. SUFFICES ASSUME m \notin disturbed'
                  PROVE  machine'[m].current = r.to /\ entered'[m] = Chains[m][r.to]
      OBVIOUS
    <2>1. ok = total /\ m \notin disturbed
      BY <1>3, <1>4
    <2>2. ok >= Len(exits) + between
      BY <1>4, <2>1
    <2>3. machine'[m].current = r.to
      BY <1>3, <2>2 DEF FollowInv, MachineRecord
    <2>4. entered[m] = Chains[m][from]
      BY <2>1 DEF FollowInv, CallbacksFollow
    <2>5. entered'[m] = Told(entered[m], exits, enters)
      BY <1>3 DEF FollowInv
    <2>. QED
      BY <1>2, <2>3, <2>4, <2>5 DEF exits, enters
  <1>8. \A n \in Machines \ {m} : entered'[n] = entered[n]
    BY <1>3 DEF FollowInv
  <1>9. entered' \in [Machines -> Seq(States)]
    <2>1. entered'[m] \in Seq(States)
      <3>1. CASE m \in disturbed'
        <4>1. entered'[m] = <<>>
          BY <1>3, <3>1 DEF FollowInv
        <4>. QED
          BY <4>1
      <3>2. CASE m \notin disturbed'
        BY <1>1, <1>7, <3>2, ChainsType
      <3>. QED
        BY <3>1, <3>2
    <2>2. entered' = [n \in Machines |-> entered'[n]]
      BY <1>3 DEF FollowInv
    <2>3. \A n \in Machines : entered'[n] \in Seq(States)
      BY <1>8, <2>1 DEF FollowInv
    <2>. QED
      BY <2>2, <2>3
  <1>10. CallbacksFollow'
    <2>1. ASSUME NEW n \in Machines \ disturbed'
          PROVE  entered'[n] = Chains[n][machine'[n].current]
      <3>1. CASE n = m
        BY <1>7, <2>1, <3>1
      <3>2. CASE n # m
        BY <1>5, <1>6, <1>8, <2>1, <3>2 DEF FollowInv, CallbacksFollow
      <3>. QED
        BY <3>1, <3>2
    <2>. QED
      BY <2>1 DEF CallbacksFollow
  <1>. QED
    BY <1>5, <1>6, <1>9, <1>10 DEF FollowInv

LEMMA TriggerFollows ==
    ASSUME FollowInv, RulesInv, saved' = saved, NEW m \in Machines, NEW e, Trigger(m, e)
    PROVE  FollowInv'
  <1>1. CASE \E r \in Matching(m, e) : Fire(m, r)
    BY <1>1, FireFollows, MatchingRules
  <1>2. CASE UNCHANGED <<machine, entered, disturbed>>
    BY <1>2 DEF FollowInv, CallbacksFollow
  <1>. QED
    BY <1>1, <1>2 DEF Trigger

LEMMA JumpFollows ==
    ASSUME FollowInv, saved' = saved, NEW m \in Machines, NEW to \in MachineRecord, Jump(m, to)
    PROVE  FollowInv'
  <1>1. machine' = [machine EXCEPT ![m] = to] /\ disturbed' = disturbed \cup {m}
        /\ entered' = [entered EXCEPT ![m] = <<>>]
    BY DEF Jump
  <1>2. <<>> \in Seq(States)
    OBVIOUS
  <1>3. machine' \in [Machines -> MachineRecord] /\ entered' \in [Machines -> Seq(States)]
        /\ disturbed' \subseteq Machines
    BY <1>1, <1>2 DEF FollowInv
  <1>4. ASSUME NEW n \in Machines \ disturbed'
        PROVE  entered'[n] = Chains[n][machine'[n].current]
    BY <1>1, <1>4 DEF FollowInv, CallbacksFollow
  <1>. QED
    BY <1>3, <1>4 DEF FollowInv, CallbacksFollow

LEMMA ResetFollows ==
    ASSUME FollowInv, saved' = saved, NEW m \in Machines, Reset(m)
    PROVE  FollowInv'
  <1>1. [machine[m] EXCEPT !.current = machine[m].initial] \in MachineRecord
    BY DEF FollowInv, MachineRecord
  <1>. QED
    BY <1>1, JumpFollows DEF Reset

(* The rest of FollowInv changes only with these.                          *)
LEMMA FollowSame ==
    ASSUME FollowInv, UNCHANGED <<machine, entered, disturbed, saved>>
    PROVE  FollowInv'
  BY DEF FollowInv, CallbacksFollow

LEMMA AsyncSame ==
    ASSUME QueueInv, WorkersInv, OrderInv, UNCHANGED asyncVars
    PROVE  QueueInv' /\ WorkersInv' /\ OrderInv'
  BY DEF QueueInv, WorkersInv, OrderInv, Alone, asyncVars

LEMMA MachineSteps ==
    ASSUME MachinesInv, NEW m \in Machines
    PROVE  /\ \A e \in Events : TriggerSync(m, e) => MachinesInv'
           /\ \A r \in LateRules : AddTransition(m, r) => MachinesInv'
           /\ ResetOne(m) => MachinesInv'
           /\ AllSteps(m) => MachinesInv'
           /\ AddMachine(m) => MachinesInv'
           /\ RemoveMachine(m) => MachinesInv'
  <1>. USE DEF MachinesInv
  <1>1. ASSUME NEW e \in Events, TriggerSync(m, e)
        PROVE  MachinesInv'
    <2>1. FollowInv'
      BY <1>1, TriggerFollows DEF TriggerSync
    <2>. QED
      BY <1>1, <2>1, AsyncSame DEF TriggerSync, RulesInv, GroupInv
  <1>2. ASSUME NEW r \in LateRules, AddTransition(m, r)
        PROVE  MachinesInv'
    <2>1. FollowInv'
      BY <1>2, FollowSame DEF AddTransition
    <2>2. rules' = [rules EXCEPT ![m] = rules[m] \cup {r}]
          /\ \A t \in rules[m] : ~(t.from = r.from /\ t.event = r.event)
      BY <1>2 DEF AddTransition
    <2>3. RulesInv'
      BY <2>2 DEF RulesInv
    <2>. QED
      BY <1>2, <2>1, <2>3, AsyncSame DEF AddTransition, GroupInv
  <1>3. ASSUME ResetOne(m)
        PROVE  MachinesInv'
    <2>1. FollowInv'
      BY <1>3, ResetFollows DEF ResetOne
    <2>. QED
      BY <1>3, <2>1, AsyncSame DEF ResetOne, RulesInv, GroupInv
  <1>4. ASSUME AllSteps(m)
        PROVE  MachinesInv'
    <2>1. FollowInv'
      BY <1>4, TriggerFollows, ResetFollows DEF AllSteps
    <2>2. call' \in CallRecord
      <3>1. Resting \in CallRecord
        BY DEF Resting, CallRecord
      <3>2. [call EXCEPT !.left = call.left \ {m}] \in CallRecord
        BY DEF GroupInv, CallRecord
      <3>. QED
        BY <1>4, <3>1, <3>2 DEF AllSteps
    <2>. QED
      BY <1>4, <2>1, <2>2, AsyncSame DEF AllSteps, RulesInv, GroupInv
  <1>5. ASSUME AddMachine(m) \/ RemoveMachine(m)
        PROVE  MachinesInv'
    <2>1. FollowInv'
      BY <1>5, FollowSame DEF AddMachine, RemoveMachine
    <2>. QED
      BY <1>5, <2>1, AsyncSame DEF AddMachine, RemoveMachine, RulesInv, GroupInv
  <1>. QED
    BY <1>1, <1>2, <1>3, <1>4, <1>5

LEMMA OtherSteps ==
    ASSUME MachinesInv
    PROVE  /\ \A what \in Events \cup {"reset"} : AllBegins(what) => MachinesInv'
           /\ CreateSnapshot => MachinesInv'
           /\ RestoreSnapshot => MachinesInv'
           /\ UnmarshalJSON => MachinesInv'
  <1>. USE DEF MachinesInv
  <1>1. ASSUME NEW what \in Events \cup {"reset"}, AllBegins(what)
        PROVE  MachinesInv'
    <2>1. FollowInv'
      BY <1>1, FollowSame DEF AllBegins
    <2>2. call' \in CallRecord
      BY <1>1 DEF AllBegins, CallRecord, GroupInv
    <2>. QED
      BY <1>1, <2>1, <2>2, AsyncSame DEF AllBegins, RulesInv, GroupInv
  <1>2. ASSUME CreateSnapshot
        PROVE  MachinesInv'
    <2>1. FollowInv'
      BY <1>2 DEF CreateSnapshot, FollowInv, CallbacksFollow, Machines
    <2>. QED
      BY <1>2, <2>1, AsyncSame DEF CreateSnapshot, RulesInv, GroupInv
  <1>3. ASSUME RestoreSnapshot \/ UnmarshalJSON
        PROVE  MachinesInv'
    <2>1. "fsm" \in Machines
      BY DEF Machines
    <2>2. saved \in MachineRecord /\ [machine["fsm"] EXCEPT !.current = saved.current] \in MachineRecord
      BY <2>1 DEF FollowInv, MachineRecord
    <2>3. FollowInv'
      BY <1>3, <2>1, <2>2, JumpFollows DEF RestoreSnapshot, UnmarshalJSON
    <2>. QED
      BY <1>3, <2>3, AsyncSame DEF RestoreSnapshot, UnmarshalJSON, RulesInv, GroupInv
  <1>. QED
    BY <1>1, <1>2, <1>3

------------------------------------------------------------------------------
(* The queue and its workers.                                              *)
LEMMA RestSame ==
    ASSUME FollowInv, RulesInv, GroupInv,
           UNCHANGED <<machine, rules, entered, disturbed, saved, group, call>>
    PROVE  FollowInv' /\ RulesInv' /\ GroupInv'
  BY FollowSame DEF RulesInv, GroupInv

(* A worker changes what it is at, and takes and gives back an event.      *)
LEMMA WorkerAt ==
    ASSUME WorkersInv, NEW w \in 1..MaxStarts, NEW record \in WorkerRecord,
           workers' = [workers EXCEPT ![w] = record]
    PROVE  /\ workers' \in [1..MaxStarts -> WorkerRecord] /\ workers'[w] = record
           /\ \A v \in 1..MaxStarts : v # w => workers'[v] = workers[v]
           /\ workers[w] \in WorkerRecord
  BY DEF WorkersInv

LEMMA StartKeeps ==
    ASSUME MachinesInv, Start
    PROVE  MachinesInv'
  <1>. USE DEF MachinesInv
  <1>1. PICK w \in 1..MaxStarts :
            /\ workers[w].at = "none" /\ \A v \in 1..(w - 1) : workers[v].at # "none"
            /\ workers' = [workers EXCEPT ![w].at = "selects", ![w].late = stop = "returned"]
    BY DEF Start
  <1> DEFINE record == [workers[w] EXCEPT !.at = "selects", !.late = (stop = "returned")]
  <1>2. workers[w] \in WorkerRecord
    BY DEF WorkersInv
  <1>3. record \in WorkerRecord /\ record.at = "selects" /\ record.late = (stop = "returned")
    BY <1>2 DEF WorkerRecord
  <1>4. workers' = [workers EXCEPT ![w] = record]
    BY <1>1
  <1>. HIDE DEF record
  <1>5. /\ workers' \in [1..MaxStarts -> WorkerRecord] /\ workers'[w] = record
        /\ \A v \in 1..MaxStarts : v # w => workers'[v] = workers[v]
    BY <1>3, <1>4, WorkerAt
  <1>6. UNCHANGED <<queue, accepted, handled, stop>>
    BY DEF Start
  <1>7. WorkersInv'
    BY <1>3, <1>5, <1>6 DEF WorkersInv
  <1>8. QueueInv'
    BY <1>6 DEF QueueInv
  <1>9. OrderInv'
    <2>. SUFFICES ASSUME Alone'
                  PROVE  OrderInv'
      BY DEF OrderInv
    <2>1. 1 \in 1..MaxStarts /\ MaxStarts \in Nat
      BY MachinesAssumption
    <2>2. w = 1
      <3>1. w # 1 => w \in 2..MaxStarts
        BY <2>1
      <3>. QED
        BY <1>3, <1>5, <3>1 DEF Alone
    <2>3. Alone
      <3>1. \A v \in 2..MaxStarts : v \in 1..MaxStarts /\ v # 1
        BY <2>1
      <3>. QED
        BY <1>5, <2>2, <3>1 DEF Alone
    <2>4. workers[1].at # "triggers" /\ workers'[1].at # "triggers"
      BY <1>1, <1>3, <1>5, <2>2
    <2>. QED
      BY <1>6, <2>3, <2>4 DEF OrderInv
  <1>. QED
    BY <1>7, <1>8, <1>9, RestSame DEF Start

LEMMA TriggerAsyncKeeps ==
    ASSUME MachinesInv, NEW e \in Events, TriggerAsync(e)
    PROVE  MachinesInv'
  <1>. USE DEF MachinesInv
  <1> DEFINE event == [event |-> e, number |-> accepted + 1]
  <1>1. /\ accepted < MaxEvents /\ Len(queue) < QueueSize
        /\ accepted' = accepted + 1 /\ queue' = Append(queue, event)
        /\ UNCHANGED <<handled, workers, stop>>
    BY DEF TriggerAsync
  <1>2. accepted \in Nat /\ MaxEvents \in Nat /\ QueueSize \in Nat /\ Len(queue) \in Nat
        /\ queue \in Seq(EventRecord)
    BY MachinesAssumption DEF QueueInv
  <1>3. event \in EventRecord /\ event.number = accepted + 1
    BY <1>2 DEF EventRecord
  <1>. HIDE DEF event
  <1>4. /\ queue' \in Seq(EventRecord) /\ Len(queue') = Len(queue) + 1
        /\ \A i \in 1..Len(queue) : queue'[i] = queue[i]
        /\ queue'[Len(queue) + 1] = event
    BY <1>1, <1>2, <1>3, AppendProperties
  <1>5. QueueInv'
    <2>1. ASSUME NEW i \in 1..Len(queue')
          PROVE  queue'[i].number = accepted' - Len(queue') + i
      <3>1. CASE i = Len(queue) + 1
        BY <1>1, <1>2, <1>3, <1>4, <3>1
      <3>2. CASE i # Len(queue) + 1
        <4>1. i \in 1..Len(queue)
          BY <1>2, <1>4, <3>2
        <4>2. queue[i].number = accepted - Len(queue) + i
          BY <4>1 DEF QueueInv
        <4>3. accepted' - Len(queue') + i = accepted - Len(queue) + i
          BY <1>1, <1>2, <1>4
        <4>. QED
          BY <1>4, <4>1, <4>2, <4>3
      <3>. QED
        BY <3>1, <3>2
    <2>2. Len(queue') <= QueueSize /\ accepted' \in 0..MaxEvents
      BY <1>1, <1>2, <1>4
    <2>. QED
      BY <1>4, <2>1, <2>2 DEF QueueInv
  <1>6. WorkersInv'
    BY <1>1 DEF WorkersInv
  <1>7. OrderInv'
    <2>1. Len(handled) \in Nat
      BY DEF WorkersInv
    <2>. QED
      BY <1>1, <1>2, <1>4, <2>1 DEF OrderInv, Alone
  <1>. QED
    BY <1>5, <1>6, <1>7, RestSame DEF TriggerAsync

LEMMA StopKeeps ==
    ASSUME MachinesInv, StopCloses \/ StopReturns
    PROVE  MachinesInv'
  <1>. USE DEF MachinesInv
  <1>1. UNCHANGED <<queue, accepted, handled, workers>>
        /\ (stop' = "closed" \/ (stop' = "returned" /\ \A w \in 1..MaxStarts : workers[w].at \in {"none", "gone"}))
    BY DEF StopCloses, StopReturns
  <1>2. QueueInv' /\ OrderInv'
    BY <1>1 DEF QueueInv, OrderInv, Alone
  <1>3. WorkersInv'
    BY <1>1 DEF WorkersInv
  <1>. QED
    BY <1>2, <1>3, RestSame DEF StopCloses, StopReturns

LEMMA WorkerStopsKeeps ==
    ASSUME MachinesInv, NEW w \in 1..MaxStarts, WorkerStops(w)
    PROVE  MachinesInv'
  <1>. USE DEF MachinesInv
  <1> DEFINE record == [workers[w] EXCEPT !.at = "gone"]
  <1>1. /\ workers[w].at = "selects" /\ workers' = [workers EXCEPT ![w].at = "gone"]
        /\ UNCHANGED <<queue, accepted, handled, stop>>
    BY DEF WorkerStops
  <1>2. workers[w] \in WorkerRecord
    BY DEF WorkersInv
  <1>3. record \in WorkerRecord /\ record.at = "gone"
    BY <1>2 DEF WorkerRecord
  <1>4. workers' = [workers EXCEPT ![w] = record]
    BY <1>1
  <1>. HIDE DEF record
  <1>5. /\ workers' \in [1..MaxStarts -> WorkerRecord] /\ workers'[w] = record
        /\ \A v \in 1..MaxStarts : v # w => workers'[v] = workers[v]
    BY <1>3, <1>4, WorkerAt
  <1>6. WorkersInv' /\ QueueInv'
    BY <1>1, <1>3, <1>5 DEF WorkersInv, QueueInv
  <1>7. OrderInv'
    <2>. SUFFICES ASSUME Alone'
                  PROVE  OrderInv'
      BY DEF OrderInv
    <2>1. 1 \in 1..MaxStarts /\ \A v \in 2..MaxStarts : v \in 1..MaxStarts
      BY MachinesAssumption
    <2>2. Alone
      BY <1>1, <1>3, <1>5, <2>1 DEF Alone
    <2>3. (workers'[1].at = "triggers") = (workers[1].at = "triggers") /\ (w # 1 => workers'[1] = workers[1])
      BY <1>1, <1>3, <1>5, <2>1
    <2>4. workers'[1].at = "triggers" => workers'[1] = workers[1]
      BY <1>3, <1>5, <2>3
    <2>. QED
      BY <1>1, <2>2, <2>3, <2>4 DEF OrderInv
  <1>. QED
    BY <1>6, <1>7, RestSame DEF WorkerStops

LEMMA WorkerTakesKeeps ==
    ASSUME MachinesInv, NEW w \in 1..MaxStarts, WorkerTakes(w)
    PROVE  MachinesInv'
  <1>. USE DEF MachinesInv
  <1> DEFINE record == [workers[w] EXCEPT !.at = "triggers", !.event = Head(queue)]
  <1>1. /\ workers[w].at = "selects" /\ queue # <<>> /\ queue' = Tail(queue)
        /\ workers' = [workers EXCEPT ![w].at = "triggers", ![w].event = Head(queue)]
        /\ UNCHANGED <<accepted, handled, stop>>
    BY DEF WorkerTakes
  <1>2. workers[w] \in WorkerRecord
    BY DEF WorkersInv
  <1>3. /\ Head(queue) \in EventRecord /\ Head(queue) = queue[1]
        /\ queue' \in Seq(EventRecord) /\ Len(queue) \in Nat \ {0} /\ Len(queue') = Len(queue) - 1
        /\ \A i \in 1..Len(queue') : queue'[i] = queue[i + 1]
    <2>1. queue \in Seq(EventRecord) /\ queue # <<>>
      BY <1>1 DEF QueueInv
    <2>. QED
      BY <1>1, <2>1, HeadTailProperties, EmptySeq
  <1>4. record \in WorkerRecord /\ record.at = "triggers" /\ record.event = Head(queue)
        /\ record.late = workers[w].late
    BY <1>2, <1>3 DEF WorkerRecord
  <1>5. workers' = [workers EXCEPT ![w] = record]
    BY <1>1
  <1>. HIDE DEF record
  <1>6. /\ workers' \in [1..MaxStarts -> WorkerRecord] /\ workers'[w] = record
        /\ \A v \in 1..MaxStarts : v # w => workers'[v] = workers[v]
    BY <1>4, <1>5, WorkerAt
  <1>7. WorkersInv'
    <2>1. stop = "returned" => workers[w].late
      BY <1>1 DEF WorkersInv
    <2>. QED
      BY <1>1, <1>4, <1>6, <2>1 DEF WorkersInv
  <1>8. accepted \in Nat /\ QueueSize \in Nat /\ Len(queue) <= QueueSize
    BY MachinesAssumption DEF QueueInv
  <1>9. QueueInv'
    <2>1. ASSUME NEW i \in 1..Len(queue')
          PROVE  queue'[i].number = accepted' - Len(queue') + i
      <3>1. i + 1 \in 1..Len(queue) /\ accepted - Len(queue) + (i + 1) = accepted - (Len(queue) - 1) + i
        BY <1>3, <1>8
      <3>2. queue[i + 1].number = accepted - Len(queue) + (i + 1)
        BY <3>1 DEF QueueInv
      <3>. QED
        BY <1>1, <1>3, <3>1, <3>2
    <2>2. Len(queue') <= QueueSize
      BY <1>3, <1>8
    <2>. QED
      BY <1>1, <1>3, <2>1, <2>2 DEF QueueInv
  <1>10. OrderInv'
    <2>. SUFFICES ASSUME Alone'
                  PROVE  OrderInv'
      BY DEF OrderInv
    <2>1. 1 \in 1..MaxStarts /\ \A v \in 2..MaxStarts : v \in 1..MaxStarts
      BY MachinesAssumption
    <2>2. w = 1
      <3>1. w # 1 => w \in 2..MaxStarts
        BY <2>1
      <3>. QED
        BY <1>4, <1>6, <3>1 DEF Alone
    <2>3. Alone
      BY <1>6, <2>1, <2>2 DEF Alone
    <2>4. (\A i \in 1..Len(handled) : handled[i] = i) /\ Len(handled) + Len(queue) = accepted
      BY <1>1, <2>2, <2>3 DEF OrderInv
    <2>5. Len(handled) \in Nat
      BY DEF WorkersInv
    <2>6. Head(queue).number = Len(handled) + 1
      <3>1. 1 \in 1..Len(queue) /\ accepted - Len(queue) + 1 = Len(handled) + 1
        <4>1. Len(queue) \in Nat /\ Len(queue) >= 1
          BY <1>3
        <4>. QED
          BY <1>8, <2>4, <2>5, <4>1
      <3>2. queue[1].number = accepted - Len(queue) + 1
        BY <3>1 DEF QueueInv
      <3>. QED
        BY <1>3, <3>1, <3>2
    <2>7. workers'[1].at = "triggers" /\ workers'[1].event.number = Len(handled) + 1
      BY <1>4, <1>6, <2>2, <2>6
    <2>8. Len(handled') + 1 + Len(queue') = accepted'
      BY <1>1, <1>3, <1>8, <2>4, <2>5
    <2>. QED
      BY <1>1, <2>4, <2>7, <2>8 DEF OrderInv
  <1>. QED
    BY <1>7, <1>9, <1>10, RestSame DEF WorkerTakes

LEMMA WorkerTriggersKeeps ==
    ASSUME MachinesInv, NEW w \in 1..MaxStarts, WorkerTriggers(w)
    PROVE  MachinesInv'
  <1>. USE DEF MachinesInv
  <1> DEFINE record == [workers[w] EXCEPT !.at = "selects", !.event = Nobody.event]
             number == workers[w].event.number
  <1>1. /\ workers[w].at = "triggers" /\ handled' = Append(handled, number)
        /\ workers' = [workers EXCEPT ![w].at = "selects", ![w].event = Nobody.event]
        /\ UNCHANGED <<queue, accepted, stop>>
    BY DEF WorkerTriggers
  <1>2. workers[w] \in WorkerRecord /\ handled \in Seq(Nat) /\ Len(handled) \in Nat
    BY DEF WorkersInv
  <1>3. number \in Nat
    BY <1>2 DEF WorkerRecord, EventRecord
  <1>4. Nobody.event \in EventRecord
    BY DEF Nobody, EventRecord
  <1>5. record \in WorkerRecord /\ record.at = "selects" /\ record.late = workers[w].late
    BY <1>2, <1>4 DEF WorkerRecord
  <1>6. workers' = [workers EXCEPT ![w] = record]
    BY <1>1
  <1>. HIDE DEF record
  <1>7. /\ workers' \in [1..MaxStarts -> WorkerRecord] /\ workers'[w] = record
        /\ \A v \in 1..MaxStarts : v # w => workers'[v] = workers[v]
    BY <1>5, <1>6, WorkerAt
  <1>8. /\ handled' \in Seq(Nat) /\ Len(handled') = Len(handled) + 1
        /\ \A i \in 1..Len(handled) : handled'[i] = handled[i]
        /\ handled'[Len(handled) + 1] = number
    <2>. HIDE DEF number
    <2>. QED
      BY <1>1, <1>2, <1>3, AppendProperties
  <1>9. WorkersInv'
    <2>1. stop = "returned" => workers[w].late
      BY <1>1 DEF WorkersInv
    <2>. QED
      BY <1>1, <1>5, <1>7, <1>8, <2>1 DEF WorkersInv
  <1>10. QueueInv'
    BY <1>1 DEF QueueInv
  <1>11. OrderInv'
    <2>. SUFFICES ASSUME Alone'
                  PROVE  OrderInv'
      BY DEF OrderInv
    <2>1. 1 \in 1..MaxStarts /\ \A v \in 2..MaxStarts : v \in 1..MaxStarts
      BY MachinesAssumption
    <2>2. w = 1
      <3>1. w # 1 => w \in 2..MaxStarts
        BY <2>1
      <3>. QED
        BY <1>5, <1>7, <3>1 DEF Alone
    <2>3. Alone
      BY <1>7, <2>1, <2>2 DEF Alone
    <2>4. /\ \A i \in 1..Len(handled) : handled[i] = i
          /\ number = Len(handled) + 1 /\ Len(handled) + 1 + Len(queue) = accepted
      BY <1>1, <2>2, <2>3 DEF OrderInv
    <2>5. \A i \in 1..Len(handled') : handled'[i] = i
      <3>1. \A i \in 1..Len(handled') : i \in 1..Len(handled) \/ i = Len(handled) + 1
        BY <1>2, <1>8
      <3>. QED
        BY <1>8, <2>4, <3>1
    <2>6. workers'[1].at # "triggers" /\ Len(handled') + Len(queue') = accepted'
      BY <1>1, <1>5, <1>7, <1>8, <2>2, <2>4
    <2>. QED
      BY <2>5, <2>6 DEF OrderInv
  <1>12. FollowInv'
    <2>1. "fsm" \in Machines
      BY DEF Machines
    <2>. QED
      BY <2>1, TriggerFollows DEF WorkerTriggers
  <1>. QED
    BY <1>9, <1>10, <1>11, <1>12 DEF WorkerTriggers, RulesInv, GroupInv

LEMMA MachinesStep ==
    ASSUME MachinesInv, [MachinesNext]_smVars
    PROVE  MachinesInv'
  <1>1. CASE UNCHANGED smVars
    <2>. USE DEF MachinesInv
    <2>1. UNCHANGED asyncVars /\ UNCHANGED <<machine, rules, entered, disturbed, saved, group, call>>
      BY <1>1 DEF smVars
    <2>. QED
      BY <2>1, RestSame, AsyncSame
  <1>2. CASE MachinesNext
    <2>1. CASE \E m \in uses \cap Machines :
                  \/ \E e \in Events : TriggerSync(m, e)
                  \/ \E r \in LateRules : AddTransition(m, r)
                  \/ ResetOne(m) \/ AllSteps(m)
                  \/ "group" \in uses /\ (AddMachine(m) \/ RemoveMachine(m))
      BY <2>1, MachineSteps
    <2>2. CASE \/ "group" \in uses /\ \E what \in Events \cup {"reset"} : AllBegins(what)
               \/ "snapshot" \in uses /\ (CreateSnapshot \/ RestoreSnapshot \/ UnmarshalJSON)
      BY <2>2, OtherSteps
    <2>3. CASE "async" \in uses /\ (Start \/ StopCloses \/ \E e \in Events : TriggerAsync(e))
      BY <2>3, StartKeeps, StopKeeps, TriggerAsyncKeeps
    <2>4. CASE StopReturns \/ \E w \in 1..MaxStarts : Work(w)
      BY <2>4, StopKeeps, WorkerStopsKeeps, WorkerTakesKeeps, WorkerTriggersKeeps DEF Work
    <2>. QED
      BY <1>2, <2>1, <2>2, <2>3, <2>4 DEF MachinesNext
  <1>. QED
    BY <1>1, <1>2

LEMMA MachinesInitially == MachinesInit => MachinesInv
  <1>. SUFFICES ASSUME MachinesInit
                PROVE  MachinesInv
    OBVIOUS
  <1>1. Initial \in States /\ MaxStarts \in Nat \ {0} /\ QueueSize \in Nat /\ MaxEvents \in Nat
    BY MachinesAssumption
  <1>2. \A m \in Machines : Chains[m][Initial] \in Seq(States)
    BY <1>1, ChainsType
  <1>3. FollowInv
    <2>1. machine \in [Machines -> MachineRecord] /\ \A m \in Machines : machine[m].current = Initial
      BY <1>1 DEF MachinesInit, MachineRecord
    <2>2. saved \in MachineRecord
      BY <2>1 DEF MachinesInit, Machines
    <2>3. entered \in [Machines -> Seq(States)]
      BY <1>2 DEF MachinesInit
    <2>. QED
      BY <2>1, <2>2, <2>3 DEF MachinesInit, FollowInv, CallbacksFollow
  <1>4. RulesInv
    BY MachinesAssumption DEF MachinesInit, RulesInv
  <1>5. GroupInv
    BY DEF MachinesInit, GroupInv, Resting, CallRecord
  <1>6. QueueInv
    <2>1. <<>> \in Seq(EventRecord) /\ Len(<<>>) = 0
      OBVIOUS
    <2>. QED
      BY <1>1, <2>1 DEF MachinesInit, QueueInv
  <1>7. WorkersInv /\ OrderInv
    <2>1. Nobody \in WorkerRecord /\ Nobody.at = "none"
      BY DEF Nobody, WorkerRecord, EventRecord
    <2>2. <<>> \in Seq(Nat) /\ Len(<<>>) = 0 /\ 1 \in 1..MaxStarts
      BY <1>1
    <2>. QED
      BY <2>1, <2>2 DEF MachinesInit, WorkersInv, OrderInv
  <1>. QED
    BY <1>3, <1>4, <1>5, <1>6, <1>7 DEF MachinesInv

LEMMA MachinesAlways == MachinesSpec => []MachinesInv
  BY MachinesInitially, MachinesStep, PTL DEF MachinesSpec

(* The states that were entered and not left are the current one and its   *)
(* ancestors, for every hierarchy, all rules and every order of calls, as  *)
(* long as no callback failed and nobody reset or restored the machine     *)
(* (hsm.go:105-232, fsm.go:113-155).                                       *)
THEOREM MachinesFollow == MachinesSpec => []CallbacksFollow
  BY MachinesAlways, PTL DEF MachinesInv, FollowInv

(* A single worker handles the events in the order they were accepted, and *)
(* after Stop only workers that were started later are at one              *)
(* (async.go:38-65).                                                       *)
THEOREM MachinesInOrder == MachinesSpec => []EventsInOrder
  <1>1. MachinesInv => EventsInOrder
    <2>. SUFFICES ASSUME MachinesInv
                  PROVE  EventsInOrder
      OBVIOUS
    <2>. USE DEF MachinesInv
    <2>1. MachinesTypeOK
      <3>1. \A m \in Machines : {machine[m].current, machine[m].initial} \subseteq States
        BY DEF FollowInv, MachineRecord
      <3>2. call.left \subseteq Machines
        BY DEF GroupInv, CallRecord
      <3>3. \A w \in 1..MaxStarts : workers[w].at \in {"none", "selects", "triggers", "gone"}
        BY DEF WorkersInv, WorkerRecord
      <3>. QED
        BY <3>1, <3>2, <3>3 DEF MachinesTypeOK, FollowInv, GroupInv, RulesInv, QueueInv
    <2>2. Alone => \A i \in DOMAIN handled : handled[i] = i
      <3>1. DOMAIN handled = 1..Len(handled)
        BY DEF WorkersInv
      <3>. QED
        BY <3>1 DEF OrderInv
    <2>3. stop = "returned" => \A w \in 1..MaxStarts : workers[w].late \/ workers[w].at # "triggers"
      BY DEF WorkersInv
    <2>. QED
      BY <2>1, <2>2, <2>3 DEF EventsInOrder, Alone
  <1>. QED
    BY <1>1, MachinesAlways, PTL

(***************************************************************************)
(* Binary packing                                                          *)
(***************************************************************************)
(* A loop of N turns, each of which makes something new of what there is.  *)
Runs(f, N, a, turn) == f[0] = a /\ \A i \in 1..N : f[i] = turn[i][f[i - 1]]

LEMMA LoopRuns ==
    ASSUME NEW S, NEW N \in Nat, NEW a \in S, NEW turn \in [1..N -> [S -> S]]
    PROVE  \E f \in [0..N -> S] : Runs(f, N, a, turn)
  <1> DEFINE Good(n) == \E f \in [0..n -> S] :
                            f[0] = a /\ \A i \in 1..n : f[i] = turn[i][f[i - 1]]
             T == {n \in Nat : n <= N => Good(n)}
  <1>1. 0 \in T
    <2> DEFINE f == [i \in 0..0 |-> a]
    <2>1. f \in [0..0 -> S] /\ f[0] = a /\ \A i \in 1..0 : f[i] = turn[i][f[i - 1]]
      OBVIOUS
    <2>. HIDE DEF f
    <2>. QED
      BY <2>1
  <1>2. ASSUME NEW n \in Nat, n \in T
        PROVE  n + 1 \in T
    <2>1. ASSUME n + 1 <= N
          PROVE  Good(n + 1)
      <3>1. PICK f \in [0..n -> S] : f[0] = a /\ \A i \in 1..n : f[i] = turn[i][f[i - 1]]
        BY <1>2, <2>1
      <3> DEFINE g == [i \in 0..(n + 1) |-> IF i <= n THEN f[i] ELSE turn[n + 1][f[n]]]
      <3>2. turn[n + 1][f[n]] \in S
        <4>1. n + 1 \in 1..N /\ n \in 0..n
          BY <2>1
        <4>. QED
          BY <3>1, <4>1
      <3>3. g \in [0..(n + 1) -> S]
        BY <3>1, <3>2
      <3>4. g[0] = a
        BY <3>1
      <3>5. ASSUME NEW i \in 1..(n + 1)
            PROVE  g[i] = turn[i][g[i - 1]]
        <4>1. CASE i <= n
          <5>1. g[i] = f[i] /\ g[i - 1] = f[i - 1]
            BY <4>1
          <5>. QED
            BY <3>1, <4>1, <5>1
        <4>2. CASE i = n + 1
          <5>1. g[i] = turn[n + 1][f[n]] /\ g[i - 1] = f[n]
            BY <4>2
          <5>. QED
            BY <4>2, <5>1
        <4>. QED
          BY <4>1, <4>2
      <3>. HIDE DEF g
      <3>. QED
        BY <3>3, <3>4, <3>5
    <2>2. n + 1 \in Nat
      OBVIOUS
    <2>. QED
      BY <2>1, <2>2
  <1>. HIDE DEF T
  <1>3. N \in T
    BY <1>1, <1>2, AllNaturals
  <1>. QED
    BY <1>3 DEF T, Runs

(* What it makes is of the kind of what it began with.                     *)
LEMMA LoopStays ==
    ASSUME NEW S, NEW N \in Nat, NEW turn \in [1..N -> [S -> S]], NEW f, f[0] \in S,
           \A i \in 1..N : f[i - 1] \in S => f[i] = turn[i][f[i - 1]]
    PROVE  \A i \in 0..N : f[i] \in S
  <1> DEFINE T == {n \in Nat : n <= N => f[n] \in S}
  <1>1. 0 \in T
    OBVIOUS
  <1>2. ASSUME NEW n \in Nat, n \in T
        PROVE  n + 1 \in T
    <2>1. ASSUME n + 1 <= N
          PROVE  f[n + 1] \in S
      <3>1. n + 1 \in 1..N /\ (n + 1) - 1 = n /\ f[n] \in S
        BY <1>2, <2>1
      <3>2. f[n + 1] = turn[n + 1][f[n]]
        BY <3>1
      <3>3. turn[n + 1] \in [S -> S]
        BY <3>1
      <3>. QED
        BY <3>1, <3>2, <3>3
    <2>2. n + 1 \in Nat
      OBVIOUS
    <2>. QED
      BY <2>1, <2>2
  <1>. HIDE DEF T
  <1>3. \A n \in Nat : n \in T
    BY <1>1, <1>2, AllNaturals
  <1>. QED
    BY <1>3 DEF T

------------------------------------------------------------------------------
(* Shifting to the right, one bit at a time.                               *)
LEMMA ShiftedIs ==
    ASSUME NEW n \in Nat, NEW w \in Nat
    PROVE  /\ \A k \in 0..w : Shifted(n, w)[k] \in Nat
           /\ Shifted(n, w)[0] = n
           /\ \A k \in 1..w : Shifted(n, w)[k] = Shifted(n, w)[k - 1] \div 2
  <1> DEFINE Fun(f) == f = [k \in 0..w |-> IF k = 0 THEN n ELSE f[k - 1] \div 2]
             sh == Shifted(n, w)
  <1>1. PICK turn \in [1..w -> [Nat -> Nat]] : \A i \in 1..w : \A x \in Nat : turn[i][x] = x \div 2
    <2> DEFINE t == [i \in 1..w |-> [x \in Nat |-> x \div 2]]
    <2>1. t \in [1..w -> [Nat -> Nat]] /\ \A i \in 1..w : \A x \in Nat : t[i][x] = x \div 2
      OBVIOUS
    <2>. HIDE DEF t
    <2>. QED
      BY <2>1
  <1>2. PICK g \in [0..w -> Nat] : g[0] = n /\ \A i \in 1..w : g[i] = turn[i][g[i - 1]]
    <2>1. PICK g \in [0..w -> Nat] : Runs(g, w, n, turn)
      BY LoopRuns
    <2>. QED
      BY <2>1 DEF Runs
  <1>3. \A k \in 0..w : k # 0 => k \in 1..w /\ k - 1 \in 0..w
    OBVIOUS
  <1>4. Fun(g)
    <2>1. ASSUME NEW k \in 0..w
          PROVE  g[k] = IF k = 0 THEN n ELSE g[k - 1] \div 2
      <3>1. CASE k = 0
        BY <1>2, <3>1
      <3>2. CASE k # 0
        <4>1. k \in 1..w /\ k - 1 \in 0..w
          BY <1>3, <3>2
        <4>2. g[k] = turn[k][g[k - 1]] /\ g[k - 1] \in Nat
          BY <1>2, <4>1
        <4>. QED
          BY <1>1, <3>2, <4>1, <4>2
      <3>. QED
        BY <3>1, <3>2
    <2>. QED
      BY <1>2, <2>1
  <1>5. Fun(sh)
    BY <1>4 DEF Shifted
  <1>6. \A k \in 0..w : sh[k] = IF k = 0 THEN n ELSE sh[k - 1] \div 2
    BY <1>5
  <1>. HIDE DEF sh, Fun
  <1>7. sh[0] = n /\ \A k \in 1..w : sh[k] = sh[k - 1] \div 2
    BY <1>6
  <1>8. \A k \in 0..w : sh[k] \in Nat
    <2>1. PICK f : f = sh
      OBVIOUS
    <2>2. f[0] \in Nat /\ \A i \in 1..w : f[i - 1] \in Nat => f[i] = turn[i][f[i - 1]]
      BY <1>1, <1>7, <2>1
    <2>3. \A k \in 0..w : f[k] \in Nat
      BY <2>2, LoopStays
    <2>. QED
      BY <2>1, <2>3
  <1>. QED
    BY <1>7, <1>8 DEF sh

(* Making a number of bits, one at a time from the highest.                *)
Bit(S, k) == IF k \in S THEN 1 ELSE 0
LEMMA SummedIs ==
    ASSUME NEW S, NEW w \in Nat
    PROVE  /\ \A k \in 0..w : Summed(S, w)[k] \in Nat
           /\ Summed(S, w)[0] = 0
           /\ \A k \in 1..w : Summed(S, w)[k] = 2 * Summed(S, w)[k - 1] + Bit(S, w - k)
  <1> DEFINE Fun(f) == f = [k \in 0..w |-> IF k = 0 THEN 0
                                           ELSE 2 * f[k - 1] + (IF w - k \in S THEN 1 ELSE 0)]
             sum == Summed(S, w)
  <1>1. \A k : Bit(S, k) \in Nat
    BY DEF Bit
  <1>2. PICK turn \in [1..w -> [Nat -> Nat]] :
           \A i \in 1..w : \A x \in Nat : turn[i][x] = 2 * x + Bit(S, w - i)
    <2> DEFINE t == [i \in 1..w |-> [x \in Nat |-> 2 * x + Bit(S, w - i)]]
    <2>1. t \in [1..w -> [Nat -> Nat]]
          /\ \A i \in 1..w : \A x \in Nat : t[i][x] = 2 * x + Bit(S, w - i)
      BY <1>1
    <2>. HIDE DEF t
    <2>. QED
      BY <2>1
  <1>3. PICK g \in [0..w -> Nat] : g[0] = 0 /\ \A i \in 1..w : g[i] = turn[i][g[i - 1]]
    <2>1. PICK g \in [0..w -> Nat] : Runs(g, w, 0, turn)
      BY LoopRuns
    <2>. QED
      BY <2>1 DEF Runs
  <1>4. \A k \in 0..w : k # 0 => k \in 1..w /\ k - 1 \in 0..w
    OBVIOUS
  <1>5. Fun(g)
    <2>1. ASSUME NEW k \in 0..w
          PROVE  g[k] = IF k = 0 THEN 0 ELSE 2 * g[k - 1] + (IF w - k \in S THEN 1 ELSE 0)
      BY <1>2, <1>3, <1>4 DEF Bit
    <2>. QED
      BY <1>3, <2>1
  <1>6. Fun(sum)
    BY <1>5 DEF Summed
  <1>7. \A k \in 0..w : sum[k] = IF k = 0 THEN 0
                                 ELSE 2 * sum[k - 1] + (IF w - k \in S THEN 1 ELSE 0)
    BY <1>6
  <1>. HIDE DEF sum, Fun
  <1>8. sum[0] = 0 /\ \A k \in 1..w : sum[k] = 2 * sum[k - 1] + Bit(S, w - k)
    BY <1>7 DEF Bit
  <1>9. \A k \in 0..w : sum[k] \in Nat
    <2>1. PICK f : f = sum
      OBVIOUS
    <2>2. ASSUME NEW i \in 1..w, f[i - 1] \in Nat
          PROVE  f[i] = turn[i][f[i - 1]]
      <3>1. f[i] = 2 * f[i - 1] + Bit(S, w - i)
        BY <1>8, <2>1
      <3>2. turn[i][f[i - 1]] = 2 * f[i - 1] + Bit(S, w - i)
        BY <1>2, <2>2
      <3>. QED
        BY <3>1, <3>2
    <2>4. f[0] \in Nat
      BY <1>8, <2>1
    <2>3. \A k \in 0..w : f[k] \in Nat
      BY <2>2, <2>4, LoopStays
    <2>. QED
      BY <2>1, <2>3
  <1>. QED
    BY <1>8, <1>9 DEF sum

LEMMA NumberType ==
    ASSUME NEW S, NEW w \in Nat
    PROVE  Number(S, w) \in Nat
  BY SummedIs DEF Number

(* A number that fits is the number of its bits.                           *)
LEMMA NumberOfOnes ==
    ASSUME NEW n \in Nat, NEW w \in Nat, Shifted(n, w)[w] = 0
    PROVE  Number(Ones(n, w), w) = n
  <1> DEFINE sh == Shifted(n, w)
             S == Ones(n, w)
             sum == Summed(S, w)
  <1>1. /\ \A k \in 0..w : sh[k] \in Nat
        /\ sh[0] = n
        /\ \A k \in 1..w : sh[k] = sh[k - 1] \div 2
    BY ShiftedIs
  <1>2. /\ \A k \in 0..w : sum[k] \in Nat
        /\ sum[0] = 0
        /\ \A k \in 1..w : sum[k] = 2 * sum[k - 1] + Bit(S, w - k)
    BY SummedIs
  <1>3. \A k \in 0..(w - 1) : k \in S <=> sh[k] % 2 = 1
    BY DEF Ones
  <1>4. sh[w] = 0
    OBVIOUS
  <1>. HIDE DEF sh, sum, S
  <1> DEFINE T == {k \in Nat : k <= w => sum[k] = sh[w - k]}
  <1>5. 0 \in T
    BY <1>2, <1>4
  <1>6. ASSUME NEW k \in Nat, k \in T
        PROVE  k + 1 \in T
    <2>1. ASSUME k + 1 <= w
          PROVE  sum[k + 1] = sh[w - (k + 1)]
      <3>1. sum[k] = sh[w - k] /\ k + 1 \in 1..w /\ (k + 1) - 1 = k /\ w - k \in 1..w
            /\ (w - k) - 1 = w - (k + 1) /\ w - (k + 1) \in 0..(w - 1) /\ w - (k + 1) \in 0..w
        BY <1>6, <2>1
      <3>2. sum[k + 1] = 2 * sum[k] + Bit(S, w - (k + 1))
        BY <1>2, <3>1
      <3>3. sh[w - k] = sh[w - (k + 1)] \div 2
        BY <1>1, <3>1
      <3>4. PICK x \in Nat : x = sh[w - (k + 1)]
        BY <1>1, <3>1
      <3>5. Bit(S, w - (k + 1)) = x % 2
        <4>1. w - (k + 1) \in S <=> x % 2 = 1
          BY <1>3, <3>1, <3>4
        <4>2. x % 2 \in {0, 1}
          BY <3>4
        <4>. QED
          BY <4>1, <4>2 DEF Bit
      <3>6. 2 * (x \div 2) + (x % 2) = x
        BY <3>4
      <3>. QED
        BY <3>1, <3>2, <3>3, <3>4, <3>5, <3>6
    <2>2. k + 1 \in Nat
      OBVIOUS
    <2>. QED
      BY <2>1, <2>2
  <1>. HIDE DEF T
  <1>7. w \in T
    BY <1>5, <1>6, AllNaturals
  <1>8. sum[w] = sh[0]
    BY <1>7 DEF T
  <1>. QED
    BY <1>1, <1>8 DEF sum, S, Number

------------------------------------------------------------------------------
(* A number up to b * w has a place below w and a rest below b.            *)
HasPlace(k, b, w) == \E p \in 0..(w - 1), r \in 0..(b - 1) : k = b * p + r

LEMMA PlaceAndRest ==
    ASSUME NEW b \in Nat \ {0}, NEW w \in Nat, NEW k \in Nat, k < b * w
    PROVE  HasPlace(k, b, w)
  <1> DEFINE T == {n \in Nat : \A j \in Nat : j < b * n => \E p \in 0..(n - 1), r \in 0..(b - 1) : j = b * p + r}
  <1>1. 0 \in T
    OBVIOUS
  <1>2. ASSUME NEW n \in Nat, n \in T
        PROVE  n + 1 \in T
    <2>1. ASSUME NEW j \in Nat, j < b * (n + 1)
          PROVE  \E p \in 0..((n + 1) - 1), r \in 0..(b - 1) : j = b * p + r
      <3>1. CASE j < b * n
        <4>1. PICK p \in 0..(n - 1), r \in 0..(b - 1) : j = b * p + r
          BY <1>2, <3>1
        <4>. QED
          BY <4>1
      <3>2. CASE j >= b * n
        <4>1. PICK m \in Nat : m = b * n
          OBVIOUS
        <4>2. b * (n + 1) = m + b
          BY <4>1
        <4>3. j - m \in 0..(b - 1)
          BY <2>1, <3>2, <4>1, <4>2
        <4>4. j = b * n + (j - m)
          BY <4>1
        <4>5. n \in 0..((n + 1) - 1)
          OBVIOUS
        <4>. QED
          BY <4>3, <4>4, <4>5
      <3>3. b * n \in Nat
        OBVIOUS
      <3>. QED
        BY <3>1, <3>2, <3>3
    <2>2. n + 1 \in Nat
      OBVIOUS
    <2>. QED
      BY <2>1, <2>2
  <1>. HIDE DEF T
  <1>3. w \in T
    BY <1>1, <1>2, AllNaturals
  <1>. QED
    BY <1>3 DEF T, HasPlace

(* And below b * w is what has them.                                       *)
LEMMA PlaceBelow ==
    ASSUME NEW b \in Nat \ {0}, NEW w \in Nat, NEW p \in 0..(w - 1), NEW r \in 0..(b - 1)
    PROVE  b * p + r \in 0..(b * w - 1)
  <1>1. PICK d \in Nat : w = p + 1 + d
    <2>1. w - p - 1 \in Nat /\ w = p + 1 + (w - p - 1)
      OBVIOUS
    <2>. QED
      BY <2>1
  <1>2. p \in Nat
    OBVIOUS
  <1>3. b * w = b * p + b + b * d
    BY <1>1, <1>2
  <1>4. b * p \in Nat /\ b * d \in Nat
    BY <1>2
  <1>. QED
    BY <1>3, <1>4

LEMMA ByteBits == BitsPerByte \in Nat \ {0} /\ HalfByte \in Nat \ {0} /\ BitsPerByte = 2 * HalfByte
  BY PackingAssumption DEF BitsPerByte

LEMMA PutUintType ==
    ASSUME NEW f, NEW n, NEW size \in Nat
    PROVE  PutUint(f, n, size) \in [1..size -> Byte]
  BY DEF PutUint, Byte

(* Unmarshalling a number that fits its bytes gives it back.               *)
LEMMA UintOfPutUint ==
    ASSUME NEW f, NEW size \in Nat, NEW n \in Nat,
           Shifted(n, BitsPerByte * size)[BitsPerByte * size] = 0
    PROVE  Uint(f, PutUint(f, n, size)) = n
  <1>0. PICK B \in Nat \ {0} : B = BitsPerByte
    BY ByteBits
  <1> DEFINE S == Ones(n, B * size)
             s == PutUint(f, n, size)
             U == UNION {{B * Place(f, i, Len(s)) + b : b \in s[i]} : i \in DOMAIN s}
  <1>1. B * size \in Nat
    OBVIOUS
  <1>2. Len(s) = size /\ DOMAIN s = 1..size
    BY PutUintType
  <1>3. \A i \in 1..size : s[i] = {b \in 0..(B - 1) : B * Place(f, i, size) + b \in S}
    BY <1>0 DEF PutUint
  <1>4. S \subseteq 0..(B * size - 1)
    BY DEF Ones
  <1>5. Number(S, B * size) = n
    BY <1>0, <1>1, NumberOfOnes
  <1>6. Uint(f, s) = Number(U, B * size)
    BY <1>0, <1>2 DEF Uint
  <1>. HIDE DEF S, s
  <1>7. U \subseteq S
    BY <1>2, <1>3
  <1>8. ASSUME NEW k \in S
        PROVE  k \in U
    <2>1. k \in Nat /\ k < B * size
      BY <1>1, <1>4
    <2>2. PICK p \in 0..(size - 1), r \in 0..(B - 1) : k = B * p + r
      <3>1. HasPlace(k, B, size)
        BY <2>1, PlaceAndRest
      <3>. QED
        BY <3>1 DEF HasPlace
    <2>3. PICK i \in 1..size : Place(f, i, size) = p
      <3>1. CASE f.order = "le"
        <4>1. p + 1 \in 1..size /\ Place(f, p + 1, size) = p
          BY <3>1 DEF Place
        <4>. QED
          BY <4>1
      <3>2. CASE f.order # "le"
        <4>1. size - p \in 1..size /\ Place(f, size - p, size) = p
          BY <3>2 DEF Place
        <4>. QED
          BY <4>1
      <3>. QED
        BY <3>1, <3>2
    <2>4. r \in s[i]
      BY <1>3, <2>2, <2>3
    <2>. QED
      BY <1>2, <2>2, <2>3, <2>4
  <1>9. U = S
    BY <1>7, <1>8
  <1>. QED
    BY <1>5, <1>6, <1>9 DEF s

LEMMA UintType ==
    ASSUME NEW f, NEW s, Len(s) \in Nat
    PROVE  Uint(f, s) \in Nat
  <1>1. BitsPerByte * Len(s) \in Nat
    BY ByteBits
  <1>. QED
    BY <1>1, NumberType DEF Uint

(* A bit field is given back, and its byte keeps the other bits.           *)
BitRange(f) == /\ f.bits[1] \in 0..(BitsPerByte - 1) /\ f.bits[2] \in 0..(BitsPerByte - 1)
               /\ f.bits[1] <= f.bits[2]

LEMMA BitsOfEncoded ==
    ASSUME NEW f, BitRange(f), NEW byte \in Byte, NEW n \in Nat
    PROVE  /\ encodeBitField(f, byte, n) \in Byte
           /\ \A b : b \notin Mask(f) => (b \in encodeBitField(f, byte, n) <=> b \in byte)
           /\ Shifted(n, MaskWidth(f))[MaskWidth(f)] = 0 =>
                  decodeBitField(f, encodeBitField(f, byte, n)) = n
  <1>1. PICK s \in Nat, e \in Nat : s = f.bits[1] /\ e = f.bits[2] /\ s <= e /\ e <= BitsPerByte - 1
    BY ByteBits DEF BitRange
  <1> DEFINE w == e - s + 1
             S == Ones(n, w)
             enc == (byte \ (s..e)) \cup {s + k : k \in S}
  <1>2. encodeBitField(f, byte, n) = enc /\ MaskWidth(f) = w /\ Mask(f) = s..e
    BY <1>1 DEF encodeBitField, MaskWidth, Mask
  <1>3. S \subseteq 0..(w - 1)
    BY DEF Ones
  <1>4. w \in Nat
    BY <1>1
  <1>5. \A k \in S : s + k \in s..e /\ s + k \in 0..(BitsPerByte - 1)
    BY <1>1, <1>3, ByteBits
  <1>6. enc \in Byte
    BY <1>5 DEF Byte
  <1>7. \A b : b \notin s..e => (b \in enc <=> b \in byte)
    BY <1>5
  <1>8. {b - s : b \in enc \cap (s..e)} = S
    <2>1. \A b \in enc \cap (s..e) : \E k \in S : b = s + k
      OBVIOUS
    <2>2. \A k \in S : s + k \in enc \cap (s..e) /\ (s + k) - s = k
      BY <1>1, <1>3, <1>5
    <2>. HIDE DEF enc, S
    <2>. QED
      BY <1>1, <2>1, <2>2
  <1>9. decodeBitField(f, enc) = Number(S, w)
    <2>1. decodeBitField(f, enc) = Number({b - f.bits[1] : b \in enc \cap Mask(f)}, MaskWidth(f))
      BY DEF decodeBitField
    <2>. HIDE DEF enc, w, S
    <2>2. {b - f.bits[1] : b \in enc \cap Mask(f)} = S
      BY <1>1, <1>2, <1>8
    <2>. QED
      BY <1>2, <2>1, <2>2
  <1>10. Shifted(n, w)[w] = 0 => Number(S, w) = n
    BY <1>4, NumberOfOnes
  <1>. HIDE DEF enc, S, w
  <1>. QED
    BY <1>2, <1>6, <1>7, <1>9, <1>10

------------------------------------------------------------------------------
(* What the checks of the tags say of a field, and what they leave to say. *)
(* From here on no field is a slice of structs.                            *)
FieldOK(f) ==
    /\ f \in Field
    /\ Numeric(f) => f.size # -1
    /\ f.kind = "bits" => BitRange(f) /\ f.size = 1
    /\ f.kind = "bytes" => f.size = -1
    /\ f.kind = "elements" <=> f.repeat
    /\ ~Structs(f)

LEMMA FieldIs ==
    ASSUME NEW f, FieldOK(f)
    PROVE  /\ f.offset \in Nat /\ f.repeat \in BOOLEAN /\ f.elem \in Nat /\ f.len \in Nat
           /\ f.size = -1 \/ f.size \in Nat \ {0}
           /\ f.kind \in {"number", "bits", "bytes", "string", "elements"}
           /\ f.repeat => f.elem \in Nat \ {0}
           /\ ~Variable(f) /\ ~f.repeat => f.size \in Nat \ {0}
           /\ Variable(f) => f.kind # "number" /\ f.kind # "bits"
  <1>1. /\ f.offset \in Nat /\ f.repeat \in BOOLEAN /\ f.elem \in Nat /\ f.len \in Nat
        /\ f.size = -1 \/ f.size \in Nat \ {0}
        /\ f.kind \in {"number", "bits", "bytes", "string", "elements"}
    BY DEF FieldOK, Field
  <1>2. f.repeat => f.elem \in Nat \ {0}
    BY <1>1 DEF FieldOK, Structs
  <1>. QED
    BY <1>1, <1>2 DEF FieldOK, Variable, Numeric

(* What a field holds, and how long it is.                                 *)
Fitting(width) == {n \in Nat : Shifted(n, width)[width] = 0}

LEMMA HoldsIs ==
    ASSUME NEW f, FieldOK(f), NEW x \in SimpleHolds(f)
    PROVE  /\ Len(x) \in Nat
           /\ f.kind = "number" => x \in [1..1 -> Fitting(BitsPerByte * f.size)]
           /\ f.kind = "bits" => x \in [1..1 -> Fitting(MaskWidth(f))]
           /\ f.kind = "elements" => x \in [1..Len(x) -> Fitting(BitsPerByte * f.elem)]
           /\ ~Numeric(f) /\ f.kind # "elements" => x \in [1..Len(x) -> Byte]
           /\ x \in Seq(Nat) \cup Seq(Byte)
  <1>1. PICK n \in Lengths(f) : x \in [1..n -> Contents(f)]
    BY DEF SimpleHolds
  <1>3. n \in Nat
    BY <1>1, PackingAssumption DEF Lengths
  <1>4. Len(x) = n
    BY <1>1, <1>3
  <1>5. \A w : Within(w) \subseteq Fitting(w) /\ Fitting(w) \subseteq Nat
    BY PackingAssumption DEF Within, Fitting
  <1>6. CASE f.kind = "number"
    <2>1. n = 1
      BY <1>6 DEF Lengths, Numeric
    <2>2. Contents(f) = Within(BitsPerByte * f.size)
      BY <1>6 DEF Contents
    <2>3. x \in [1..1 -> Fitting(BitsPerByte * f.size)] /\ x \in [1..n -> Nat]
      BY <1>1, <1>5, <2>1, <2>2
    <2>4. x \in Seq(Nat)
      BY <1>3, <2>3
    <2>. QED
      BY <1>4, <1>6, <2>1, <2>3, <2>4 DEF Numeric
  <1>7. CASE f.kind = "bits"
    <2>1. n = 1
      BY <1>7 DEF Lengths, Numeric
    <2>2. Contents(f) = Within(MaskWidth(f))
      BY <1>7 DEF Contents
    <2>3. x \in [1..1 -> Fitting(MaskWidth(f))] /\ x \in [1..n -> Nat]
      BY <1>1, <1>5, <2>1, <2>2
    <2>4. x \in Seq(Nat)
      BY <1>3, <2>3
    <2>. QED
      BY <1>4, <1>7, <2>1, <2>3, <2>4 DEF Numeric
  <1>8. CASE f.kind = "elements"
    <2>1. Contents(f) = Within(BitsPerByte * f.elem)
      BY <1>8 DEF Contents
    <2>2. x \in [1..n -> Fitting(BitsPerByte * f.elem)] /\ x \in [1..n -> Nat]
      BY <1>1, <1>5, <2>1
    <2>3. x \in Seq(Nat)
      BY <1>3, <2>2
    <2>. QED
      BY <1>3, <1>4, <1>8, <2>2, <2>3 DEF Numeric
  <1>9. CASE f.kind \notin {"number", "bits", "elements"}
    <2>1. Contents(f) \subseteq Byte
      BY <1>9 DEF Contents, Byte, Ones
    <2>2. x \in [1..n -> Byte]
      BY <1>1, <2>1
    <2>3. x \in Seq(Byte)
      BY <1>3, <2>2
    <2>. QED
      BY <1>3, <1>4, <1>9, <2>2, <2>3 DEF Numeric
  <1>. QED
    BY <1>6, <1>7, <1>8, <1>9

LEMMA RoomType ==
    ASSUME NEW f, FieldOK(f), NEW x, Len(x) \in Nat
    PROVE  SimpleRoom(f, x) \in Nat
  BY FieldIs DEF SimpleRoom

(* A hex digit shows half a byte.                                          *)
LEMMA HexDigits ==
    ASSUME NEW n \in Nat, NEW x \in [1..n -> Byte]
    PROVE  /\ ToHex(x) \in [1..(2 * n) -> Byte]
           /\ \A k \in 1..n :
                 /\ hexCharToNibble(ToHex(x)[2 * k - 1]) = {b - HalfByte : b \in x[k] \cap Upper}
                 /\ hexCharToNibble(ToHex(x)[2 * k]) = x[k] \ Upper
  <1>1. Len(x) = n
    OBVIOUS
  <1>2. \A k \in 1..(2 * n) : (k + 1) \div 2 \in 1..n
    OBVIOUS
  <1> DEFINE High(byte) == {b - HalfByte : b \in byte \cap Upper}
  <1>3. ASSUME NEW byte \in Byte
        PROVE  /\ High(byte) \in Byte /\ High(byte) \cap Upper = {}
               /\ byte \ Upper \in Byte
    BY ByteBits DEF Byte, Upper
  <1>4. ASSUME NEW half \in Byte
        PROVE  hexDigit(half) \in Byte
    BY ByteBits, <1>4 DEF Byte, Upper, hexDigit
  <1>5. ASSUME NEW half, half \cap Upper = {}
        PROVE  hexCharToNibble(hexDigit(half)) = half
    BY <1>5 DEF hexDigit, hexCharToNibble
  <1>6. \A k \in 1..(2 * n) :
            ToHex(x)[k] = hexDigit(IF k % 2 = 1 THEN High(x[(k + 1) \div 2]) ELSE x[(k + 1) \div 2] \ Upper)
    BY <1>1 DEF ToHex
  <1>7. ToHex(x) = [k \in 1..(2 * n) |-> ToHex(x)[k]]
    BY <1>1 DEF ToHex
  <1>. HIDE DEF High
  <1>8. ASSUME NEW k \in 1..(2 * n)
        PROVE  ToHex(x)[k] \in Byte
    <2>1. PICK byte \in Byte : byte = x[(k + 1) \div 2]
      BY <1>2
    <2>2. PICK half \in Byte : half = IF k % 2 = 1 THEN High(byte) ELSE byte \ Upper
      BY <1>3, <2>1
    <2>3. ToHex(x)[k] = hexDigit(half)
      BY <1>6, <2>1, <2>2
    <2>. QED
      BY <1>4, <2>3
  <1>9. ASSUME NEW k \in 1..n
        PROVE  /\ hexCharToNibble(ToHex(x)[2 * k - 1]) = High(x[k])
               /\ hexCharToNibble(ToHex(x)[2 * k]) = x[k] \ Upper
    <2>1. /\ 2 * k - 1 \in 1..(2 * n) /\ 2 * k \in 1..(2 * n)
          /\ (2 * k - 1) % 2 = 1 /\ (2 * k) % 2 = 0
          /\ ((2 * k - 1) + 1) \div 2 = k /\ (2 * k + 1) \div 2 = k
      OBVIOUS
    <2>2. ToHex(x)[2 * k - 1] = hexDigit(High(x[k])) /\ ToHex(x)[2 * k] = hexDigit(x[k] \ Upper)
      <3>1. PICK i \in 1..(2 * n) : i = 2 * k - 1 /\ i % 2 = 1 /\ (i + 1) \div 2 = k
        BY <2>1
      <3>2. PICK j \in 1..(2 * n) : j = 2 * k /\ j % 2 = 0 /\ (j + 1) \div 2 = k
        BY <2>1
      <3>3. ToHex(x)[i] = hexDigit(High(x[k]))
        BY <1>6, <3>1
      <3>4. ToHex(x)[j] = hexDigit(x[k] \ Upper)
        <4>1. j % 2 # 1
          BY <3>2
        <4>. QED
          BY <1>6, <3>2, <4>1
      <3>. QED
        BY <3>1, <3>2, <3>3, <3>4
    <2>3. x[k] \in Byte
      OBVIOUS
    <2>4. (x[k] \ Upper) \cap Upper = {}
      OBVIOUS
    <2>. QED
      BY <1>3, <1>5, <2>2, <2>3, <2>4
  <1>. QED
    BY <1>7, <1>8, <1>9 DEF High

------------------------------------------------------------------------------
(* A part of a sequence.                                                   *)
LEMMA PartIs ==
    ASSUME NEW S, NEW n \in Nat, NEW s \in [1..n -> S], NEW a \in Nat, NEW m \in Nat, a + m <= n
    PROVE  /\ SubSeq(s, a + 1, a + m) \in [1..m -> S]
           /\ \A i \in 1..m : SubSeq(s, a + 1, a + m)[i] = s[a + i]
  <1>1. PICK u \in Int, v \in Int : u = a + 1 /\ v = a + m
    OBVIOUS
  <1>2. \A i \in u..v : s[i] \in S
    <2>1. ASSUME NEW i \in u..v
          PROVE  s[i] \in S
      <3>1. i - a \in 1..m /\ a + (i - a) = i
        BY <1>1
      <3>. QED
        BY <3>1
    <2>. QED
      BY <2>1
  <1>3. /\ SubSeq(s, u, v) \in Seq(S)
        /\ Len(SubSeq(s, u, v)) = IF u <= v THEN v - u + 1 ELSE 0
        /\ \A i \in 1..(v - u + 1) : SubSeq(s, u, v)[i] = s[u + i - 1]
    BY <1>2, SubSeqProperties
  <1>4. Len(SubSeq(s, u, v)) = m
    BY <1>1, <1>3
  <1>5. \A i \in 1..m : SubSeq(s, u, v)[i] = s[a + i]
    <2>1. ASSUME NEW i \in 1..m
          PROVE  SubSeq(s, u, v)[i] = s[a + i]
      <3>1. i \in 1..(v - u + 1) /\ u + i - 1 = a + i
        BY <1>1
      <3>. QED
        BY <1>3, <3>1
    <2>. QED
      BY <2>1
  <1>6. SubSeq(s, u, v) \in [1..m -> S]
    <2>1. PICK t \in Seq(S) : t = SubSeq(s, u, v) /\ Len(t) = m
      BY <1>3, <1>4
    <2>2. t \in [1..m -> S]
      BY <2>1, LenProperties
    <2>. QED
      BY <2>1, <2>2
  <1>. QED
    BY <1>1, <1>5, <1>6

(* What an encoder writes: as many bytes as there is room for, or one less *)
(* for the odd half of a hex digit.                                        *)
Less(n, room) == IF n < room THEN n ELSE room
LEMMA CopiedIs ==
    ASSUME NEW n \in Nat, NEW s \in [1..n -> Byte], NEW room \in Nat
    PROVE  /\ Less(n, room) \in Nat /\ Copied(s, room) \in [1..Less(n, room) -> Byte]
           /\ \A i \in 1..Less(n, room) : Copied(s, room)[i] = s[i]
  <1>1. Len(s) = n
    OBVIOUS
  <1>2. PICK m \in Nat : m = Less(n, room) /\ m <= n
    BY DEF Less
  <1>3. PICK a \in Nat : a = 0
    OBVIOUS
  <1>4. Copied(s, room) = SubSeq(s, a + 1, a + m)
    <2>1. Copied(s, room) = SubSeq(s, 1, m) /\ a + 1 = 1 /\ a + m = m
      BY <1>1, <1>2, <1>3 DEF Copied, Less
    <2>. QED
      BY <2>1
  <1>5. a + m <= n
    BY <1>2, <1>3
  <1>6. /\ SubSeq(s, a + 1, a + m) \in [1..m -> Byte]
        /\ \A i \in 1..m : SubSeq(s, a + 1, a + m)[i] = s[a + i]
    BY <1>5, PartIs
  <1>7. Copied(s, room) \in [1..m -> Byte] /\ \A i \in 1..m : Copied(s, room)[i] = s[i]
    BY <1>3, <1>4, <1>6
  <1>. QED
    BY <1>2, <1>7

LEMMA CopyFits ==
    ASSUME NEW n \in Nat, NEW x \in [1..n -> Byte], NEW room \in Nat
    PROVE  \E m \in 0..room : Copied(x, room) \in [1..m -> Byte]
  <1>1. Copied(x, room) \in [1..Less(n, room) -> Byte]
    BY CopiedIs
  <1>2. Less(n, room) \in 0..room
    BY DEF Less
  <1>. QED
    BY <1>1, <1>2

(* The i-th element of w bytes each.                                       *)
LEMMA ElementAt ==
    ASSUME NEW w \in Nat \ {0}, NEW n \in Nat, NEW i \in 1..n, NEW j \in 1..w
    PROVE  /\ w * (i - 1) + j \in 1..(w * n)
           /\ ((w * (i - 1) + j) - 1) \div w + 1 = i
           /\ (((w * (i - 1) + j) - 1) % w) + 1 = j
  <1>1. PICK p \in 0..(n - 1) : p = i - 1
    OBVIOUS
  <1>2. PICK r \in 0..(w - 1) : r = j - 1
    OBVIOUS
  <1>3. w * p + r \in 0..(w * n - 1)
    BY PlaceBelow
  <1>4. PICK q \in Nat : q = w * p
    OBVIOUS
  <1>5. PICK m \in Nat : m = w * n
    OBVIOUS
  <1>6. q + j \in 1..m
    BY <1>2, <1>3, <1>4, <1>5
  <1>7. (q + j) - 1 = w * p + r
    BY <1>2, <1>4
  <1>8. (w * p + r) \div w = p /\ (w * p + r) % w = r
    OBVIOUS
  <1>. QED
    BY <1>1, <1>2, <1>4, <1>5, <1>6, <1>7, <1>8

LEMMA ElementOf ==
    ASSUME NEW w \in Nat \ {0}, NEW n \in Nat, NEW k \in 1..(w * n)
    PROVE  (k - 1) \div w + 1 \in 1..n /\ ((k - 1) % w) + 1 \in 1..w
  <1>1. k - 1 \in Nat /\ k - 1 < w * n
    OBVIOUS
  <1>2. HasPlace(k - 1, w, n)
    BY <1>1, PlaceAndRest
  <1>3. PICK p \in 0..(n - 1), r \in 0..(w - 1) : k - 1 = w * p + r
    BY <1>2 DEF HasPlace
  <1>4. (w * p + r) \div w = p /\ (w * p + r) % w = r
    OBVIOUS
  <1>. QED
    BY <1>3, <1>4

LEMMA ElementsType ==
    ASSUME NEW f, FieldOK(f), f.kind = "elements", NEW x, Len(x) \in Nat, NEW buf
    PROVE  /\ encoder(f, buf, x) \in [1..(f.elem * Len(x)) -> Byte]
           /\ \A i \in 1..Len(x) : \A j \in 1..f.elem :
                 encoder(f, buf, x)[f.elem * (i - 1) + j] = PutUint(f, x[i], f.elem)[j]
  <1>1. PICK w \in Nat \ {0} : w = f.elem
    BY FieldIs DEF FieldOK
  <1>2. PICK n \in Nat : n = Len(x)
    OBVIOUS
  <1>3. encoder(f, buf, x) = [k \in 1..(w * n) |-> PutUint(f, x[(k - 1) \div w + 1], w)[((k - 1) % w) + 1]]
    BY <1>1, <1>2 DEF encoder, Hex
  <1>4. \A k \in 1..(w * n) : PutUint(f, x[(k - 1) \div w + 1], w)[((k - 1) % w) + 1] \in Byte
    BY ElementOf, PutUintType
  <1>5. encoder(f, buf, x) \in [1..(w * n) -> Byte]
    BY <1>3, <1>4
  <1>6. ASSUME NEW i \in 1..n, NEW j \in 1..w
        PROVE  encoder(f, buf, x)[w * (i - 1) + j] = PutUint(f, x[i], w)[j]
    <2>1. PICK k \in 1..(w * n) : /\ k = w * (i - 1) + j
                                  /\ (k - 1) \div w + 1 = i /\ ((k - 1) % w) + 1 = j
      BY ElementAt
    <2>2. encoder(f, buf, x)[k] = PutUint(f, x[(k - 1) \div w + 1], w)[((k - 1) % w) + 1]
      BY <1>3
    <2>. QED
      BY <2>1, <2>2
  <1>. QED
    BY <1>1, <1>2, <1>5, <1>6

LEMMA EncoderType ==
    ASSUME NEW f, FieldOK(f), NEW x \in SimpleHolds(f), NEW L \in Nat, NEW buf \in [1..L -> Byte],
           f.kind = "bits" => f.offset + 1 \in 1..L
    PROVE  \E n \in 0..SimpleRoom(f, x) : encoder(f, buf, x) \in [1..n -> Byte]
  <1>1. SimpleRoom(f, x) \in Nat
    BY HoldsIs, RoomType
  <1>2. CASE f.kind = "number"
    <2>1. ~Variable(f) /\ ~f.repeat /\ SimpleRoom(f, x) = f.size
      BY <1>2 DEF Variable, SimpleRoom, FieldOK
    <2>2. encoder(f, buf, x) = PutUint(f, x[1], f.size)
      BY <1>2 DEF encoder, Hex
    <2>. QED
      BY <1>1, <2>1, <2>2, PutUintType
  <1>3. CASE f.kind = "bits"
    <2>1. SimpleRoom(f, x) = 1
      BY <1>3 DEF Variable, SimpleRoom, FieldOK
    <2>2. encoder(f, buf, x) = <<encodeBitField(f, buf[f.offset + 1], x[1])>>
      BY <1>3 DEF encoder, Hex
    <2>3. x[1] \in Nat
      BY <1>3, HoldsIs DEF Fitting
    <2>4. buf[f.offset + 1] \in Byte /\ BitRange(f)
      BY <1>3 DEF FieldOK
    <2>5. encodeBitField(f, buf[f.offset + 1], x[1]) \in Byte
      BY <2>3, <2>4, BitsOfEncoded
    <2>6. encoder(f, buf, x) \in [1..1 -> Byte]
      BY <2>2, <2>5
    <2>. QED
      BY <2>1, <2>6
  <1>4. CASE f.kind = "elements"
    <2>1. SimpleRoom(f, x) = f.elem * Len(x)
      BY <1>4 DEF SimpleRoom, FieldOK
    <2>2. encoder(f, buf, x) \in [1..SimpleRoom(f, x) -> Byte]
      BY <1>4, <2>1, HoldsIs, ElementsType
    <2>. QED
      BY <1>1, <2>2
  <1>5. CASE f.kind \notin {"number", "bits", "elements"}
    <2>0. PICK room \in Nat : room = SimpleRoom(f, x)
      BY <1>1
    <2>1. PICK n \in Nat : n = Len(x) /\ x \in [1..n -> Byte]
      BY <1>5, HoldsIs DEF Numeric
    <2>2. CASE Hex(f)
      <3>1. encoder(f, buf, x) = Copied(ToHex(x), SimpleRoom(f, x))
        BY <1>5, <2>2 DEF encoder, Hex
      <3>2. PICK k \in Nat : k = 2 * n
        OBVIOUS
      <3>3. PICK s \in [1..k -> Byte] : s = ToHex(x)
        BY <2>1, <3>2, HexDigits
      <3>4. \E m \in 0..room : Copied(s, room) \in [1..m -> Byte]
        BY CopyFits
      <3>. QED
        BY <2>0, <3>1, <3>3, <3>4
    <2>3. CASE ~Hex(f)
      <3>1. encoder(f, buf, x) = Copied(x, SimpleRoom(f, x))
        BY <1>5, <2>3 DEF encoder
      <3>2. \E m \in 0..room : Copied(x, room) \in [1..m -> Byte]
        BY <2>1, CopyFits
      <3>. QED
        BY <2>0, <3>1, <3>2
    <2>. QED
      BY <2>2, <2>3
  <1>. QED
    BY <1>2, <1>3, <1>4, <1>5

------------------------------------------------------------------------------
StartsWith(s, t) == \A i \in DOMAIN t : s[i] = t[i]

AgreeUpTo(s, t, m) == \A i \in 1..m : s[i] = t[i]
LEMMA CopiedBytes ==
    ASSUME NEW n \in Nat, NEW x \in [1..n -> Byte], NEW room \in Nat, NEW s, StartsWith(s, Copied(x, room))
    PROVE  AgreeUpTo(s, x, Less(n, room))
  <1>1. /\ Copied(x, room) \in [1..Less(n, room) -> Byte]
        /\ \A i \in 1..Less(n, room) : Copied(x, room)[i] = x[i]
    BY CopiedIs
  <1>. QED
    BY <1>1 DEF StartsWith, AgreeUpTo

LEMMA SameBytes ==
    ASSUME NEW n \in Nat, NEW x \in [1..n -> Byte], NEW s \in [1..n -> Byte], \A i \in 1..n : s[i] = x[i]
    PROVE  s = x
  OBVIOUS

(* The bytes of an encoder are read as what it was given.                  *)
LEMMA BytesReadBack ==
    ASSUME NEW f, FieldOK(f), NEW x \in SimpleHolds(f), ~HexVariable(f), ~Numeric(f), f.kind # "elements",
           NEW buf, NEW s \in [1..SimpleRoom(f, x) -> Byte],
           StartsWith(s, encoder(f, buf, x))
    PROVE  SimplyReturned(f, x, decoder(f, s))
  <1>1. PICK n \in Nat : n = Len(x) /\ x \in [1..n -> Byte]
    BY HoldsIs
  <1>2. f.kind \notin {"number", "bits", "elements"} /\ ~f.repeat
    BY DEF Numeric, FieldOK
  <1>3. PICK room \in Nat : room = SimpleRoom(f, x)
    BY <1>1, RoomType
  <1>4. Len(s) = room
    BY <1>3
  <1>7. x \in [1..n -> Byte]
    BY <1>1
  <1>10. f.kind = "bytes" \/ f.kind = "string"
    BY <1>2, FieldIs
  <1>11. ~Variable(f) => f.kind = "string" /\ f.size # -1 /\ room = f.size
    BY <1>2, <1>3, <1>10 DEF SimpleRoom, Variable, FieldOK
  <1>5. CASE Hex(f)
    <2>1. ~Variable(f) /\ f.kind = "string" /\ f.size # -1 /\ room = f.size
      BY <1>5, <1>11 DEF HexVariable
    <2>4. PICK k, m : k \in Nat /\ k = 2 * n /\ m = Less(k, room)
      OBVIOUS
    <2>2. PICK t \in [1..k -> Byte] :
             /\ t = ToHex(x)
             /\ \A i \in 1..n : /\ hexCharToNibble(t[2 * i - 1]) = {b - HalfByte : b \in x[i] \cap Upper}
                              /\ hexCharToNibble(t[2 * i]) = x[i] \ Upper
      BY <1>1, <2>4, HexDigits
    <2>3. PICK h \in Nat : h = room \div 2 /\ 2 * h <= room
      OBVIOUS
    <2>5. encoder(f, buf, x) = Copied(t, room)
      BY <1>2, <1>3, <1>5, <2>2 DEF encoder
    <2>6. \A i \in 1..m : s[i] = t[i]
      <3>1. StartsWith(s, Copied(t, room))
        BY <2>5
      <3>2. AgreeUpTo(s, t, Less(k, room))
        BY <2>4, <3>1, CopiedBytes
      <3>. QED
        BY <2>4, <3>2 DEF AgreeUpTo
    <2>7. PICK y : /\ y = decoder(f, s)
                   /\ y = [i \in 1..h |-> {b + HalfByte : b \in hexCharToNibble(s[2 * i - 1])}
                                         \cup hexCharToNibble(s[2 * i])]
      BY <1>2, <1>4, <1>5, <2>3 DEF decoder, FromHex
    <2>8. ASSUME NEW i \in 1..n, i \in 1..h
          PROVE  {b + HalfByte : b \in hexCharToNibble(s[2 * i - 1])} \cup hexCharToNibble(s[2 * i]) = x[i]
      <3>1. s[2 * i - 1] = t[2 * i - 1] /\ s[2 * i] = t[2 * i]
        <4>1. 2 * i - 1 \in 1..m /\ 2 * i \in 1..m
          BY <2>3, <2>4, <2>8 DEF Less
        <4>. QED
          BY <2>6, <4>1
      <3>2. /\ hexCharToNibble(s[2 * i - 1]) = {b - HalfByte : b \in x[i] \cap Upper}
            /\ hexCharToNibble(s[2 * i]) = x[i] \ Upper
        BY <2>2, <3>1
      <3>3. x[i] \in Byte
        BY <1>1
      <3>4. \A b \in x[i] : b \in Int
        BY <3>3, ByteBits DEF Byte
      <3>5. {b + HalfByte : b \in {c - HalfByte : c \in x[i] \cap Upper}} = x[i] \cap Upper
        <4>1. \A b \in x[i] : (b - HalfByte) + HalfByte = b
          BY <3>4, ByteBits
        <4>. QED
          BY <4>1
      <3>. QED
        BY <3>2, <3>5
    <2>9. Len(y) = h /\ DOMAIN y = 1..h /\ DOMAIN x = 1..n
      BY <1>1, <2>7
    <2>10. \A i \in DOMAIN x \cap DOMAIN y : y[i] = x[i]
      BY <2>7, <2>8, <2>9
    <2>11. Characters(f) = h
      BY <1>5, <2>1, <2>3 DEF Characters
    <2>. QED
      BY <2>1, <2>7, <2>9, <2>10, <2>11 DEF SimplyReturned
  <1>6. CASE ~Hex(f)
    <2>1. encoder(f, buf, x) = Copied(x, room)
      BY <1>2, <1>3, <1>6 DEF encoder
    <2>2. PICK m : m = Less(n, room)
      OBVIOUS
    <2>3. \A i \in 1..m : s[i] = x[i]
      <3>1. StartsWith(s, Copied(x, room))
        BY <2>1
      <3>. QED
        BY <1>7, <2>2, <3>1, CopiedBytes DEF AgreeUpTo
    <2>4. decoder(f, s) = s
      BY <1>2, <1>6 DEF decoder
    <2>5. s \in [1..room -> Byte]
      BY <1>3
    <2>6. CASE Variable(f)
      <3>1. room = n
        BY <1>1, <1>2, <1>3, <2>6 DEF SimpleRoom
      <3>3. m = n
        BY <2>2, <3>1 DEF Less
      <3>2. s = x
        BY <1>7, <2>3, <2>5, <3>1, <3>3, SameBytes
      <3>. QED
        BY <2>4, <3>2 DEF SimplyReturned
    <2>7. CASE ~Variable(f)
      <3>1. DOMAIN x = 1..n /\ DOMAIN s = 1..room
        BY <1>1, <2>5
      <3>2. \A k \in DOMAIN x \cap DOMAIN s : s[k] = x[k]
        <4>1. \A k \in DOMAIN x \cap DOMAIN s : k \in 1..m
          BY <2>2, <3>1 DEF Less
        <4>. QED
          BY <2>3, <4>1
      <3>3. Len(s) = Characters(f)
        BY <1>4, <1>6, <1>11, <2>7 DEF Characters
      <3>. QED
        BY <1>11, <2>4, <2>7, <3>2, <3>3 DEF SimplyReturned
    <2>. QED
      BY <2>6, <2>7
  <1>. QED
    BY <1>5, <1>6

LEMMA ElementsReadBack ==
    ASSUME NEW f, FieldOK(f), NEW x \in SimpleHolds(f), f.kind = "elements",
           NEW buf, NEW s \in [1..SimpleRoom(f, x) -> Byte],
           StartsWith(s, encoder(f, buf, x))
    PROVE  decoder(f, s) = x
  <1>1. PICK w \in Nat \ {0} : w = f.elem
    BY FieldIs DEF FieldOK
  <1>2. PICK n \in Nat : n = Len(x) /\ x \in [1..n -> Fitting(BitsPerByte * w)]
    BY <1>1, HoldsIs
  <1>3. PICK m \in Nat : m = w * n
    BY <1>1
  <1>4. SimpleRoom(f, x) = m
    BY <1>1, <1>2, <1>3 DEF SimpleRoom, FieldOK
  <1>5. m \div w = n
    <2>1. (w * n + 0) \div w = n
      OBVIOUS
    <2>2. w * n + 0 = m
      BY <1>3
    <2>. QED
      BY <2>1, <2>2
  <1>6. /\ encoder(f, buf, x) \in [1..m -> Byte]
        /\ \A i \in 1..n : \A j \in 1..w :
              encoder(f, buf, x)[w * (i - 1) + j] = PutUint(f, x[i], w)[j]
    <2>1. /\ encoder(f, buf, x) \in [1..(f.elem * Len(x)) -> Byte]
          /\ \A i \in 1..Len(x) : \A j \in 1..f.elem :
                encoder(f, buf, x)[f.elem * (i - 1) + j] = PutUint(f, x[i], f.elem)[j]
      BY <1>2, ElementsType
    <2>. QED
      BY <1>1, <1>2, <1>3, <2>1
  <1>7. s = encoder(f, buf, x)
    BY <1>4, <1>6 DEF StartsWith
  <1>8. Len(s) = m
    BY <1>4
  <1>9. decoder(f, s) = [i \in 1..n |-> Uint(f, Slice(s, w * (i - 1), w))]
    BY <1>1, <1>5, <1>8 DEF decoder, Hex
  <1>10. ASSUME NEW i \in 1..n
         PROVE  Uint(f, Slice(s, w * (i - 1), w)) = x[i]
    <2>1. PICK p \in 0..(n - 1) : p = i - 1
      OBVIOUS
    <2>2. PICK a \in Nat : a = w * p /\ a = w * (i - 1)
      BY <2>1
    <2>3. a + w <= m
      <3>1. \A j \in 1..w : w * (i - 1) + j \in 1..(w * n)
        BY ElementAt
      <3>2. w \in 1..w
        OBVIOUS
      <3>3. w * (i - 1) + w \in 1..(w * n)
        BY <3>1, <3>2
      <3>. QED
        BY <1>3, <2>2, <3>3
    <2>4. PICK t \in [1..m -> Byte] : t = s
      BY <1>4
    <2>5. /\ SubSeq(t, a + 1, a + w) \in [1..w -> Byte]
          /\ \A j \in 1..w : SubSeq(t, a + 1, a + w)[j] = t[a + j]
      BY <2>3, PartIs
    <2>6. PICK g \in [1..w -> Byte] : g = Slice(s, w * (i - 1), w) /\ \A j \in 1..w : g[j] = s[a + j]
      BY <2>2, <2>4, <2>5 DEF Slice
    <2>7. \A j \in 1..w : s[a + j] = PutUint(f, x[i], w)[j]
      BY <1>6, <1>7, <2>2
    <2>8. g = PutUint(f, x[i], w)
      <3>1. PutUint(f, x[i], w) \in [1..w -> Byte]
        BY PutUintType
      <3>2. \A j \in 1..w : g[j] = PutUint(f, x[i], w)[j]
        BY <2>6, <2>7
      <3>. QED
        BY <3>1, <3>2
    <2>9. x[i] \in Nat /\ Shifted(x[i], BitsPerByte * w)[BitsPerByte * w] = 0
      BY <1>2 DEF Fitting
    <2>. QED
      BY <2>6, <2>8, <2>9, UintOfPutUint
  <1>11. x = [i \in 1..n |-> x[i]]
    BY <1>2
  <1>. QED
    BY <1>9, <1>10, <1>11

LEMMA ReadBack ==
    ASSUME NEW f, FieldOK(f), NEW x \in SimpleHolds(f), ~HexVariable(f),
           NEW L \in Nat, NEW buf \in [1..L -> Byte], f.kind = "bits" => f.offset + 1 \in 1..L,
           NEW s \in [1..SimpleRoom(f, x) -> Byte],
           StartsWith(s, encoder(f, buf, x))
    PROVE  SimplyReturned(f, x, decoder(f, s))
  <1>1. CASE f.kind = "number"
    <2>1. ~Variable(f) /\ ~f.repeat /\ SimpleRoom(f, x) = f.size /\ f.size \in Nat
      BY <1>1, FieldIs DEF Variable, SimpleRoom, FieldOK
    <2>2. encoder(f, buf, x) = PutUint(f, x[1], f.size)
      BY <1>1 DEF encoder, Hex
    <2>3. x \in [1..1 -> Fitting(BitsPerByte * f.size)]
      BY <1>1, HoldsIs
    <2>4. PutUint(f, x[1], f.size) \in [1..f.size -> Byte]
      BY <2>1, PutUintType
    <2>5. s = PutUint(f, x[1], f.size)
      BY <2>1, <2>2, <2>4 DEF StartsWith
    <2>6. x[1] \in Nat /\ Shifted(x[1], BitsPerByte * f.size)[BitsPerByte * f.size] = 0
      BY <2>3 DEF Fitting
    <2>7. Uint(f, s) = x[1]
      BY <2>1, <2>5, <2>6, UintOfPutUint
    <2>8. decoder(f, s) = <<Uint(f, s)>>
      BY <1>1 DEF decoder, Hex
    <2>9. x = <<x[1]>>
      BY <2>3
    <2>. QED
      BY <2>7, <2>8, <2>9 DEF SimplyReturned
  <1>2. CASE f.kind = "bits"
    <2>1. ~Variable(f) /\ ~f.repeat /\ SimpleRoom(f, x) = 1
      BY <1>2, FieldIs DEF Variable, SimpleRoom, FieldOK
    <2>2. encoder(f, buf, x) = <<encodeBitField(f, buf[f.offset + 1], x[1])>>
      BY <1>2 DEF encoder, Hex
    <2>3. x \in [1..1 -> Fitting(MaskWidth(f))]
      BY <1>2, HoldsIs
    <2>4. x[1] \in Nat /\ Shifted(x[1], MaskWidth(f))[MaskWidth(f)] = 0
      BY <2>3 DEF Fitting
    <2>5. buf[f.offset + 1] \in Byte /\ BitRange(f)
      BY <1>2 DEF FieldOK
    <2>6. s[1] = encodeBitField(f, buf[f.offset + 1], x[1])
      BY <2>2 DEF StartsWith
    <2>7. decodeBitField(f, s[1]) = x[1]
      BY <2>4, <2>5, <2>6, BitsOfEncoded
    <2>8. decoder(f, s) = <<decodeBitField(f, s[1])>>
      BY <1>2 DEF decoder, Hex
    <2>9. x = <<x[1]>>
      BY <2>3
    <2>. QED
      BY <2>7, <2>8, <2>9 DEF SimplyReturned
  <1>3. CASE f.kind = "elements"
    BY <1>3, ElementsReadBack DEF SimplyReturned
  <1>4. CASE f.kind \notin {"number", "bits", "elements"}
    BY <1>4, BytesReadBack DEF Numeric
  <1>. QED
    BY <1>1, <1>2, <1>3, <1>4

------------------------------------------------------------------------------
(* The bits of a field are those that its encoder writes, and those that   *)
(* its decoder looks at.                                                   *)
FieldBits(f, x) == {f.offset + k : k \in 0..(SimpleRoom(f, x) - 1)} \X
                   (IF f.kind = "bits" THEN Mask(f) ELSE 0..(BitsPerByte - 1))
SameBit(s, t, p, b) == b \in s[p + 1] <=> b \in t[p + 1]
SameOn(s, t, L, bits) ==
    \A p \in 0..(L - 1), b \in 0..(BitsPerByte - 1) : <<p, b>> \in bits => SameBit(s, t, p, b)
SameOff(s, t, L, bits) ==
    \A p \in 0..(L - 1), b \in 0..(BitsPerByte - 1) : <<p, b>> \notin bits => SameBit(s, t, p, b)
HasRoom(f, x, L) == f.offset + SimpleRoom(f, x) <= L \/ SimpleRoom(f, x) = 0
Reads(f, x, buf) == SimplyReturned(f, x, decoder(f, Slice(buf, f.offset, SimpleRoom(f, x))))

CutFrom(t, s, a, m) == t \in [1..m -> Byte] /\ \A i \in 1..m : t[i] = s[a + i]

LEMMA SliceIs ==
    ASSUME NEW n \in Nat, NEW s \in [1..n -> Byte], NEW a \in Nat, NEW m \in Nat,
           a + m <= n \/ m = 0
    PROVE  CutFrom(Slice(s, a, m), s, a, m)
  <1>1. CASE m = 0
    <2>1. PICK u \in Int, v \in Int : u = a + 1 /\ v = a + m /\ v < u
      BY <1>1
    <2>2. SubSeq(s, u, v) = << >>
      BY <2>1, SubSeqEmpty
    <2>3. Slice(s, a, m) = << >>
      BY <2>1, <2>2 DEF Slice
    <2>4. << >> \in Seq(Byte) /\ Len(<< >>) = 0
      OBVIOUS
    <2>5. << >> \in [1..m -> Byte]
      BY <1>1, <2>4, LenProperties
    <2>6. \A i \in 1..m : FALSE
      BY <1>1
    <2>. QED
      BY <2>3, <2>5, <2>6 DEF CutFrom
  <1>2. CASE a + m <= n
    BY <1>2, PartIs DEF Slice, CutFrom
  <1>. QED
    BY <1>1, <1>2

LEMMA BitsRoom ==
    ASSUME NEW f, FieldOK(f), NEW x \in SimpleHolds(f), NEW L \in Nat, HasRoom(f, x, L), f.kind = "bits"
    PROVE  SimpleRoom(f, x) = 1 /\ f.offset \in 0..(L - 1) /\ f.offset + 1 \in 1..L /\ BitRange(f)
  <1>1. SimpleRoom(f, x) = 1 /\ BitRange(f)
    BY DEF Variable, SimpleRoom, FieldOK
  <1>2. f.offset \in Nat
    BY FieldIs
  <1>. QED
    BY <1>1, <1>2 DEF HasRoom

LEMMA PutIs ==
    ASSUME NEW L \in Nat, NEW buf \in [1..L -> Byte], NEW a \in Nat, NEW n \in Nat,
           NEW s \in [1..n -> Byte]
    PROVE  /\ Put(buf, a, s) \in [1..L -> Byte]
           /\ \A k \in 1..n : a + k <= L => Put(buf, a, s)[a + k] = s[k]
           /\ \A i \in 1..L : i - a \notin 1..n => Put(buf, a, s)[i] = buf[i]
  <1>1. Put(buf, a, s) = [i \in 1..L |-> IF i - a \in 1..n THEN s[i - a] ELSE buf[i]]
    BY DEF Put
  <1>2. ASSUME NEW k \in 1..n, a + k <= L
        PROVE  Put(buf, a, s)[a + k] = s[k]
    <2>1. PICK i \in 1..L : i = a + k /\ i - a = k
      BY <1>2
    <2>2. Put(buf, a, s)[i] = s[k]
      BY <1>1, <2>1
    <2>. QED
      BY <2>1, <2>2
  <1>. QED
    BY <1>1, <1>2

LEMMA Written ==
    ASSUME NEW f, FieldOK(f), NEW x \in SimpleHolds(f), NEW L \in Nat, NEW buf \in [1..L -> Byte],
           HasRoom(f, x, L)
    PROVE  /\ Put(buf, f.offset, encoder(f, buf, x)) \in [1..L -> Byte]
           /\ SameOff(Put(buf, f.offset, encoder(f, buf, x)), buf, L, FieldBits(f, x))
           /\ ~HexVariable(f) => Reads(f, x, Put(buf, f.offset, encoder(f, buf, x)))
  <1>1. PICK a \in Nat : a = f.offset
    BY FieldIs
  <1>2. PICK room \in Nat : room = SimpleRoom(f, x)
    BY HoldsIs, RoomType
  <1>3. f.kind = "bits" => f.offset + 1 \in 1..L
    BY BitsRoom
  <1>9. PICK n \in 0..room : encoder(f, buf, x) \in [1..n -> Byte]
    BY <1>2, <1>3, EncoderType
  <1>4. PICK s \in [1..n -> Byte] : s = encoder(f, buf, x)
    BY <1>9
  <1>5. PICK new \in [1..L -> Byte] :
           /\ new = Put(buf, a, s)
           /\ \A k \in 1..n : a + k <= L => new[a + k] = s[k]
           /\ \A i \in 1..L : i - a \notin 1..n => new[i] = buf[i]
    <2>1. n \in Nat
      OBVIOUS
    <2>. QED
      BY <2>1, PutIs
  <1>6. a + room <= L \/ room = 0
    BY <1>1, <1>2 DEF HasRoom
  <1>7. SameOff(new, buf, L, FieldBits(f, x))
    <2>1. SUFFICES ASSUME NEW p \in 0..(L - 1), NEW b \in 0..(BitsPerByte - 1), <<p, b>> \notin FieldBits(f, x)
                   PROVE  b \in new[p + 1] <=> b \in buf[p + 1]
      BY DEF SameOff, SameBit
    <2>2. p + 1 \in 1..L
      OBVIOUS
    <2>3. CASE (p + 1) - a \notin 1..n
      BY <1>5, <2>2, <2>3
    <2>4. CASE (p + 1) - a \in 1..n
      <3>1. PICK k \in 1..n : k = (p + 1) - a
        BY <2>4
      <3>2. k - 1 \in 0..(room - 1) /\ p = a + (k - 1) /\ a + k <= L /\ p + 1 = a + k
        BY <1>6, <3>1
      <3>3. f.kind = "bits" /\ b \notin Mask(f)
        <4>1. p \in {f.offset + j : j \in 0..(SimpleRoom(f, x) - 1)}
          BY <1>1, <1>2, <3>2
        <4>. QED
          BY <2>1, <4>1 DEF FieldBits
      <3>4. room = 1 /\ k = 1
        BY <1>2, <3>2, <3>3, BitsRoom
      <3>5. s[1] = encodeBitField(f, buf[a + 1], x[1])
        BY <1>1, <1>4, <3>3 DEF encoder, Hex
      <3>6. x[1] \in Nat
        BY <3>3, HoldsIs DEF Fitting
      <3>7. BitRange(f) /\ buf[a + 1] \in Byte
        BY <1>1, <3>3, BitsRoom
      <3>8. b \in encodeBitField(f, buf[a + 1], x[1]) <=> b \in buf[a + 1]
        BY <3>3, <3>6, <3>7, BitsOfEncoded
      <3>9. new[p + 1] = s[1] /\ buf[p + 1] = buf[a + 1]
        BY <1>5, <3>2, <3>4
      <3>. QED
        BY <3>5, <3>8, <3>9
    <2>. QED
      BY <2>3, <2>4
  <1>8. ASSUME ~HexVariable(f)
        PROVE  Reads(f, x, new)
    <2>5. CutFrom(Slice(new, a, room), new, a, room)
      BY <1>6, SliceIs
    <2>1. PICK t \in [1..room -> Byte] : t = Slice(new, a, room) /\ \A i \in 1..room : t[i] = new[a + i]
      BY <2>5 DEF CutFrom
    <2>2. \A i \in 1..n : t[i] = s[i]
      <3>1. ASSUME NEW i \in 1..n
            PROVE  t[i] = s[i]
        <4>1. i \in 1..room /\ a + i <= L
          BY <1>6
        <4>. QED
          BY <1>5, <2>1, <4>1
      <3>. QED
        BY <3>1
    <2>3. StartsWith(t, encoder(f, buf, x))
      BY <1>4, <2>2 DEF StartsWith
    <2>4. SimplyReturned(f, x, decoder(f, t))
      BY <1>2, <1>3, <1>8, <2>3, ReadBack
    <2>. QED
      BY <1>1, <1>2, <2>1, <2>4 DEF Reads
  <1>. QED
    BY <1>1, <1>4, <1>5, <1>7, <1>8

(* What a field says does not change with the bits of others.              *)
LEMMA SameReading ==
    ASSUME NEW f, FieldOK(f), NEW x \in SimpleHolds(f), NEW L \in Nat, NEW s \in [1..L -> Byte],
           NEW M \in Nat, NEW t \in [1..M -> Byte], HasRoom(f, x, L), HasRoom(f, x, M),
           NEW K \in Nat, K <= L, K <= M, HasRoom(f, x, K),
           SameOn(s, t, K, FieldBits(f, x)), Reads(f, x, s)
    PROVE  Reads(f, x, t)
  <1>1. PICK a \in Nat : a = f.offset
    BY FieldIs
  <1>2. PICK room \in Nat : room = SimpleRoom(f, x)
    BY HoldsIs, RoomType
  <1>3. PICK c \in [1..room -> Byte] : c = Slice(s, a, room) /\ \A i \in 1..room : c[i] = s[a + i]
    <2>1. a + room <= L \/ room = 0
      BY <1>1, <1>2 DEF HasRoom
    <2>2. CutFrom(Slice(s, a, room), s, a, room)
      BY <2>1, SliceIs
    <2>. QED
      BY <2>2 DEF CutFrom
  <1>4. PICK d \in [1..room -> Byte] : d = Slice(t, a, room) /\ \A i \in 1..room : d[i] = t[a + i]
    <2>1. a + room <= M \/ room = 0
      BY <1>1, <1>2 DEF HasRoom
    <2>2. CutFrom(Slice(t, a, room), t, a, room)
      BY <2>1, SliceIs
    <2>. QED
      BY <2>2 DEF CutFrom
  <1>5. ASSUME NEW i \in 1..room, NEW b \in 0..(BitsPerByte - 1), f.kind = "bits" => b \in Mask(f)
        PROVE  b \in c[i] <=> b \in d[i]
    <2>1. PICK p \in Nat : p = a + (i - 1) /\ p + 1 = a + i
      OBVIOUS
    <2>2. a + room <= K
      BY <1>1, <1>2 DEF HasRoom
    <2>3. p \in 0..(K - 1)
      BY <2>1, <2>2
    <2>4. p \in {f.offset + k : k \in 0..(SimpleRoom(f, x) - 1)}
      <3>1. i - 1 \in 0..(room - 1)
        OBVIOUS
      <3>. QED
        BY <1>1, <1>2, <2>1, <3>1
    <2>5. <<p, b>> \in FieldBits(f, x)
      BY <1>5, <2>4 DEF FieldBits
    <2>6. b \in s[p + 1] <=> b \in t[p + 1]
      BY <2>3, <2>5 DEF SameOn, SameBit
    <2>. QED
      BY <1>3, <1>4, <2>1, <2>6
  <1>6. decoder(f, c) = decoder(f, d)
    <2>1. CASE f.kind = "bits"
      <3>1. room = 1 /\ BitRange(f)
        BY <1>2, <2>1, BitsRoom
      <3>2. c[1] \cap Mask(f) = d[1] \cap Mask(f)
        <4>1. 1 \in 1..room
          BY <3>1
        <4>2. \A b \in Mask(f) : b \in 0..(BitsPerByte - 1)
          BY <3>1, ByteBits DEF Mask, BitRange
        <4>3. \A b \in Mask(f) : b \in c[1] <=> b \in d[1]
          BY <1>5, <4>1, <4>2
        <4>. QED
          BY <4>3
      <3>. QED
        BY <2>1, <3>2 DEF decoder, decodeBitField, Hex
    <2>2. CASE f.kind # "bits"
      <3>1. \A i \in 1..room : \A b \in 0..(BitsPerByte - 1) : b \in c[i] <=> b \in d[i]
        BY <1>5, <2>2
      <3>2. ASSUME NEW i \in 1..room
            PROVE  c[i] = d[i]
        <4>1. c[i] \subseteq 0..(BitsPerByte - 1) /\ d[i] \subseteq 0..(BitsPerByte - 1)
          BY <1>3, <1>4 DEF Byte
        <4>. QED
          BY <3>1, <4>1
      <3>3. c = d
        BY <3>2
      <3>. QED
        BY <3>3
    <2>. QED
      BY <2>1, <2>2
  <1>. QED
    BY <1>1, <1>2, <1>3, <1>4, <1>6 DEF Reads

------------------------------------------------------------------------------
(* A struct whose tags have been checked, without slices of structs.       *)
Flat(fields) == \A f \in ToSet(fields) : ~Structs(f)
WellTagged(fields) ==
    /\ fields \in Layouts /\ Flat(fields) /\ validateStructType(fields)
    /\ \A f \in ToSet(fields) : buildFieldCodec(f)

LEMMA TagsAre ==
    ASSUME NEW fields, WellTagged(fields)
    PROVE  /\ Len(fields) \in Nat /\ DOMAIN fields = 1..Len(fields)
           /\ \A i \in 1..Len(fields) :
                 /\ FieldOK(fields[i]) /\ fields[i].len < i
                 /\ fields[i].cond # <<>> => fields[i].cond[1] \in 1..(i - 1) /\ Numeric(fields[fields[i].cond[1]])
                 /\ Variable(fields[i]) \/ fields[i].repeat => fields[i].len \in 1..(i - 1)
                 /\ fields[i].len \in 1..Len(fields) => Numeric(fields[fields[i].len])
                 /\ fields[i].repeat /\ fields[i].size # -1 => Numeric(fields[1])
                 /\ fields[i] \in ToSet(fields)
  <1>1. fields \in Seq(Field)
    BY PackingAssumption DEF WellTagged
  <1>2. Len(fields) \in Nat /\ DOMAIN fields = 1..Len(fields)
    BY <1>1
  <1>3. ASSUME NEW i \in 1..Len(fields)
        PROVE  /\ FieldOK(fields[i]) /\ fields[i].len < i
               /\ fields[i].cond # <<>> => fields[i].cond[1] \in 1..(i - 1) /\ Numeric(fields[fields[i].cond[1]])
               /\ Variable(fields[i]) \/ fields[i].repeat => fields[i].len \in 1..(i - 1)
               /\ fields[i].len \in 1..Len(fields) => Numeric(fields[fields[i].len])
               /\ fields[i].repeat /\ fields[i].size # -1 => Numeric(fields[1])
               /\ fields[i] \in ToSet(fields)
    <2>1. PICK f \in Field : f = fields[i]
      BY <1>1
    <2>2. /\ Numeric(f) => f.size # -1
          /\ f.kind = "bits" => f.bits # <<>> /\ f.bits[1] <= f.bits[2]
          /\ f.repeat => f.kind = "elements"
          /\ f.repeat /\ f.size # -1 => Numeric(fields[1])
          /\ f.len \in DOMAIN fields => Numeric(fields[f.len])
          /\ f.cond # <<>> /\ f.cond[1] \in DOMAIN fields => Numeric(fields[f.cond[1]])
      <3>1. TagsFit(fields)
        BY PackingAssumption DEF WellTagged
      <3>. QED
        BY <1>2, <2>1, <3>1 DEF TagsFit
    <2>3. f \in ToSet(fields)
      BY <1>2, <2>1 DEF ToSet
    <2>4. buildFieldCodec(f) /\ ~Structs(f)
      BY <2>3 DEF WellTagged, Flat
    <2>5. /\ f.len \in Nat /\ f.size \in {-1} \cup (Nat \ {0}) /\ f.repeat \in BOOLEAN
          /\ f.bits \in {<<>>} \cup ((0..(BitsPerByte - 1)) \X (0..(BitsPerByte - 1)))
          /\ f.cond \in {<<>>} \cup ((Nat \ {0}) \X Nat)
      BY DEF Field
    <2>6. f.kind = "bits" => BitRange(f)
      BY <2>2, <2>5 DEF BitRange
    <2>7. FieldOK(f)
      BY <2>2, <2>4, <2>5, <2>6 DEF FieldOK, buildFieldCodec
    <2>8. /\ f.len < i
          /\ f.cond # <<>> => f.cond[1] < i
          /\ f.size = -1 \/ f.repeat => f.len # 0
      BY <1>2, <2>1 DEF WellTagged, validateStructType
    <2>9. f.cond # <<>> => f.cond[1] \in 1..(i - 1) /\ Numeric(fields[f.cond[1]])
      <3>1. f.cond # <<>> => f.cond[1] \in Nat \ {0}
        BY <2>5
      <3>2. f.cond # <<>> => f.cond[1] \in 1..(i - 1) /\ f.cond[1] \in DOMAIN fields
        BY <1>2, <2>8, <3>1
      <3>. QED
        BY <2>2, <3>2
    <2>10. Variable(f) \/ f.repeat => f.len \in 1..(i - 1)
      BY <2>5, <2>8 DEF Variable
    <2>. QED
      BY <1>2, <2>1, <2>2, <2>3, <2>7, <2>8, <2>9, <2>10
  <1>. QED
    BY <1>2, <1>3

(* The largest of finitely many numbers.                                   *)
LEMMA LargestOf ==
    ASSUME NEW N \in Nat, NEW g \in [1..N -> Nat], NEW c \in Nat, NEW S,
           c \in S, S \subseteq {c} \cup {g[i] : i \in 1..N}
    PROVE  Max(S) \in Nat /\ Max(S) \in S /\ \A y \in S : Max(S) >= y
  <1> DEFINE R == {g[i] : i \in 1..N}
  <1>1. IsFiniteSet(1..N)
    BY FS_Interval
  <1>2. g \in Surjection(1..N, R)
    BY DEF Surjection
  <1>3. IsFiniteSet(R)
    BY <1>1, <1>2, FS_Surjection
  <1>4. IsFiniteSet(R \cup {c})
    BY <1>3, FS_AddElement
  <1>5. S \subseteq R \cup {c}
    OBVIOUS
  <1>6. IsFiniteSet(S)
    BY <1>4, <1>5, FS_Subset
  <1>7. S \subseteq Nat
    OBVIOUS
  <1>8. Max(S) \in S /\ \A y \in S : Max(S) >= y
    <2>1. S \subseteq Int /\ S # {}
      BY <1>7
    <2>. QED
      BY <1>6, <2>1, MaxOfFinite
  <1>. QED
    BY <1>7, <1>8

LEMMA CodecSize ==
    ASSUME NEW fields, WellTagged(fields)
    PROVE  /\ CompileCodec(fields).size \in Nat
           /\ \A i \in 1..Len(fields) :
                 fields[i].size # -1 => fields[i].offset + fields[i].size <= CompileCodec(fields).size
  <1>1. PICK N \in Nat : N = Len(fields) /\ DOMAIN fields = 1..N
    BY TagsAre
  <1>2. \A i \in 1..N : /\ fields[i].offset \in Nat /\ fields[i].size \in {-1} \cup (Nat \ {0})
                        /\ fields[i] \in ToSet(fields)
    BY <1>1, TagsAre, FieldIs
  <1> DEFINE g == [i \in 1..N |-> IF fields[i].size > 0 THEN fields[i].offset + fields[i].size ELSE 0]
             S == {0} \cup {f.offset + f.size : f \in {h \in ToSet(fields) : h.size > 0}}
  <1>3. g \in [1..N -> Nat]
    BY <1>2
  <1>4. S \subseteq {0} \cup {g[i] : i \in 1..N}
    <2>1. ASSUME NEW f \in ToSet(fields), f.size > 0
          PROVE  \E i \in 1..N : f.offset + f.size = g[i]
      <3>1. PICK i \in 1..N : f = fields[i]
        BY <1>1 DEF ToSet
      <3>. QED
        BY <2>1, <3>1
    <2>. QED
      BY <2>1
  <1>5. \A i \in 1..N : fields[i].size # -1 => fields[i].offset + fields[i].size \in S
    BY <1>2
  <1>6. CompileCodec(fields).size = Max(S)
    BY DEF CompileCodec
  <1>7. Max(S) \in Nat /\ \A y \in S : Max(S) >= y
    <2>1. 0 \in S
      OBVIOUS
    <2>. HIDE DEF S, g
    <2>. QED
      BY <1>3, <1>4, <2>1, LargestOf
  <1>8. \A i \in 1..N : fields[i].offset + fields[i].size \in Int
    BY <1>2
  <1>. HIDE DEF S
  <1>. QED
    BY <1>1, <1>5, <1>6, <1>7, <1>8

(* A value of the struct.                                                  *)
ValueOf(fields, v) ==
    /\ DOMAIN v = 1..Len(fields) /\ v = [i \in 1..Len(fields) |-> v[i]]
    /\ \A i \in 1..Len(fields) : v[i] \in SimpleHolds(fields[i])

LEMMA FlatRoom ==
    ASSUME NEW f, FieldOK(f), NEW x
    PROVE  Room(f, x) = SimpleRoom(f, x) /\ Holds(f) = SimpleHolds(f)
  BY DEF FieldOK, Room, Holds

LEMMA SizeCounts ==
    ASSUME NEW fields, WellTagged(fields), NEW v, ValueOf(fields, v)
    PROVE  /\ EncodeSize(CompileCodec(fields), v) \in Nat
           /\ CompileCodec(fields).size <= EncodeSize(CompileCodec(fields), v)
           /\ \A i \in 1..Len(fields) :
                 /\ fields[i].offset \in Nat /\ SimpleRoom(fields[i], v[i]) \in Nat
                 /\ fields[i].offset + SimpleRoom(fields[i], v[i]) <= EncodeSize(CompileCodec(fields), v)
                 /\ ~fields[i].repeat /\ ~Variable(fields[i]) =>
                        fields[i].offset + SimpleRoom(fields[i], v[i]) <= CompileCodec(fields).size
  <1>1. PICK N \in Nat : N = Len(fields) /\ DOMAIN fields = 1..N /\ DOMAIN v = 1..N
    BY TagsAre DEF ValueOf
  <1>2. PICK c \in Nat : c = CompileCodec(fields).size
    BY CodecSize
  <1>3. \A i \in 1..N : /\ FieldOK(fields[i]) /\ fields[i].offset \in Nat
                        /\ SimpleRoom(fields[i], v[i]) \in Nat
    <2>1. ASSUME NEW i \in 1..N
          PROVE  /\ FieldOK(fields[i]) /\ fields[i].offset \in Nat
                 /\ SimpleRoom(fields[i], v[i]) \in Nat
      <3>1. FieldOK(fields[i])
        BY <1>1, TagsAre
      <3>2. v[i] \in SimpleHolds(fields[i])
        BY <1>1 DEF ValueOf
      <3>. QED
        BY <3>1, <3>2, FieldIs, HoldsIs, RoomType
    <2>. QED
      BY <2>1
  <1>10. \A i \in 1..N : Room(fields[i], v[i]) = SimpleRoom(fields[i], v[i])
    BY <1>3, FlatRoom
  <1> DEFINE g == [i \in 1..N |-> fields[i].offset + SimpleRoom(fields[i], v[i])]
             S == {c} \cup {fields[i].offset + Room(fields[i], v[i]) :
                              i \in {j \in 1..N : fields[j].repeat \/ Variable(fields[j])}}
  <1>4. g \in [1..N -> Nat] /\ S \subseteq {c} \cup {g[i] : i \in 1..N}
    BY <1>3, <1>10
  <1>5. EncodeSize(CompileCodec(fields), v) = Max(S)
    BY <1>1, <1>2 DEF EncodeSize, SizeBy, CompileCodec
  <1>6. Max(S) \in Nat /\ \A y \in S : Max(S) >= y
    <2>1. c \in S
      OBVIOUS
    <2>. HIDE DEF S, g
    <2>. QED
      BY <1>4, <2>1, LargestOf
  <1>7. ASSUME NEW i \in 1..N, ~fields[i].repeat, ~Variable(fields[i])
        PROVE  fields[i].offset + SimpleRoom(fields[i], v[i]) <= c
    <2>1. fields[i].size # -1 /\ SimpleRoom(fields[i], v[i]) = fields[i].size
      BY <1>3, <1>7, FieldIs DEF SimpleRoom
    <2>. QED
      BY <1>1, <1>2, <2>1, CodecSize
  <1>8. c <= Max(S)
    BY <1>6
  <1>9. ASSUME NEW i \in 1..N
        PROVE  fields[i].offset + SimpleRoom(fields[i], v[i]) <= Max(S)
    <2>1. CASE fields[i].repeat \/ Variable(fields[i])
      <3>1. fields[i].offset + SimpleRoom(fields[i], v[i]) \in S
        BY <1>10, <2>1
      <3>. HIDE DEF S
      <3>. QED
        BY <1>3, <1>6, <3>1
    <2>2. CASE ~(fields[i].repeat \/ Variable(fields[i]))
      <3>1. fields[i].offset + SimpleRoom(fields[i], v[i]) <= c
        BY <1>7, <2>2
      <3>2. fields[i].offset + SimpleRoom(fields[i], v[i]) \in Nat
        BY <1>3
      <3>. HIDE DEF S
      <3>. QED
        BY <1>6, <1>8, <3>1, <3>2
    <2>. QED
      BY <2>1, <2>2
  <1>. HIDE DEF S
  <1>. QED
    BY <1>1, <1>2, <1>3, <1>5, <1>6, <1>7, <1>8, <1>9

------------------------------------------------------------------------------
(* No two fields of a faithful struct share a bit: the fields that Collide *)
(* leaves to the check of the tags have bytes of their own.                *)
Apart(fields, v) ==
    \A i, j \in 1..Len(fields) :
        i # j /\ Present(fields[i], v) /\ Present(fields[j], v) =>
            FieldBits(fields[i], v[i]) \cap FieldBits(fields[j], v[j]) = {}

Plain(f) == ~Shares(f) /\ f.size # -1 /\ ~f.repeat

LEMMA PlainApart ==
    ASSUME NEW fields, WellTagged(fields), NEW v, NEW i \in 1..Len(fields), NEW j \in 1..Len(fields),
           i < j, Plain(fields[i]), Plain(fields[j])
    PROVE  FieldBits(fields[i], v[i]) \cap FieldBits(fields[j], v[j]) = {}
  <1>1. PICK f, g : f = fields[i] /\ g = fields[j]
    OBVIOUS
  <1>2. FieldOK(f) /\ FieldOK(g)
    BY <1>1, TagsAre
  <1>3. PICK a \in Nat, b \in Nat : a = f.offset /\ b = g.offset
    BY <1>2, FieldIs
  <1>4. PICK m \in Nat \ {0}, n \in Nat \ {0} : m = f.size /\ n = g.size
    BY <1>1, <1>2, FieldIs DEF Plain
  <1>5. SimpleRoom(f, v[i]) = m /\ SimpleRoom(g, v[j]) = n
    BY <1>1, <1>4 DEF SimpleRoom, Plain, Variable
  <1>6. a # b
    <2>1. i \in 1..(j - 1) /\ j \in DOMAIN fields
      BY TagsAre
    <2>2. fields[i].offset = fields[j].offset => Shares(fields[i])
      BY <1>1, <2>1 DEF WellTagged, validateStructType, Plain
    <2>. QED
      BY <1>1, <1>3, <2>2 DEF Plain
  <1>7. (a < b => a + m <= b) /\ (b < a => b + n <= a)
    <2>1. i \in DOMAIN fields /\ j \in DOMAIN fields
      BY TagsAre
    <2>2. ~Shares(f) /\ ~Shares(g) /\ f.size > 0 /\ g.size > 0
      BY <1>1, <1>4 DEF Plain
    <2>. QED
      BY <1>1, <1>3, <1>4, <2>1, <2>2 DEF WellTagged, validateStructType
  <1> DEFINE A == {a + k : k \in 0..(m - 1)}
             B == {b + k : k \in 0..(n - 1)}
             C == IF f.kind = "bits" THEN Mask(f) ELSE 0..(BitsPerByte - 1)
             D == IF g.kind = "bits" THEN Mask(g) ELSE 0..(BitsPerByte - 1)
  <1>8. A \cap B = {}
    BY <1>6, <1>7
  <1>9. FieldBits(f, v[i]) = A \X C /\ FieldBits(g, v[j]) = B \X D
    BY <1>3, <1>5 DEF FieldBits
  <1>. HIDE DEF A, B, C, D
  <1>10. (A \X C) \cap (B \X D) = {}
    BY <1>8
  <1>. QED
    BY <1>1, <1>9, <1>10

LEMMA FaithfulApart ==
    ASSUME NEW fields, WellTagged(fields), NEW v, ~Collide(fields, v)
    PROVE  Apart(fields, v)
  <1>1. DOMAIN fields = 1..Len(fields) /\ Len(fields) \in Nat
    BY TagsAre
  <1>. SUFFICES ASSUME NEW i \in 1..Len(fields), NEW j \in 1..Len(fields), i # j,
                       Present(fields[i], v), Present(fields[j], v)
                PROVE  FieldBits(fields[i], v[i]) \cap FieldBits(fields[j], v[j]) = {}
    BY DEF Apart
  <1>2. /\ FieldBits(fields[i], v[i]) = Occupied(fields, v, i)
        /\ FieldBits(fields[j], v[j]) = Occupied(fields, v, j)
    <2>1. Room(fields[i], v[i]) = SimpleRoom(fields[i], v[i]) /\ Room(fields[j], v[j]) = SimpleRoom(fields[j], v[j])
      BY TagsAre, FlatRoom
    <2>. QED
      BY <2>1 DEF FieldBits, Occupied
  <1>3. CASE ~Plain(fields[i])
    BY <1>1, <1>2, <1>3 DEF Plain, Collide
  <1>4. CASE ~Plain(fields[j])
    <2>1. Occupied(fields, v, j) \cap Occupied(fields, v, i) = {}
      BY <1>1, <1>4 DEF Plain, Collide
    <2>. QED
      BY <1>2, <2>1
  <1>5. CASE Plain(fields[i]) /\ Plain(fields[j])
    <2>1. CASE i < j
      BY <1>5, <2>1, PlainApart
    <2>2. CASE j < i
      <3>1. FieldBits(fields[j], v[j]) \cap FieldBits(fields[i], v[i]) = {}
        BY <1>5, <2>2, PlainApart
      <3>. QED
        BY <3>1
    <2>. QED
      BY <2>1, <2>2
  <1>. QED
    BY <1>3, <1>4, <1>5

------------------------------------------------------------------------------
(* Encoding, field by field.                                               *)
EncodeStates(L) == [phase : {"ok", "failed", "panicked"}, buf : [1..L -> Byte], n : Nat]

LEMMA EncodeCases ==
    ASSUME NEW L \in Nat, NEW r \in EncodeStates(L), NEW f, FieldOK(f), NEW x \in SimpleHolds(f), NEW v
    PROVE  /\ EncodeSimple(v, r, f, x) \in EncodeStates(L)
           /\ r.phase # "ok" \/ ~Present(f, v) => EncodeSimple(v, r, f, x) = r
           /\ EncodeSimple(v, r, f, x).phase = "ok" => r.phase = "ok"
           /\ EncodeSimple(v, r, f, x).phase = "ok" /\ Present(f, v) =>
                 /\ HasRoom(f, x, L)
                 /\ EncodeSimple(v, r, f, x).buf = Put(r.buf, f.offset, encoder(f, r.buf, x))
                 /\ EncodeSimple(v, r, f, x).n >= r.n
                 /\ f.repeat \/ Variable(f) => EncodeSimple(v, r, f, x).n >= f.offset + SimpleRoom(f, x)
                 /\ EncodeSimple(v, r, f, x).n = r.n
                    \/ EncodeSimple(v, r, f, x).n = f.offset + SimpleRoom(f, x)
           /\ r.phase = "ok" /\ f.offset + SimpleRoom(f, x) <= L /\ ~Overruns(f, x) =>
                 EncodeSimple(v, r, f, x).phase = "ok"
  <1>1. f.offset \in Nat /\ SimpleRoom(f, x) \in Nat
    BY FieldIs, HoldsIs, RoomType
  <1>2. PICK end \in Nat : end = f.offset + SimpleRoom(f, x)
    BY <1>1
  <1>3. Len(r.buf) = L /\ r.phase \in {"ok", "failed", "panicked"} /\ r.buf \in [1..L -> Byte] /\ r.n \in Nat
        /\ r = [phase |-> r.phase, buf |-> r.buf, n |-> r.n]
    BY DEF EncodeStates
  <1>4. CASE r.phase # "ok" \/ ~Present(f, v)
    <2>1. EncodeSimple(v, r, f, x) = r
      BY <1>4 DEF EncodeSimple
    <2>2. ASSUME r.phase = "ok"
          PROVE  ~Present(f, v)
      BY <1>4, <2>2
    <2>. QED
      BY <2>1, <2>2
  <1>5. CASE r.phase = "ok" /\ Present(f, v)
    <2>2. CASE end > L
      <3>1. PICK p \in {"failed", "panicked"} : EncodeSimple(v, r, f, x) = [r EXCEPT !.phase = p]
        BY <1>2, <1>3, <1>5, <2>2 DEF EncodeSimple
      <3>2. EncodeSimple(v, r, f, x) = [phase |-> p, buf |-> r.buf, n |-> r.n]
        BY <1>3, <3>1
      <3>. QED
        BY <1>2, <1>3, <1>5, <2>2, <3>2 DEF EncodeStates
    <2>3. CASE end <= L /\ Overruns(f, x)
      <3>1. EncodeSimple(v, r, f, x) = [r EXCEPT !.phase = "panicked"]
        BY <1>2, <1>3, <1>5, <2>3 DEF EncodeSimple
      <3>2. EncodeSimple(v, r, f, x) = [phase |-> "panicked", buf |-> r.buf, n |-> r.n]
        BY <1>3, <3>1
      <3>. QED
        BY <1>3, <1>5, <2>3, <3>2 DEF EncodeStates
    <2>4. CASE end <= L /\ ~Overruns(f, x)
      <3>1. HasRoom(f, x, L)
        BY <1>2, <2>4 DEF HasRoom
      <3>2. PICK b \in [1..L -> Byte] : b = Put(r.buf, f.offset, encoder(f, r.buf, x))
        BY <1>3, <3>1, Written
      <3>3. PICK n \in Nat : n = IF (f.repeat \/ Variable(f)) /\ end > r.n THEN end ELSE r.n
        BY <1>3
      <3>4. EncodeSimple(v, r, f, x) = [r EXCEPT !.buf = b, !.n = n]
        BY <1>2, <1>3, <1>5, <2>4, <3>2, <3>3 DEF EncodeSimple
      <3>5. EncodeSimple(v, r, f, x) = [phase |-> "ok", buf |-> b, n |-> n]
        BY <1>3, <1>5, <3>4
      <3>6. n >= r.n /\ (f.repeat \/ Variable(f) => n >= end) /\ (n = r.n \/ n = end)
        BY <1>3, <3>3
      <3>. QED
        BY <1>2, <1>5, <3>1, <3>2, <3>5, <3>6 DEF EncodeStates
    <2>. QED
      BY <2>2, <2>3, <2>4
  <1>. QED
    BY <1>4, <1>5

(* The loop of the encoder runs to its end.                                *)
LEMMA EncodeRuns ==
    ASSUME NEW fields, WellTagged(fields), NEW v, ValueOf(fields, v),
           NEW L \in Nat, NEW buf \in [1..L -> Byte]
    PROVE  \E r \in [0..Len(fields) -> EncodeStates(L)] :
              /\ r[0] = [phase |-> "ok", buf |-> buf, n |-> CompileCodec(fields).size]
              /\ \A i \in 1..Len(fields) : r[i] = EncodeSimple(v, r[i - 1], fields[i], v[i])
              /\ encodeToBuffer(CompileCodec(fields), buf, v) = r[Len(fields)]
  <1>1. PICK N \in Nat : N = Len(fields)
    BY TagsAre
  <1>2. PICK a \in EncodeStates(L) : a = [phase |-> "ok", buf |-> buf, n |-> CompileCodec(fields).size]
    BY CodecSize DEF EncodeStates
  <1>3. \A i \in 1..N : \A x \in EncodeStates(L) : EncodeSimple(v, x, fields[i], v[i]) \in EncodeStates(L)
    <2>1. ASSUME NEW i \in 1..N, NEW x \in EncodeStates(L)
          PROVE  EncodeSimple(v, x, fields[i], v[i]) \in EncodeStates(L)
      <3>1. FieldOK(fields[i]) /\ v[i] \in SimpleHolds(fields[i])
        BY <1>1, TagsAre DEF ValueOf
      <3>. QED
        BY <3>1, EncodeCases
    <2>. QED
      BY <2>1
  <1>4. PICK turn \in [1..N -> [EncodeStates(L) -> EncodeStates(L)]] :
           \A i \in 1..N : \A x \in EncodeStates(L) : turn[i][x] = EncodeSimple(v, x, fields[i], v[i])
    <2> DEFINE t == [i \in 1..N |-> [x \in EncodeStates(L) |-> EncodeSimple(v, x, fields[i], v[i])]]
    <2>1. t \in [1..N -> [EncodeStates(L) -> EncodeStates(L)]]
          /\ \A i \in 1..N : \A x \in EncodeStates(L) : t[i][x] = EncodeSimple(v, x, fields[i], v[i])
      BY <1>3
    <2>. HIDE DEF t
    <2>. QED
      BY <2>1
  <1>5. PICK g \in [0..N -> EncodeStates(L)] : g[0] = a /\ \A i \in 1..N : g[i] = turn[i][g[i - 1]]
    <2>1. PICK g \in [0..N -> EncodeStates(L)] : Runs(g, N, a, turn)
      BY LoopRuns
    <2>. QED
      BY <2>1 DEF Runs
  <1>6. \A i \in 1..N : g[i - 1] \in EncodeStates(L) /\ g[i] = EncodeSimple(v, g[i - 1], fields[i], v[i])
    <2>1. \A i \in 1..N : i - 1 \in 0..N
      OBVIOUS
    <2>. QED
      BY <1>4, <1>5, <2>1
  <1>16. \A i \in 1..N : \A x : EncodeField(v, x, fields[i], v[i]) = EncodeSimple(v, x, fields[i], v[i])
    <2>1. \A i \in 1..N : ~Structs(fields[i])
      BY <1>1, TagsAre DEF FieldOK
    <2>. QED
      BY <2>1 DEF EncodeField
  <1> DEFINE Fun(f) == f = [i \in 0..N |-> IF i = 0 THEN a ELSE EncodeField(v, f[i - 1], fields[i], v[i])]
             r == CHOOSE f : Fun(f)
  <1>7. Fun(g)
    <2>1. \A i \in 0..N : i = 0 \/ i \in 1..N
      OBVIOUS
    <2>2. \A i \in 1..N : g[i] = EncodeField(v, g[i - 1], fields[i], v[i])
      BY <1>6, <1>16
    <2>. QED
      BY <1>5, <2>1, <2>2
  <1>8. Fun(r)
    <2>. HIDE DEF Fun
    <2>. QED
      BY <1>7
  <1>9. encodeToBuffer(CompileCodec(fields), buf, v) = r[N]
    BY <1>1, <1>2 DEF encodeToBuffer, EncodeBy, CompileCodec
  <1>10. PICK f : Fun(f) /\ encodeToBuffer(CompileCodec(fields), buf, v) = f[N]
    <2>. HIDE DEF Fun, r
    <2>. QED
      BY <1>8, <1>9
  <1>. HIDE DEF r
  <1>11. \A i \in 0..N : f[i] = IF i = 0 THEN a ELSE EncodeField(v, f[i - 1], fields[i], v[i])
    BY <1>10
  <1>12. DOMAIN f = 0..N /\ f = [i \in 0..N |-> f[i]]
    BY <1>10
  <1>13. f[0] = a /\ \A i \in 1..N : f[i] = EncodeSimple(v, f[i - 1], fields[i], v[i])
    <2>1. \A i \in 1..N : i \in 0..N /\ i # 0
      OBVIOUS
    <2>2. f[0] = a /\ \A i \in 1..N : f[i] = EncodeField(v, f[i - 1], fields[i], v[i])
      BY <1>11, <2>1
    <2>. QED
      BY <1>16, <2>2
  <1>14. \A i \in 0..N : f[i] \in EncodeStates(L)
    <2>1. f[0] \in EncodeStates(L)
      BY <1>13
    <2>2. ASSUME NEW i \in 1..N, f[i - 1] \in EncodeStates(L)
          PROVE  f[i] = turn[i][f[i - 1]]
      BY <1>4, <1>13, <2>2
    <2>. QED
      BY <2>1, <2>2, LoopStays
  <1>15. f \in [0..N -> EncodeStates(L)]
    BY <1>12, <1>14
  <1>. QED
    BY <1>1, <1>2, <1>10, <1>13, <1>15

(* What has been written stays: no field writes over another.              *)
WrittenSoFar(fields, v, L, r, i) ==
    r.phase = "ok" =>
        /\ r.n >= CompileCodec(fields).size
        /\ \A j \in 1..i : Present(fields[j], v) =>
              /\ HasRoom(fields[j], v[j], L)
              /\ fields[j].repeat \/ Variable(fields[j]) =>
                     r.n >= fields[j].offset + SimpleRoom(fields[j], v[j])
              /\ Faithful(fields, v) => Reads(fields[j], v[j], r.buf)

LEMMA WriteOne ==
    ASSUME NEW fields, WellTagged(fields), NEW v, ValueOf(fields, v), NEW L \in Nat,
           NEW r \in EncodeStates(L), NEW i \in 1..Len(fields), WrittenSoFar(fields, v, L, r, i - 1)
    PROVE  WrittenSoFar(fields, v, L, EncodeSimple(v, r, fields[i], v[i]), i)
  <1>1. PICK N \in Nat : N = Len(fields)
    BY TagsAre
  <1>2. \A j \in 1..N : /\ FieldOK(fields[j]) /\ v[j] \in SimpleHolds(fields[j]) /\ fields[j] \in ToSet(fields)
                        /\ fields[j].offset \in Nat /\ SimpleRoom(fields[j], v[j]) \in Nat
    BY <1>1, TagsAre, SizeCounts DEF ValueOf
  <1>3. PICK f, x : f = fields[i] /\ x = v[i]
    OBVIOUS
  <1>4. FieldOK(f) /\ x \in SimpleHolds(f)
    BY <1>1, <1>2, <1>3
  <1>5. PICK new \in EncodeStates(L) :
           /\ new = EncodeSimple(v, r, f, x)
           /\ r.phase # "ok" \/ ~Present(f, v) => new = r
           /\ new.phase = "ok" => r.phase = "ok"
           /\ new.phase = "ok" /\ Present(f, v) =>
                 /\ HasRoom(f, x, L)
                 /\ new.buf = Put(r.buf, f.offset, encoder(f, r.buf, x))
                 /\ new.n >= r.n
                 /\ f.repeat \/ Variable(f) => new.n >= f.offset + SimpleRoom(f, x)
    BY <1>4, EncodeCases
  <1>6. /\ r.buf \in [1..L -> Byte] /\ r.n \in Nat
        /\ new.buf \in [1..L -> Byte] /\ new.n \in Nat
    BY DEF EncodeStates
  <1>7. PICK c \in Nat : c = CompileCodec(fields).size
    BY CodecSize
  <1>. SUFFICES ASSUME new.phase = "ok"
                PROVE  /\ new.n >= c
                       /\ \A j \in 1..i : Present(fields[j], v) =>
                             /\ HasRoom(fields[j], v[j], L)
                             /\ fields[j].repeat \/ Variable(fields[j]) =>
                                    new.n >= fields[j].offset + SimpleRoom(fields[j], v[j])
                             /\ Faithful(fields, v) => Reads(fields[j], v[j], new.buf)
    BY <1>3, <1>5, <1>7 DEF WrittenSoFar
  <1>8. /\ r.n >= c
        /\ \A j \in 1..(i - 1) : Present(fields[j], v) =>
              /\ HasRoom(fields[j], v[j], L)
              /\ fields[j].repeat \/ Variable(fields[j]) =>
                     r.n >= fields[j].offset + SimpleRoom(fields[j], v[j])
              /\ Faithful(fields, v) => Reads(fields[j], v[j], r.buf)
    BY <1>5, <1>7 DEF WrittenSoFar
  <1>9. \A j \in 1..i : j \in 1..N /\ (j = i \/ j \in 1..(i - 1))
    BY <1>1
  <1>10. CASE ~Present(f, v)
    BY <1>3, <1>5, <1>8, <1>9, <1>10
  <1>11. CASE Present(f, v)
    <2>1. /\ HasRoom(f, x, L) /\ new.n >= r.n
          /\ new.buf = Put(r.buf, f.offset, encoder(f, r.buf, x))
          /\ f.repeat \/ Variable(f) => new.n >= f.offset + SimpleRoom(f, x)
      BY <1>5, <1>11
    <2>2. /\ SameOff(new.buf, r.buf, L, FieldBits(f, x))
          /\ ~HexVariable(f) => Reads(f, x, new.buf)
      BY <1>4, <1>6, <2>1, Written
    <2>3. new.n >= c
      BY <1>6, <1>8, <2>1
    <2>4. ASSUME NEW j \in 1..i, Present(fields[j], v), j = i
          PROVE  /\ HasRoom(fields[j], v[j], L)
                 /\ fields[j].repeat \/ Variable(fields[j]) =>
                        new.n >= fields[j].offset + SimpleRoom(fields[j], v[j])
                 /\ Faithful(fields, v) => Reads(fields[j], v[j], new.buf)
      <3>1. fields[j] = f /\ v[j] = x
        BY <1>3, <2>4
      <3>2. Faithful(fields, v) => ~HexVariable(f)
        BY <1>2, <1>9, <3>1 DEF Faithful, Sound, Unmistaken
      <3>. QED
        BY <2>1, <2>2, <3>1, <3>2
    <2>5. ASSUME NEW j \in 1..(i - 1), Present(fields[j], v)
          PROVE  /\ HasRoom(fields[j], v[j], L)
                 /\ fields[j].repeat \/ Variable(fields[j]) =>
                        new.n >= fields[j].offset + SimpleRoom(fields[j], v[j])
                 /\ Faithful(fields, v) => Reads(fields[j], v[j], new.buf)
      <3>1. PICK g, y : g = fields[j] /\ y = v[j]
        OBVIOUS
      <3>2. /\ HasRoom(g, y, L)
            /\ g.repeat \/ Variable(g) => r.n >= g.offset + SimpleRoom(g, y)
            /\ Faithful(fields, v) => Reads(g, y, r.buf)
        BY <1>8, <2>5, <3>1
      <3>3. FieldOK(g) /\ y \in SimpleHolds(g) /\ g.offset \in Nat /\ SimpleRoom(g, y) \in Nat /\ j \in 1..N /\ j # i
        BY <1>1, <1>2, <3>1
      <3>4. g.repeat \/ Variable(g) => new.n >= g.offset + SimpleRoom(g, y)
        BY <1>6, <2>1, <3>2, <3>3
      <3>5. ASSUME Faithful(fields, v)
            PROVE  Reads(g, y, new.buf)
        <4>1. Apart(fields, v)
          BY <3>5, FaithfulApart DEF Faithful, Sound, Unmistaken
        <4>2. FieldBits(f, x) \cap FieldBits(g, y) = {}
          BY <1>1, <1>3, <1>11, <2>5, <3>1, <3>3, <4>1 DEF Apart
        <4>3. SameOn(r.buf, new.buf, L, FieldBits(g, y))
          <5>1. ASSUME NEW p \in 0..(L - 1), NEW b \in 0..(BitsPerByte - 1), <<p, b>> \in FieldBits(g, y)
                PROVE  SameBit(r.buf, new.buf, p, b)
            <6>1. <<p, b>> \notin FieldBits(f, x)
              BY <4>2, <5>1
            <6>. QED
              BY <2>2, <6>1 DEF SameOff, SameBit
          <5>. QED
            BY <5>1 DEF SameOn
        <4>4. L <= L
          OBVIOUS
        <4>. QED
          BY <1>6, <3>2, <3>3, <3>5, <4>3, <4>4, SameReading
      <3>. QED
        BY <3>1, <3>2, <3>4, <3>5
    <2>. QED
      BY <1>9, <2>3, <2>4, <2>5
  <1>. QED
    BY <1>10, <1>11

(* What comes of encoding.                                                 *)
Encodes(fields, v, s, M) ==
    /\ s \in [1..M -> Byte] /\ M >= CompileCodec(fields).size
    /\ \A j \in 1..Len(fields) : Present(fields[j], v) =>
          /\ fields[j].offset + SimpleRoom(fields[j], v[j]) <= M
          /\ Faithful(fields, v) => Reads(fields[j], v[j], s)

LEMMA EncodeResult ==
    ASSUME NEW fields, WellTagged(fields), NEW v, ValueOf(fields, v), NEW L \in Nat,
           NEW buf \in [1..L -> Byte], NEW r, r = encodeToBuffer(CompileCodec(fields), buf, v)
    PROVE  /\ r \in EncodeStates(L)
           /\ (\A i \in 1..Len(fields) : ~Overruns(fields[i], v[i])) /\ EncodeSize(CompileCodec(fields), v) <= L =>
                 r.phase = "ok" /\ r.n <= EncodeSize(CompileCodec(fields), v)
           /\ r.phase = "ok" => WrittenSoFar(fields, v, L, r, Len(fields))
  <1>1. PICK N \in Nat : N = Len(fields)
    BY TagsAre
  <1>2. PICK c \in Nat, size \in Nat :
           /\ c = CompileCodec(fields).size /\ size = EncodeSize(CompileCodec(fields), v)
           /\ c <= size
           /\ \A i \in 1..N : /\ fields[i].offset \in Nat /\ SimpleRoom(fields[i], v[i]) \in Nat
                              /\ fields[i].offset + SimpleRoom(fields[i], v[i]) <= size
    BY <1>1, CodecSize, SizeCounts
  <1>3. \A i \in 1..N : FieldOK(fields[i]) /\ v[i] \in SimpleHolds(fields[i]) /\ fields[i] \in ToSet(fields)
    BY <1>1, TagsAre DEF ValueOf
  <1>4. PICK e \in [0..N -> EncodeStates(L)] :
           /\ e[0] = [phase |-> "ok", buf |-> buf, n |-> c]
           /\ \A i \in 1..N : e[i] = EncodeSimple(v, e[i - 1], fields[i], v[i])
           /\ r = e[N]
    BY <1>1, <1>2, EncodeRuns
  <1> DEFINE T == {n \in Nat : n <= N => WrittenSoFar(fields, v, L, e[n], n)}
             Easy == (\A i \in 1..N : ~Overruns(fields[i], v[i])) /\ size <= L
             U == {n \in Nat : n <= N /\ Easy => e[n].phase = "ok" /\ e[n].n <= size}
  <1>5. 0 \in T /\ 0 \in U
    BY <1>2, <1>4 DEF WrittenSoFar
  <1>6. ASSUME NEW n \in Nat, n \in T
        PROVE  n + 1 \in T
    <2>1. ASSUME n + 1 <= N
          PROVE  WrittenSoFar(fields, v, L, e[n + 1], n + 1)
      <3>1. PICK i \in 1..N : i = n + 1 /\ i - 1 = n /\ e[i - 1] \in EncodeStates(L)
        <4>1. n + 1 \in 1..N /\ (n + 1) - 1 = n
          BY <2>1
        <4>. QED
          BY <4>1
      <3>2. WrittenSoFar(fields, v, L, e[i - 1], i - 1)
        BY <1>6, <2>1, <3>1
      <3>3. WrittenSoFar(fields, v, L, EncodeSimple(v, e[i - 1], fields[i], v[i]), i)
        BY <1>1, <3>1, <3>2, WriteOne
      <3>4. e[i] = EncodeSimple(v, e[i - 1], fields[i], v[i])
        BY <1>4
      <3>. QED
        BY <3>1, <3>3, <3>4
    <2>2. n + 1 \in Nat
      OBVIOUS
    <2>. QED
      BY <2>1, <2>2
  <1>7. ASSUME NEW n \in Nat, n \in U
        PROVE  n + 1 \in U
    <2>1. ASSUME n + 1 <= N, Easy
          PROVE  e[n + 1].phase = "ok" /\ e[n + 1].n <= size
      <3>1. PICK i \in 1..N : i = n + 1 /\ i - 1 = n /\ e[i - 1] \in EncodeStates(L)
        <4>1. n + 1 \in 1..N /\ (n + 1) - 1 = n
          BY <2>1
        <4>. QED
          BY <4>1
      <3>2. PICK d \in EncodeStates(L) : d = e[i - 1] /\ d.phase = "ok" /\ d.n <= size /\ d.n \in Nat
        BY <1>7, <2>1, <3>1 DEF EncodeStates
      <3>3. PICK f, x : f = fields[i] /\ x = v[i] /\ FieldOK(f) /\ x \in SimpleHolds(f) /\ ~Overruns(f, x)
        BY <1>3, <2>1
      <3>4. PICK end \in Nat : end = f.offset + SimpleRoom(f, x) /\ end <= size
        BY <1>2, <3>3
      <3>5. PICK g \in EncodeStates(L) :
               /\ g = EncodeSimple(v, d, f, x)
               /\ d.phase # "ok" \/ ~Present(f, v) => g = d
               /\ g.phase = "ok" /\ Present(f, v) => g.n = d.n \/ g.n = f.offset + SimpleRoom(f, x)
               /\ d.phase = "ok" /\ f.offset + SimpleRoom(f, x) <= L /\ ~Overruns(f, x) => g.phase = "ok"
        BY <3>3, EncodeCases
      <3>6. end <= L
        BY <2>1, <3>4
      <3>7. g.phase = "ok"
        BY <3>2, <3>3, <3>4, <3>5, <3>6
      <3>8. g.n <= size
        BY <3>2, <3>4, <3>5, <3>7
      <3>9. e[i] = g
        BY <1>4, <3>2, <3>3, <3>5
      <3>. QED
        BY <3>1, <3>7, <3>8, <3>9
    <2>2. n + 1 \in Nat
      OBVIOUS
    <2>. QED
      BY <2>1, <2>2
  <1>. HIDE DEF T, U
  <1>8. N \in T /\ N \in U
    BY <1>5, <1>6, <1>7, AllNaturals
  <1>9. r \in EncodeStates(L)
    BY <1>4
  <1>10. N <= N
    OBVIOUS
  <1>. QED
    BY <1>1, <1>2, <1>4, <1>8, <1>9, <1>10 DEF T, U

LEMMA EncodesBytes ==
    ASSUME NEW fields, WellTagged(fields), NEW v, ValueOf(fields, v), NEW L \in Nat,
           NEW r \in EncodeStates(L), WrittenSoFar(fields, v, L, r, Len(fields)), r.phase = "ok",
           NEW n \in Nat, n <= L, n = r.n \/ n = EncodeSize(CompileCodec(fields), v)
    PROVE  Encodes(fields, v, SubSeq(r.buf, 1, n), n) /\ Len(SubSeq(r.buf, 1, n)) = n
  <1>1. PICK N \in Nat : N = Len(fields)
    BY TagsAre
  <1>2. PICK c \in Nat, size \in Nat :
           /\ c = CompileCodec(fields).size /\ size = EncodeSize(CompileCodec(fields), v)
           /\ c <= size
           /\ \A i \in 1..N : /\ fields[i].offset \in Nat /\ SimpleRoom(fields[i], v[i]) \in Nat
                              /\ fields[i].offset + SimpleRoom(fields[i], v[i]) <= size
                              /\ ~fields[i].repeat /\ ~Variable(fields[i]) =>
                                     fields[i].offset + SimpleRoom(fields[i], v[i]) <= c
    BY <1>1, CodecSize, SizeCounts
  <1>3. r.buf \in [1..L -> Byte] /\ r.n \in Nat
    BY DEF EncodeStates
  <1>4. PICK a \in Nat : a = 0
    OBVIOUS
  <1>5. PICK s \in [1..n -> Byte] : s = SubSeq(r.buf, 1, n) /\ \A i \in 1..n : s[i] = r.buf[i]
    <2>1. CutFrom(Slice(r.buf, a, n), r.buf, a, n)
      <3>1. a + n <= L
        BY <1>4
      <3>. QED
        BY <1>3, <3>1, SliceIs
    <2>2. Slice(r.buf, a, n) = SubSeq(r.buf, 1, n)
      <3>1. a + 1 = 1 /\ a + n = n
        BY <1>4
      <3>. QED
        BY <3>1 DEF Slice
    <2>3. \A i \in 1..n : a + i = i
      BY <1>4
    <2>. QED
      BY <2>1, <2>2, <2>3 DEF CutFrom
  <1>6. /\ r.n >= c
        /\ \A j \in 1..N : Present(fields[j], v) =>
              /\ HasRoom(fields[j], v[j], L)
              /\ fields[j].repeat \/ Variable(fields[j]) =>
                     r.n >= fields[j].offset + SimpleRoom(fields[j], v[j])
              /\ Faithful(fields, v) => Reads(fields[j], v[j], r.buf)
    BY <1>1, <1>2 DEF WrittenSoFar
  <1>7. n >= c
    BY <1>2, <1>3, <1>6
  <1>8. ASSUME NEW j \in 1..N, Present(fields[j], v)
        PROVE  /\ fields[j].offset + SimpleRoom(fields[j], v[j]) <= n
               /\ Faithful(fields, v) => Reads(fields[j], v[j], s)
    <2>1. PICK f, x : f = fields[j] /\ x = v[j] /\ FieldOK(f) /\ x \in SimpleHolds(f)
      BY <1>1, TagsAre DEF ValueOf
    <2>2. PICK end \in Nat : end = f.offset + SimpleRoom(f, x) /\ end <= size
                             /\ (~f.repeat /\ ~Variable(f) => end <= c)
      <3>1. /\ f.offset \in Nat /\ SimpleRoom(f, x) \in Nat /\ f.offset + SimpleRoom(f, x) <= size
            /\ ~f.repeat /\ ~Variable(f) => f.offset + SimpleRoom(f, x) <= c
        BY <1>2, <2>1
      <3>2. f.offset + SimpleRoom(f, x) \in Nat
        BY <3>1
      <3>. QED
        BY <3>1, <3>2
    <2>3. f.repeat \/ Variable(f) => r.n >= end
      BY <1>6, <1>8, <2>1, <2>2
    <2>4. end <= n
      BY <1>2, <1>3, <1>7, <2>2, <2>3
    <2>5. ASSUME Faithful(fields, v)
          PROVE  Reads(f, x, s)
      <3>1. Reads(f, x, r.buf) /\ HasRoom(f, x, L)
        BY <1>6, <1>8, <2>1, <2>5
      <3>2. HasRoom(f, x, n)
        BY <2>2, <2>4 DEF HasRoom
      <3>3. SameOn(r.buf, s, n, FieldBits(f, x))
        <4>1. ASSUME NEW p \in 0..(n - 1), NEW b
              PROVE  SameBit(r.buf, s, p, b)
          <5>1. p + 1 \in 1..n
            OBVIOUS
          <5>. QED
            BY <1>5, <5>1 DEF SameBit
        <4>. QED
          BY <4>1 DEF SameOn
      <3>4. n <= n
        OBVIOUS
      <3>. QED
        BY <1>3, <2>1, <3>1, <3>2, <3>3, <3>4, SameReading
    <2>. QED
      BY <2>1, <2>2, <2>4, <2>5
  <1>9. Len(s) = n
    OBVIOUS
  <1>. QED
    BY <1>1, <1>2, <1>5, <1>7, <1>8, <1>9 DEF Encodes

------------------------------------------------------------------------------
(* Decoding, field by field.  What is read has the type of its field.      *)
Held == Seq(Nat) \cup Seq(Byte)
DecodedStruct(fields) ==
    {w \in [1..Len(fields) -> Held] : \A i \in 1..Len(fields) : Numeric(fields[i]) => w[i] \in [1..1 -> Nat]}
DecodeStates(fields) == [phase : {"ok", "rejected"}, value : DecodedStruct(fields)]

LEMMA OneNumber ==
    ASSUME NEW n \in Nat
    PROVE  <<n>> \in [1..1 -> Nat] /\ <<n>> \in Held
  <1>1. <<n>> \in Seq(Nat)
    OBVIOUS
  <1>. QED
    BY <1>1 DEF Held

LEMMA DecoderType ==
    ASSUME NEW f, FieldOK(f), NEW many, f.repeat \/ Variable(f) => many \in Nat,
           NEW m, m = Count(f, many), NEW s \in [1..m -> Byte]
    PROVE  /\ m \in Nat
           /\ decoder(f, s) \in Held
           /\ Numeric(f) => decoder(f, s) \in [1..1 -> Nat]
  <1>1. m \in Nat
    BY FieldIs DEF Count
  <1>2. Len(s) = m
    BY <1>1
  <1>3. CASE f.kind = "number"
    <2>1. decoder(f, s) = <<Uint(f, s)>>
      BY <1>3 DEF decoder, Hex
    <2>2. Uint(f, s) \in Nat
      BY <1>1, <1>2, UintType
    <2>. QED
      BY <1>1, <2>1, <2>2, OneNumber
  <1>4. CASE f.kind = "bits"
    <2>1. decoder(f, s) = <<decodeBitField(f, s[1])>>
      BY <1>4 DEF decoder, Hex
    <2>2. MaskWidth(f) \in Nat
      <3>1. BitRange(f)
        BY <1>4 DEF FieldOK
      <3>2. PICK a \in Int, b \in Int : a = f.bits[1] /\ b = f.bits[2] /\ a <= b
        BY <3>1, ByteBits DEF BitRange
      <3>. QED
        BY <3>2 DEF MaskWidth
    <2>3. decodeBitField(f, s[1]) \in Nat
      BY <2>2, NumberType DEF decodeBitField
    <2>. QED
      BY <1>1, <2>1, <2>3, OneNumber
  <1>5. CASE f.kind = "elements"
    <2>1. PICK w \in Nat \ {0} : w = f.elem
      BY <1>5, FieldIs DEF FieldOK
    <2>2. PICK n \in Nat : n = many
      BY <1>5 DEF FieldOK
    <2>3. m = w * n
      BY <1>5, <2>1, <2>2 DEF Count, FieldOK
    <2>4. m \div w = n
      <3>1. (w * n + 0) \div w = n
        OBVIOUS
      <3>2. w * n + 0 = m
        BY <1>1, <2>3
      <3>. QED
        BY <3>1, <3>2
    <2>5. decoder(f, s) = [i \in 1..n |-> Uint(f, Slice(s, w * (i - 1), w))]
      BY <1>2, <1>5, <2>1, <2>4 DEF decoder, Hex
    <2>6. ASSUME NEW i \in 1..n
          PROVE  Uint(f, Slice(s, w * (i - 1), w)) \in Nat
      <3>1. PICK a \in Nat : a = w * (i - 1)
        <4>1. i - 1 \in Nat
          OBVIOUS
        <4>. QED
          BY <4>1
      <3>2. PICK u \in Int, e \in Int : u = a + 1 /\ e = a + w /\ u <= e
        OBVIOUS
      <3>3. PICK S : \A k \in u..e : s[k] \in S
        <4>1. \A k \in u..e : s[k] \in {s[j] : j \in u..e}
          OBVIOUS
        <4>. QED
          BY <4>1
      <3>4. Len(SubSeq(s, u, e)) = IF u <= e THEN e - u + 1 ELSE 0
        BY <3>3, SubSeqProperties
      <3>5. Len(Slice(s, w * (i - 1), w)) \in Nat
        BY <3>1, <3>2, <3>4 DEF Slice
      <3>. QED
        BY <3>5, UintType
    <2>7. decoder(f, s) \in Seq(Nat)
      BY <2>5, <2>6
    <2>. QED
      BY <1>1, <1>5, <2>7 DEF Held, Numeric
  <1>6. CASE f.kind \notin {"number", "bits", "elements"}
    <2>1. CASE Hex(f)
      <3>1. PICK n \in Nat : n = m \div 2 /\ 2 * n <= m
        BY <1>1
      <3>2. decoder(f, s) = [i \in 1..n |-> {b + HalfByte : b \in hexCharToNibble(s[2 * i - 1])}
                                            \cup hexCharToNibble(s[2 * i])]
        BY <1>2, <1>6, <2>1, <3>1 DEF decoder, FromHex
      <3>3. ASSUME NEW i \in 1..n
            PROVE  {b + HalfByte : b \in hexCharToNibble(s[2 * i - 1])}
                   \cup hexCharToNibble(s[2 * i]) \in Byte
        <4>1. s[2 * i - 1] \in Byte /\ s[2 * i] \in Byte
          BY <1>1, <3>1
        <4>2. \A c \in Byte : hexCharToNibble(c) \subseteq 0..(HalfByte - 1)
          BY ByteBits DEF Byte, hexCharToNibble, Upper
        <4>3. \A b \in 0..(HalfByte - 1) : b \in 0..(BitsPerByte - 1) /\ b + HalfByte \in 0..(BitsPerByte - 1)
          BY ByteBits
        <4>. QED
          BY <4>1, <4>2, <4>3 DEF Byte
      <3>5. PICK g \in [1..n -> Byte] : g = decoder(f, s)
        BY <3>2, <3>3
      <3>4. decoder(f, s) \in Seq(Byte)
        BY <3>5
      <3>. QED
        BY <1>1, <1>6, <3>4 DEF Held, Numeric
    <2>2. CASE ~Hex(f)
      <3>1. decoder(f, s) = s
        BY <1>6, <2>2 DEF decoder
      <3>2. s \in Seq(Byte)
        BY <1>1
      <3>. QED
        BY <1>1, <1>6, <3>1, <3>2 DEF Held, Numeric
    <2>. QED
      BY <2>1, <2>2
  <1>. QED
    BY <1>3, <1>4, <1>5, <1>6

LEMMA ZeroType ==
    ASSUME NEW fields, WellTagged(fields)
    PROVE  Zero(fields) \in DecodedStruct(fields)
  <1>1. DOMAIN fields = 1..Len(fields)
    BY TagsAre
  <1>2. <<0>> \in Held /\ <<0>> \in [1..1 -> Nat]
    BY OneNumber
  <1>3. <<>> \in Held
    BY DEF Held
  <1>4. Zero(fields) = [i \in 1..Len(fields) |-> IF Numeric(fields[i]) THEN <<0>> ELSE <<>>]
    BY <1>1 DEF Zero
  <1>. QED
    BY <1>2, <1>3, <1>4 DEF DecodedStruct

(* Where the length of a field stands there is a number.                   *)
LEMMA CountIs ==
    ASSUME NEW fields, WellTagged(fields), NEW w \in DecodedStruct(fields), NEW i \in 1..Len(fields)
    PROVE  /\ fields[i].repeat \/ Variable(fields[i]) => w[CompileCodec(fields).lenIndex[i]][1] \in Nat
           /\ CompileCodec(fields).fields = fields
           /\ CompileCodec(fields).lenIndex[i] = IF Variable(fields[i]) THEN fields[i].len ELSE 1
  <1>1. PICK N \in Nat : N = Len(fields) /\ DOMAIN fields = 1..N
    BY TagsAre
  <1>2. CompileCodec(fields).lenIndex[i] = IF Variable(fields[i]) THEN fields[i].len ELSE 1
    BY <1>1 DEF CompileCodec
  <1>3. \A k \in 1..N : Numeric(fields[k]) => w[k][1] \in Nat
    BY <1>1 DEF DecodedStruct
  <1>4. ASSUME Variable(fields[i])
        PROVE  w[fields[i].len][1] \in Nat
    <2>1. PICK k \in 1..(i - 1) : k = fields[i].len
      BY <1>4, TagsAre
    <2>2. k \in 1..N
      BY <1>1
    <2>3. Numeric(fields[k])
      BY <1>1, <2>1, <2>2, TagsAre
    <2>. QED
      BY <1>3, <2>1, <2>2, <2>3
  <1>5. ASSUME fields[i].repeat, ~Variable(fields[i])
        PROVE  w[1][1] \in Nat
    <2>1. FieldOK(fields[i])
      BY TagsAre
    <2>2. fields[i].size # -1
      BY <1>5, <2>1 DEF Variable, FieldOK
    <2>3. Numeric(fields[1]) /\ 1 \in 1..N
      BY <1>1, <1>5, <2>2, TagsAre
    <2>. QED
      BY <1>3, <2>3
  <1>6. CompileCodec(fields).fields = fields
    BY DEF CompileCodec
  <1>. QED
    BY <1>2, <1>4, <1>5, <1>6

LEMMA DecodeCases ==
    ASSUME NEW fields, WellTagged(fields), NEW A \in Nat, NEW data \in [1..A -> Byte],
           NEW d \in DecodeStates(fields), NEW i \in 1..Len(fields), NEW f, f = fields[i],
           NEW many, many = d.value[CompileCodec(fields).lenIndex[i]][1],
           NEW new, new = DecodeSimple(CompileCodec(fields), data, d, i)
    PROVE  /\ new \in DecodeStates(fields)
           /\ d.phase # "ok" \/ ~Present(f, d.value) => new = d
           /\ d.phase = "ok" /\ Present(f, d.value) =>
                 IF f.offset + Count(f, many) <= A
                 THEN new = [phase |-> "ok", value |->
                               [d.value EXCEPT ![i] = decoder(f, Slice(data, f.offset, Count(f, many)))]]
                 ELSE new.phase # "ok"
  <1>1. FieldOK(f) /\ f.offset \in Nat
    BY TagsAre, FieldIs
  <1>2. /\ f.repeat \/ Variable(f) => many \in Nat
        /\ CompileCodec(fields).fields = fields
    <2>1. d.value \in DecodedStruct(fields)
      BY DEF DecodeStates
    <2>. QED
      BY <2>1, CountIs
  <1>3. PICK m \in Nat : m = Count(f, many)
    BY <1>1, <1>2, FieldIs DEF Count
  <1>4. Len(data) = A
    OBVIOUS
  <1>5. d.phase \in {"ok", "rejected"} /\ d.value \in DecodedStruct(fields)
        /\ d = [phase |-> d.phase, value |-> d.value]
    BY DEF DecodeStates
  <1>6. CASE d.phase # "ok" \/ ~Present(f, d.value)
    <2>1. new = d
      BY <1>2, <1>6 DEF DecodeSimple
    <2>2. ASSUME d.phase = "ok"
          PROVE  ~Present(f, d.value)
      BY <1>6, <2>2
    <2>. QED
      BY <2>1, <2>2
  <1>7. CASE d.phase = "ok" /\ Present(f, d.value)
    <2>1. CASE f.offset + m <= A
      <3>2. PICK s \in [1..m -> Byte] : s = Slice(data, f.offset, m)
        <4>1. CutFrom(Slice(data, f.offset, m), data, f.offset, m)
          BY <1>1, <2>1, SliceIs
        <4>. QED
          BY <4>1 DEF CutFrom
      <3>3. decoder(f, s) \in Held /\ (Numeric(f) => decoder(f, s) \in [1..1 -> Nat])
        BY <1>1, <1>2, <1>3, DecoderType
      <3>4. PICK z : z = decoder(f, s) /\ z \in Held /\ (Numeric(f) => z \in [1..1 -> Nat])
        BY <3>3
      <3>5. new = [d EXCEPT !.value[i] = z]
        BY <1>2, <1>3, <1>4, <1>7, <2>1, <3>2, <3>4 DEF DecodeSimple
      <3>6. PICK w \in [1..Len(fields) -> Held] :
               w = d.value /\ \A k \in 1..Len(fields) : Numeric(fields[k]) => w[k] \in [1..1 -> Nat]
        BY <1>5 DEF DecodedStruct
      <3>7. new = [phase |-> "ok", value |-> [w EXCEPT ![i] = z]]
        BY <1>5, <1>7, <3>5, <3>6
      <3>8. [w EXCEPT ![i] = z] \in DecodedStruct(fields)
        <4>1. [w EXCEPT ![i] = z] \in [1..Len(fields) -> Held]
          BY <3>4
        <4>2. ASSUME NEW k \in 1..Len(fields), Numeric(fields[k])
              PROVE  [w EXCEPT ![i] = z][k] \in [1..1 -> Nat]
          <5>1. CASE k = i
            BY <3>4, <4>2, <5>1
          <5>2. CASE k # i
            BY <3>6, <4>2, <5>2
          <5>. QED
            BY <5>1, <5>2
        <4>. QED
          BY <4>1, <4>2 DEF DecodedStruct
      <3>9. new \in DecodeStates(fields)
        BY <3>7, <3>8 DEF DecodeStates
      <3>10. new = [phase |-> "ok", value |->
                      [d.value EXCEPT ![i] = decoder(f, Slice(data, f.offset, Count(f, many)))]]
        BY <1>3, <3>2, <3>4, <3>6, <3>7
      <3>. QED
        BY <1>3, <1>7, <2>1, <3>9, <3>10
    <2>2. CASE ~(f.offset + m <= A)
      <3>1. new = [d EXCEPT !.phase = "rejected"]
        BY <1>2, <1>3, <1>4, <1>7, <2>2 DEF DecodeSimple
      <3>2. new = [phase |-> "rejected", value |-> d.value]
        BY <1>5, <3>1
      <3>. QED
        BY <1>3, <1>5, <1>7, <2>2, <3>2 DEF DecodeStates
    <2>. QED
      BY <2>1, <2>2
  <1>. QED
    BY <1>6, <1>7

(* The loop of the decoder runs to its end.                                *)
LEMMA DecodeRuns ==
    ASSUME NEW fields, WellTagged(fields), NEW A \in Nat, NEW data \in [1..A -> Byte]
    PROVE  \E r \in [0..Len(fields) -> DecodeStates(fields)] :
              /\ r[0] = [phase |-> "ok", value |-> Zero(fields)]
              /\ \A i \in 1..Len(fields) : r[i] = DecodeSimple(CompileCodec(fields), data, r[i - 1], i)
              /\ Decode(CompileCodec(fields), data) =
                    IF A < CompileCodec(fields).size THEN [phase |-> "rejected", value |-> Zero(fields)]
                    ELSE r[Len(fields)]
  <1>1. PICK N \in Nat : N = Len(fields)
    BY TagsAre
  <1>2. PICK codec : codec = CompileCodec(fields) /\ codec.fields = fields
    <2>1. CompileCodec(fields).fields = fields
      BY DEF CompileCodec
    <2>. QED
      BY <2>1
  <1> DEFINE S == DecodeStates(fields)
  <1>3. PICK a \in S : a = [phase |-> "ok", value |-> Zero(fields)]
    BY ZeroType DEF DecodeStates
  <1>4. \A i \in 1..N : \A x \in S : DecodeSimple(codec, data, x, i) \in S
    BY <1>1, <1>2, DecodeCases
  <1>5. PICK turn \in [1..N -> [S -> S]] :
           \A i \in 1..N : \A x \in S : turn[i][x] = DecodeSimple(codec, data, x, i)
    <2> DEFINE t == [i \in 1..N |-> [x \in S |-> DecodeSimple(codec, data, x, i)]]
    <2>. HIDE DEF S
    <2>1. t \in [1..N -> [S -> S]] /\ \A i \in 1..N : \A x \in S : t[i][x] = DecodeSimple(codec, data, x, i)
      BY <1>4
    <2>. HIDE DEF t
    <2>. QED
      BY <2>1
  <1>. HIDE DEF S
  <1>6. PICK g \in [0..N -> S] : g[0] = a /\ \A i \in 1..N : g[i] = turn[i][g[i - 1]]
    <2>1. PICK g \in [0..N -> S] : Runs(g, N, a, turn)
      BY LoopRuns
    <2>. QED
      BY <2>1 DEF Runs
  <1>7. \A i \in 1..N : g[i - 1] \in S /\ g[i] = DecodeSimple(codec, data, g[i - 1], i)
    <2>1. \A i \in 1..N : i - 1 \in 0..N
      OBVIOUS
    <2>. QED
      BY <1>5, <1>6, <2>1
  <1>17. \A i \in 1..N : \A x : DecodeField(codec, data, x, i) = DecodeSimple(codec, data, x, i)
    <2>1. \A i \in 1..N : ~Structs(fields[i])
      BY <1>1, TagsAre DEF FieldOK
    <2>. QED
      BY <1>2, <2>1 DEF DecodeField
  <1> DEFINE Fun(f) == f = [i \in 0..N |-> IF i = 0 THEN a ELSE DecodeField(codec, data, f[i - 1], i)]
             r == CHOOSE f : Fun(f)
             done(x) == IF A < codec.size THEN [phase |-> "rejected", value |-> Zero(fields)] ELSE x
  <1>8. Fun(g)
    <2>1. \A i \in 0..N : i = 0 \/ i \in 1..N
      OBVIOUS
    <2>2. \A i \in 1..N : g[i] = DecodeField(codec, data, g[i - 1], i)
      BY <1>7, <1>17
    <2>. QED
      BY <1>6, <2>1, <2>2
  <1>9. Fun(r)
    <2>. HIDE DEF Fun
    <2>. QED
      BY <1>8
  <1>10. Decode(codec, data) = done(r[N])
    <2>1. Len(data) = A
      OBVIOUS
    <2>. QED
      BY <1>1, <1>2, <1>3, <2>1 DEF Decode, DecodeBy
  <1>11. PICK f : Fun(f) /\ Decode(codec, data) = done(f[N])
    <2>. HIDE DEF Fun, r, done
    <2>. QED
      BY <1>9, <1>10
  <1>. HIDE DEF r
  <1>12. \A i \in 0..N : f[i] = IF i = 0 THEN a ELSE DecodeField(codec, data, f[i - 1], i)
    BY <1>11
  <1>13. DOMAIN f = 0..N /\ f = [i \in 0..N |-> f[i]]
    BY <1>11
  <1>14. f[0] = a /\ \A i \in 1..N : f[i] = DecodeSimple(codec, data, f[i - 1], i)
    <2>1. \A i \in 1..N : i \in 0..N /\ i # 0
      OBVIOUS
    <2>. QED
      BY <1>12, <1>17, <2>1
  <1>15. \A i \in 0..N : f[i] \in S
    <2>1. f[0] \in S
      BY <1>14
    <2>2. ASSUME NEW i \in 1..N, f[i - 1] \in S
          PROVE  f[i] = turn[i][f[i - 1]]
      BY <1>5, <1>14, <2>2
    <2>. QED
      BY <2>1, <2>2, LoopStays
  <1>16. f \in [0..N -> S]
    BY <1>13, <1>15
  <1>. QED
    BY <1>1, <1>2, <1>3, <1>11, <1>14, <1>16 DEF S

(* What comes of decoding: the type of the struct, and if the data are the *)
(* first bytes of those that a faithful struct was encoded in, the struct. *)
LEMMA DecodeType ==
    ASSUME NEW fields, WellTagged(fields), NEW A \in Nat, NEW data \in [1..A -> Byte]
    PROVE  /\ Decode(CompileCodec(fields), data).phase \in {"ok", "rejected"}
           /\ Decode(CompileCodec(fields), data).value \in DecodedStruct(fields)
  <1>1. PICK N \in Nat : N = Len(fields)
    BY TagsAre
  <1>2. PICK r \in [0..N -> DecodeStates(fields)] :
           Decode(CompileCodec(fields), data) =
              IF A < CompileCodec(fields).size THEN [phase |-> "rejected", value |-> Zero(fields)]
              ELSE r[N]
    BY <1>1, DecodeRuns
  <1>3. r[N] \in DecodeStates(fields)
    OBVIOUS
  <1>4. [phase |-> "rejected", value |-> Zero(fields)] \in DecodeStates(fields)
    BY ZeroType DEF DecodeStates
  <1>5. Decode(CompileCodec(fields), data) \in DecodeStates(fields)
    BY <1>2, <1>3, <1>4
  <1>. QED
    BY <1>5 DEF DecodeStates

DecodedSoFar(fields, v, d, A, M, i) ==
    IF d.phase = "ok"
    THEN \A j \in 1..Len(fields) :
            IF j <= i THEN SimplyReturned(fields[j], v[j], d.value[j]) ELSE d.value[j] = Zero(fields)[j]
    ELSE A < M

LEMMA DecodeOne ==
    ASSUME NEW fields, WellTagged(fields), NEW v, ValueOf(fields, v), Faithful(fields, v),
           NEW M \in Nat, NEW s, Encodes(fields, v, s, M),
           NEW A \in Nat, A <= M, NEW data \in [1..A -> Byte], \A i \in 1..A : data[i] = s[i],
           NEW d \in DecodeStates(fields), NEW i \in 1..Len(fields),
           DecodedSoFar(fields, v, d, A, M, i - 1)
    PROVE  DecodedSoFar(fields, v, DecodeSimple(CompileCodec(fields), data, d, i), A, M, i)
  <1>1. PICK N \in Nat : N = Len(fields) /\ DOMAIN fields = 1..N
    BY TagsAre
  <1>2. PICK f, x : f = fields[i] /\ x = v[i]
    OBVIOUS
  <1>3. FieldOK(f) /\ x \in SimpleHolds(f) /\ f \in ToSet(fields) /\ f.offset \in Nat
    BY <1>2, TagsAre, FieldIs DEF ValueOf
  <1>4. PICK many : many = d.value[CompileCodec(fields).lenIndex[i]][1]
    OBVIOUS
  <1>5. PICK new \in DecodeStates(fields) :
           /\ new = DecodeSimple(CompileCodec(fields), data, d, i)
           /\ d.phase # "ok" \/ ~Present(f, d.value) => new = d
           /\ d.phase = "ok" /\ Present(f, d.value) =>
                 IF f.offset + Count(f, many) <= A
                 THEN new = [phase |-> "ok", value |->
                               [d.value EXCEPT ![i] = decoder(f, Slice(data, f.offset, Count(f, many)))]]
                 ELSE new.phase # "ok"
    BY <1>2, <1>4, DecodeCases
  <1>6. CASE d.phase # "ok"
    BY <1>5, <1>6 DEF DecodedSoFar
  <1>7. CASE d.phase = "ok"
    <2>1. \A j \in 1..N : /\ j <= i - 1 => SimplyReturned(fields[j], v[j], d.value[j])
                          /\ ~(j <= i - 1) => d.value[j] = Zero(fields)[j]
      BY <1>1, <1>7 DEF DecodedSoFar
    <2>2. \A j \in 1..(i - 1) : Numeric(fields[j]) => d.value[j] = v[j]
      <3>1. \A j \in 1..(i - 1) : j \in 1..N /\ j <= i - 1
        BY <1>1
      <3>. QED
        BY <2>1, <3>1 DEF SimplyReturned, Numeric
    <2>3. Present(f, d.value) <=> Present(f, v)
      <3>1. f.cond # <<>> => f.cond[1] \in 1..(i - 1) /\ Numeric(fields[f.cond[1]])
        BY <1>2, TagsAre
      <3>. QED
        BY <2>2, <3>1 DEF Present
    <2>4. CASE ~Present(f, v)
      <3>1. x = Zero(fields)[i]
        BY <1>1, <1>2, <2>4 DEF Faithful, Sound, Unmistaken, Consistent
      <3>2. new = d
        BY <1>5, <2>3, <2>4
      <3>3. \A j \in 1..N : /\ j <= i => SimplyReturned(fields[j], v[j], d.value[j])
                            /\ ~(j <= i) => d.value[j] = Zero(fields)[j]
        <4>1. \A j \in 1..N : j = i \/ (j <= i <=> j <= i - 1)
          BY <1>1
        <4>2. SimplyReturned(fields[i], v[i], d.value[i])
          <5>1. d.value[i] = v[i]
            BY <1>1, <1>2, <2>1, <3>1
          <5>. QED
            BY <5>1 DEF SimplyReturned
        <4>3. i <= i
          OBVIOUS
        <4>. QED
          BY <2>1, <4>1, <4>2, <4>3
      <3>. QED
        BY <1>1, <1>5, <1>7, <3>2, <3>3 DEF DecodedSoFar
    <2>5. CASE Present(f, v)
      <3>1. f.repeat \/ Variable(f) => many = Len(x)
        <4>1. ASSUME f.repeat \/ Variable(f)
              PROVE  many = Len(x)
          <5>1. f.len \in 1..(i - 1)
            BY <1>2, <4>1, TagsAre
          <5>2. v[f.len] = <<Len(x)>>
            <6>1. i \in DOMAIN fields /\ f.len # 0
              BY <1>1, <5>1
            <6>2. Consistent(fields, v)
              BY DEF Faithful, Sound, Unmistaken
            <6>. QED
              BY <1>2, <2>5, <6>1, <6>2 DEF Consistent
          <5>3. CompileCodec(fields).lenIndex[i] = f.len
            <6>1. CompileCodec(fields).lenIndex[i] = IF Variable(f) THEN f.len ELSE 1
              BY <1>1, <1>2 DEF CompileCodec
            <6>2. f.repeat => Variable(f) \/ f.len = 1
              BY <1>3 DEF Faithful, Sound, Unmistaken
            <6>. QED
              BY <4>1, <6>1, <6>2
          <5>4. d.value[f.len] = <<Len(x)>>
            <6>1. Numeric(fields[f.len])
              <7>1. f.len \in 1..N
                BY <1>1, <5>1
              <7>. QED
                BY <1>1, <1>2, <7>1, TagsAre
            <6>. QED
              BY <2>2, <5>1, <5>2, <6>1
          <5>. QED
            BY <1>4, <5>3, <5>4
        <4>. QED
          BY <4>1
      <3>2. Count(f, many) = SimpleRoom(f, x)
        BY <3>1 DEF Count, SimpleRoom
      <3>3. PICK room \in Nat : room = SimpleRoom(f, x)
        BY <1>3, HoldsIs, RoomType
      <3>4. f.offset + room <= M /\ Reads(f, x, s)
        BY <1>1, <1>2, <2>5, <3>3 DEF Encodes
      <3>5. CASE f.offset + room <= A
        <4>1. HasRoom(f, x, A)
          BY <3>3, <3>5 DEF HasRoom
        <4>2. HasRoom(f, x, M)
          BY <3>3, <3>4 DEF HasRoom
        <4>3. SameOn(s, data, A, FieldBits(f, x))
          <5>1. ASSUME NEW p \in 0..(A - 1), NEW b
                PROVE  SameBit(s, data, p, b)
            <6>1. p + 1 \in 1..A
              OBVIOUS
            <6>. QED
              BY <6>1 DEF SameBit
          <5>. QED
            BY <5>1 DEF SameOn
        <4>4. s \in [1..M -> Byte] /\ A <= A
          BY DEF Encodes
        <4>5. Reads(f, x, data)
          BY <1>3, <3>4, <4>1, <4>2, <4>3, <4>4, SameReading
        <4>9. PICK y : y = decoder(f, Slice(data, f.offset, SimpleRoom(f, x))) /\ SimplyReturned(f, x, y)
          BY <4>5 DEF Reads
        <4>6. new = [phase |-> "ok", value |-> [d.value EXCEPT ![i] = y]]
          BY <1>5, <1>7, <2>3, <2>5, <3>2, <3>3, <3>5, <4>9
        <4>7. PICK w : w = d.value /\ DOMAIN w = 1..N
          BY <1>1 DEF DecodeStates, DecodedStruct
        <4>8. \A j \in 1..N : /\ j <= i => SimplyReturned(fields[j], v[j], [w EXCEPT ![i] = y][j])
                              /\ ~(j <= i) => [w EXCEPT ![i] = y][j] = Zero(fields)[j]
          <5>1. \A j \in 1..N : j = i \/ (j <= i <=> j <= i - 1)
            BY <1>1
          <5>2. SimplyReturned(fields[i], v[i], [w EXCEPT ![i] = y][i]) /\ i <= i
            BY <1>1, <1>2, <4>7, <4>9
          <5>3. \A j \in 1..N : j # i => [w EXCEPT ![i] = y][j] = w[j]
            BY <4>7
          <5>. QED
            BY <2>1, <4>7, <5>1, <5>2, <5>3
        <4>. QED
          BY <1>1, <1>5, <4>6, <4>7, <4>8 DEF DecodedSoFar
      <3>6. CASE ~(f.offset + room <= A)
        <4>1. new.phase # "ok"
          BY <1>5, <1>7, <2>3, <2>5, <3>2, <3>3, <3>6
        <4>2. A < M
          BY <1>3, <3>4, <3>6
        <4>. QED
          BY <1>5, <4>1, <4>2 DEF DecodedSoFar
      <3>. QED
        BY <3>5, <3>6
    <2>. QED
      BY <2>4, <2>5
  <1>. QED
    BY <1>6, <1>7

LEMMA DecodeResult ==
    ASSUME NEW fields, WellTagged(fields), NEW v, ValueOf(fields, v), Faithful(fields, v),
           NEW M \in Nat, NEW s, Encodes(fields, v, s, M),
           NEW A \in Nat, A <= M, NEW data \in [1..A -> Byte], \A i \in 1..A : data[i] = s[i]
    PROVE  /\ Decode(CompileCodec(fields), data).phase = "ok" =>
                 \A j \in 1..Len(fields) :
                    SimplyReturned(fields[j], v[j], Decode(CompileCodec(fields), data).value[j])
           /\ Decode(CompileCodec(fields), data).phase # "ok" => A < M
  <1>1. PICK N \in Nat : N = Len(fields)
    BY TagsAre
  <1>2. PICK codec : codec = CompileCodec(fields)
    OBVIOUS
  <1>3. PICK e \in [0..N -> DecodeStates(fields)] :
           /\ e[0] = [phase |-> "ok", value |-> Zero(fields)]
           /\ \A i \in 1..N : e[i] = DecodeSimple(codec, data, e[i - 1], i)
           /\ Decode(codec, data) =
                 IF A < codec.size THEN [phase |-> "rejected", value |-> Zero(fields)] ELSE e[N]
    BY <1>1, <1>2, DecodeRuns
  <1> DEFINE T == {n \in Nat : n <= N => DecodedSoFar(fields, v, e[n], A, M, n)}
  <1>4. 0 \in T
    BY <1>1, <1>3 DEF DecodedSoFar
  <1>5. ASSUME NEW n \in Nat, n \in T
        PROVE  n + 1 \in T
    <2>1. ASSUME n + 1 <= N
          PROVE  DecodedSoFar(fields, v, e[n + 1], A, M, n + 1)
      <3>1. PICK i \in 1..N : i = n + 1 /\ i - 1 = n /\ e[i - 1] \in DecodeStates(fields)
        <4>1. n + 1 \in 1..N /\ (n + 1) - 1 = n
          BY <2>1
        <4>. QED
          BY <4>1
      <3>2. DecodedSoFar(fields, v, e[i - 1], A, M, i - 1)
        BY <1>5, <2>1, <3>1
      <3>3. DecodedSoFar(fields, v, DecodeSimple(codec, data, e[i - 1], i), A, M, i)
        BY <1>1, <1>2, <3>1, <3>2, DecodeOne
      <3>4. e[i] = DecodeSimple(codec, data, e[i - 1], i)
        BY <1>3
      <3>. QED
        BY <3>1, <3>3, <3>4
    <2>2. n + 1 \in Nat
      OBVIOUS
    <2>. QED
      BY <2>1, <2>2
  <1>. HIDE DEF T
  <1>6. DecodedSoFar(fields, v, e[N], A, M, N)
    <2>1. N \in T /\ N <= N
      BY <1>4, <1>5, AllNaturals
    <2>. QED
      BY <2>1 DEF T
  <1>7. CASE A < codec.size
    <2>1. codec.size \in Nat /\ codec.size <= M
      BY <1>2, CodecSize DEF Encodes
    <2>2. Decode(codec, data).phase = "rejected"
      BY <1>3, <1>7
    <2>. QED
      BY <1>2, <1>7, <2>1, <2>2
  <1>8. CASE ~(A < codec.size)
    <2>1. Decode(codec, data) = e[N]
      BY <1>3, <1>8
    <2>2. ASSUME e[N].phase = "ok"
          PROVE  \A j \in 1..N : SimplyReturned(fields[j], v[j], e[N].value[j])
      <3>1. \A j \in 1..N : j <= N
        OBVIOUS
      <3>. QED
        BY <1>1, <1>6, <2>2, <3>1 DEF DecodedSoFar
    <2>. QED
      BY <1>1, <1>2, <1>6, <2>1, <2>2 DEF DecodedSoFar
  <1>. QED
    BY <1>7, <1>8

------------------------------------------------------------------------------
(* A value of the struct holds in each field what the field may hold.      *)
LEMMA HeldBy ==
    ASSUME NEW f, FieldOK(f)
    PROVE  SimpleHolds(f) \subseteq Held
  BY HoldsIs DEF Held

LEMMA AppendIs ==
    ASSUME NEW S, NEW v \in Seq(S), NEW x \in S, NEW n \in Nat, Len(v) = n
    PROVE  /\ Append(v, x) \in Seq(S) /\ Len(Append(v, x)) = n + 1
           /\ \A j \in 1..n : Append(v, x)[j] = v[j]
           /\ Append(v, x)[n + 1] = x
  OBVIOUS

Filled(fields, v, n) ==
    v \in Seq(Held) /\ Len(v) = n /\ \A j \in 1..n : v[j] \in SimpleHolds(fields[j])

LEMMA ValuesAre ==
    ASSUME NEW fields, WellTagged(fields), NEW v \in Values(fields)
    PROVE  ValueOf(fields, v)
  <1>1. PICK N \in Nat : N = Len(fields)
    BY TagsAre
  <1> DEFINE S == SUBSET Seq(Held)
             grown(s, i) == {Append(w, x) : w \in s, x \in SimpleHolds(fields[i])}
  <1>2. \A i \in 1..N : SimpleHolds(fields[i]) \subseteq Held
    BY <1>1, TagsAre, HeldBy
  <1>3. \A i \in 1..N : \A s \in S : grown(s, i) \in S
    <2>1. ASSUME NEW i \in 1..N, NEW s \in S, NEW w \in s, NEW x \in SimpleHolds(fields[i])
          PROVE  Append(w, x) \in Seq(Held)
      <3>1. w \in Seq(Held) /\ x \in Held
        BY <1>2
      <3>. QED
        BY <3>1
    <2>. QED
      BY <2>1
  <1>4. PICK a \in S : a = {<<>>}
    <2>1. <<>> \in Seq(Held)
      OBVIOUS
    <2>. QED
      BY <2>1
  <1>5. PICK turn \in [1..N -> [S -> S]] : \A i \in 1..N : \A s \in S : turn[i][s] = grown(s, i)
    <2> DEFINE t == [i \in 1..N |-> [s \in S |-> grown(s, i)]]
    <2>. HIDE DEF S, grown
    <2>1. t \in [1..N -> [S -> S]] /\ \A i \in 1..N : \A s \in S : t[i][s] = grown(s, i)
      BY <1>3
    <2>. HIDE DEF t
    <2>. QED
      BY <2>1
  <1>6. PICK g \in [0..N -> S] : g[0] = a /\ \A i \in 1..N : g[i] = turn[i][g[i - 1]]
    <2>. HIDE DEF S
    <2>1. PICK g \in [0..N -> S] : Runs(g, N, a, turn)
      BY LoopRuns
    <2>. QED
      BY <2>1 DEF Runs
  <1>16. \A i \in 1..N : Holds(fields[i]) = SimpleHolds(fields[i])
    BY <1>1, TagsAre, FlatRoom
  <1> DEFINE more(s, i) == {Append(w, x) : w \in s, x \in Holds(fields[i])}
  <1>17. \A i \in 1..N : \A s : more(s, i) = grown(s, i)
    BY <1>16
  <1> DEFINE Fun(f) == f = [i \in 0..N |-> IF i = 0 THEN {<<>>} ELSE more(f[i - 1], i)]
             r == CHOOSE f : Fun(f)
  <1>7. Fun(g)
    <2>. HIDE DEF S, grown, more
    <2>1. \A i \in 0..N : i = 0 \/ (i \in 1..N /\ i - 1 \in 0..N)
      OBVIOUS
    <2>3. \A i \in 1..N : i - 1 \in 0..N
      OBVIOUS
    <2>2. \A i \in 1..N : g[i] = more(g[i - 1], i)
      BY <1>5, <1>6, <1>17, <2>3
    <2>. QED
      BY <1>4, <1>6, <2>1, <2>2
  <1>8. Fun(r)
    <2>. HIDE DEF Fun
    <2>. QED
      BY <1>7
  <1>9. v \in r[N]
    BY <1>1 DEF Values, ValuesBy
  <1>10. PICK f : Fun(f) /\ v \in f[N]
    <2>. HIDE DEF Fun, r
    <2>. QED
      BY <1>8, <1>9
  <1>. HIDE DEF r
  <1>11. f[0] = {<<>>} /\ \A i \in 1..N : f[i] = grown(f[i - 1], i)
    <2>. HIDE DEF grown, more
    <2>1. \A i \in 0..N : f[i] = IF i = 0 THEN {<<>>} ELSE more(f[i - 1], i)
      BY <1>10
    <2>2. \A i \in 1..N : i \in 0..N /\ i # 0
      OBVIOUS
    <2>. QED
      BY <1>17, <2>1, <2>2
  <1> DEFINE T == {n \in Nat : n <= N => \A w \in f[n] : Filled(fields, w, n)}
  <1>12. 0 \in T
    <2>1. <<>> \in Seq(Held) /\ Len(<<>>) = 0
      OBVIOUS
    <2>2. ASSUME NEW w \in f[0]
          PROVE  Filled(fields, w, 0)
      <3>1. w \in Seq(Held) /\ Len(w) = 0
        BY <1>11, <2>1
      <3>2. \A j \in 1..0 : FALSE
        OBVIOUS
      <3>. QED
        BY <3>1, <3>2 DEF Filled
    <2>. QED
      BY <2>2
  <1>13. ASSUME NEW n \in Nat, n \in T
         PROVE  n + 1 \in T
    <2>1. ASSUME n + 1 <= N, NEW u \in f[n + 1]
          PROVE  Filled(fields, u, n + 1)
      <3>1. PICK i \in 1..N : i = n + 1 /\ i - 1 = n
        <4>1. n + 1 \in 1..N /\ (n + 1) - 1 = n
          BY <2>1
        <4>. QED
          BY <4>1
      <3>2. PICK w \in f[n], x \in SimpleHolds(fields[i]) : u = Append(w, x)
        BY <1>11, <2>1, <3>1
      <3>3. w \in Seq(Held) /\ Len(w) = n /\ \A j \in 1..n : w[j] \in SimpleHolds(fields[j])
        BY <1>13, <2>1 DEF Filled
      <3>4. x \in Held
        BY <1>2
      <3>5. /\ u \in Seq(Held) /\ Len(u) = n + 1
            /\ \A j \in 1..n : u[j] = w[j]
            /\ u[n + 1] = x
        BY <3>2, <3>3, <3>4, AppendIs
      <3>6. \A j \in 1..(n + 1) : j = n + 1 \/ j \in 1..n
        OBVIOUS
      <3>7. \A j \in 1..(n + 1) : u[j] \in SimpleHolds(fields[j])
        BY <3>1, <3>3, <3>5, <3>6
      <3>. QED
        BY <3>5, <3>7 DEF Filled
    <2>2. n + 1 \in Nat
      OBVIOUS
    <2>. QED
      BY <2>1, <2>2
  <1>. HIDE DEF T
  <1>14. Filled(fields, v, N)
    <2>1. N \in T /\ N <= N
      BY <1>12, <1>13, AllNaturals
    <2>. QED
      BY <1>10, <2>1 DEF T
  <1>15. DOMAIN v = 1..N /\ v = [i \in 1..N |-> v[i]]
    <2>1. v \in [1..N -> Held]
      BY <1>14, LenProperties DEF Filled
    <2>. QED
      BY <2>1
  <1>. QED
    BY <1>1, <1>14, <1>15 DEF ValueOf, Filled

------------------------------------------------------------------------------
(* The steps.  Before the tags are checked nothing is known of the value;  *)
(* what was marshalled stands for it from then on.                         *)
Packed ==
    /\ Flat(layout) /\ PackingTypeOK /\ bytes \in Seq(Byte) /\ MarshalFits
    /\ phase = "new" => arrived = 0
    /\ phase \notin {"new", "refused"} => WellTagged(layout) /\ ValueOf(layout, value)
    /\ phase # "crashed"
    /\ phase \in {"marshalled", "unmarshalled", "rejected"} =>
          Encodes(layout, value, bytes, Len(bytes))
    /\ Faithful(layout, value) =>
          /\ phase = "unmarshalled" =>
                \A i \in DOMAIN layout : SimplyReturned(layout[i], value[i], decoded[i])
          /\ phase = "rejected" => arrived < Len(bytes)

LEMMA PackedRight == Packed => RoundTrip
  <1>1. Packed => \A i \in DOMAIN layout : ~Structs(layout[i])
    BY DEF Packed, Flat, ToSet
  <1>. QED
    BY <1>1 DEF Packed, RoundTrip, AllReturned, Returned

LEMMA StructType ==
    ASSUME NEW fields, fields \in Layouts, NEW w \in DecodedStruct(fields)
    PROVE  DOMAIN w = DOMAIN fields /\ \A i \in DOMAIN fields : Numeric(fields[i]) => Len(w[i]) = 1
  <1>1. DOMAIN fields = 1..Len(fields)
    BY PackingAssumption
  <1>2. \A y \in [1..1 -> Nat] : Len(y) = 1
    OBVIOUS
  <1>. QED
    BY <1>1, <1>2 DEF DecodedStruct

LEMMA ZeroOf ==
    ASSUME NEW fields
    PROVE  /\ DOMAIN Zero(fields) = DOMAIN fields
           /\ \A i \in DOMAIN fields : Numeric(fields[i]) => Len(Zero(fields)[i]) = 1
  <1>1. Len(<<0>>) = 1
    OBVIOUS
  <1>. QED
    BY <1>1 DEF Zero

LEMMA PackedStart == PackingInit /\ Flat(layout) => Packed
  <1>. SUFFICES ASSUME PackingInit, Flat(layout)
                PROVE  Packed
    OBVIOUS
  <1>1. /\ layout \in Layouts /\ phase = "new" /\ value = Zero(layout) /\ decoded = Zero(layout)
        /\ bytes = <<>> /\ spare = 0 /\ arrived = 0
    BY DEF PackingInit
  <1>2. bytes \in Seq(Byte) /\ ToSet(bytes) \subseteq Byte /\ arrived \in 0..Len(bytes)
    BY <1>1 DEF ToSet
  <1>3. PackingTypeOK
    BY <1>1, <1>2, ZeroOf DEF PackingTypeOK
  <1>. QED
    BY <1>1, <1>2, <1>3 DEF Packed, MarshalFits

LEMMA ElementsOf ==
    ASSUME NEW n \in Nat, NEW s \in [1..n -> Byte]
    PROVE  Len(s) = n /\ ToSet(s) \subseteq Byte /\ s \in Seq(Byte)
  BY DEF ToSet

LEMMA RefuseStep ==
    ASSUME Packed, Refuse
    PROVE  Packed'
  <1>1. phase' = "refused" /\ phase = "new" /\ UNCHANGED <<layout, value, spare, bytes, arrived, decoded>>
    BY DEF Refuse
  <1>2. PackingTypeOK'
    BY <1>1 DEF Packed, PackingTypeOK
  <1>3. MarshalFits'
    BY <1>1 DEF MarshalFits
  <1>4. bytes' \in Seq(Byte)
    BY <1>1 DEF Packed
  <1>. QED
    BY <1>1, <1>2, <1>3, <1>4 DEF Packed

(* Both ways of encoding end alike.                                        *)
LEMMA EncodedStep ==
    ASSUME Packed, phase = "new", Accepted, NEW v \in Values(layout), NEW L \in Nat,
           NEW buf \in [1..L -> Byte], NEW r, r = encodeToBuffer(CompileCodec(layout), buf, v),
           NEW n, n = r.n \/ n = EncodeSize(CompileCodec(layout), v),
           Encoded(v, r, n), spare' < 0 \/ EncodeSize(CompileCodec(layout), v) <= L
    PROVE  Packed'
  <1>1. WellTagged(layout)
    BY DEF Packed, PackingTypeOK, Accepted, WellTagged
  <1>2. ValueOf(layout, v)
    BY <1>1, ValuesAre
  <1>3. /\ r \in EncodeStates(L)
        /\ (\A i \in 1..Len(layout) : ~Overruns(layout[i], v[i])) /\ EncodeSize(CompileCodec(layout), v) <= L =>
              r.phase = "ok" /\ r.n <= EncodeSize(CompileCodec(layout), v)
        /\ r.phase = "ok" => WrittenSoFar(layout, v, L, r, Len(layout))
    BY <1>1, <1>2, EncodeResult
  <1>4. PICK size \in Nat : size = EncodeSize(CompileCodec(layout), v)
    BY <1>1, <1>2, SizeCounts
  <1>5. r.phase \in {"ok", "failed", "panicked"} /\ r.buf \in [1..L -> Byte] /\ r.n \in Nat
    BY <1>3 DEF EncodeStates
  <1>6. n \in Nat /\ Len(r.buf) = L
    BY <1>4, <1>5
  <1>7. PICK result : result = IF r.phase = "ok" /\ n > L THEN "panicked" ELSE r.phase
    OBVIOUS
  <1>8. /\ value' = v /\ phase' = (IF result = "ok" THEN "marshalled" ELSE result)
        /\ bytes' = (IF result = "ok" THEN SubSeq(r.buf, 1, n) ELSE <<>>)
        /\ UNCHANGED <<layout, arrived, decoded>>
    BY <1>6, <1>7 DEF Encoded
  <1>9. result \in {"ok", "failed", "panicked"}
    BY <1>5, <1>7
  <1>10. phase' \in {"marshalled", "failed", "panicked"} /\ (phase' = "marshalled" <=> result = "ok")
    BY <1>8, <1>9
  <1>11. bytes' \in Seq(Byte) /\ ToSet(bytes') \subseteq Byte /\ 0 \in 0..Len(bytes')
         /\ (result = "ok" => Encodes(layout, v, bytes', Len(bytes')))
    <2>1. CASE result = "ok"
      <3>1. r.phase = "ok" /\ n <= L
        BY <1>6, <1>7, <2>1
      <3>2. Encodes(layout, v, SubSeq(r.buf, 1, n), n) /\ Len(SubSeq(r.buf, 1, n)) = n
        BY <1>1, <1>2, <1>3, <1>4, <1>6, <3>1, EncodesBytes
      <3>3. Encodes(layout, v, bytes', n) /\ Len(bytes') = n
        BY <1>8, <2>1, <3>2
      <3>4. bytes' \in [1..n -> Byte]
        BY <3>3 DEF Encodes
      <3>5. bytes' \in Seq(Byte) /\ ToSet(bytes') \subseteq Byte
        BY <1>6, <3>4, ElementsOf
      <3>6. 0 \in 0..n
        BY <1>6
      <3>. QED
        BY <3>3, <3>5, <3>6
    <2>2. CASE result # "ok"
      <3>1. bytes' = <<>>
        BY <1>8, <2>2
      <3>. QED
        BY <2>2, <3>1 DEF ToSet
    <2>. QED
      BY <2>1, <2>2
  <1>12. arrived' = 0
    BY <1>8 DEF Packed
  <1>13. PackingTypeOK'
    <2>1. DOMAIN layout = 1..Len(layout) /\ DOMAIN v = 1..Len(layout)
      BY <1>1, <1>2, TagsAre DEF ValueOf
    <2>. QED
      BY <1>8, <1>10, <1>11, <1>12, <2>1 DEF Packed, PackingTypeOK
  <1>14. MarshalFits'
    <2>1. SUFFICES ASSUME phase' \in {"failed", "panicked"}, ~(spare' < 0),
                          \A i \in 1..Len(layout) : ~Overruns(layout[i], v[i])
                   PROVE  FALSE
      <3>1. DOMAIN layout = 1..Len(layout)
        BY <1>1, TagsAre
      <3>. QED
        BY <1>8, <3>1 DEF MarshalFits
    <2>2. r.phase = "ok" /\ r.n <= size /\ size <= L
      BY <1>3, <1>4, <2>1
    <2>3. n <= L
      BY <1>4, <1>5, <2>2
    <2>4. result = "ok"
      BY <1>6, <1>7, <2>2, <2>3
    <2>. QED
      BY <1>10, <2>1, <2>4
  <1>15. WellTagged(layout') /\ ValueOf(layout', value')
    BY <1>1, <1>2, <1>8
  <1>16. phase' = "marshalled" => Encodes(layout', value', bytes', Len(bytes'))
    BY <1>8, <1>10, <1>11
  <1>17. Flat(layout') /\ phase' \notin {"new", "refused", "crashed", "unmarshalled", "rejected"}
    BY <1>8, <1>10 DEF Packed
  <1>. QED
    BY <1>10, <1>11, <1>13, <1>14, <1>15, <1>16, <1>17 DEF Packed

LEMMA MarshalStep ==
    ASSUME Packed, Marshal
    PROVE  Packed'
  <1>1. phase = "new" /\ Accepted /\ spare' = spare
    BY DEF Marshal
  <1>2. PICK v \in Values(layout) :
           Encoded(v, encodeToBuffer(CompileCodec(layout),
                        [i \in 1..EncodeSize(CompileCodec(layout), v) |-> {}], v),
                   EncodeSize(CompileCodec(layout), v))
    BY DEF Marshal
  <1>3. WellTagged(layout)
    BY <1>1 DEF Packed, PackingTypeOK, Accepted, WellTagged
  <1>4. PICK size \in Nat : size = EncodeSize(CompileCodec(layout), v)
    BY <1>3, ValuesAre, SizeCounts
  <1>5. PICK buf \in [1..size -> Byte] : buf = [i \in 1..EncodeSize(CompileCodec(layout), v) |-> {}]
    BY <1>4 DEF Byte
  <1>6. PICK r : r = encodeToBuffer(CompileCodec(layout), buf, v)
    OBVIOUS
  <1>7. Encoded(v, r, size)
    BY <1>2, <1>4, <1>5, <1>6
  <1>8. size <= size
    OBVIOUS
  <1>. QED
    BY <1>1, <1>4, <1>6, <1>7, <1>8, EncodedStep

LEMMA MarshalWithPoolStep ==
    ASSUME Packed, MarshalWithPool
    PROVE  Packed'
  <1>1. phase = "new" /\ Accepted /\ spare' \in {-1, 1}
    BY DEF MarshalWithPool
  <1>2. PICK v \in Values(layout) : \E r :
           /\ r = encodeToBuffer(CompileCodec(layout),
                       [i \in 1..(EncodeSize(CompileCodec(layout), v) + spare') |-> Dirt], v)
           /\ Encoded(v, r, r.n)
    BY DEF MarshalWithPool
  <1>7. PICK r :
           /\ r = encodeToBuffer(CompileCodec(layout),
                       [i \in 1..(EncodeSize(CompileCodec(layout), v) + spare') |-> Dirt], v)
           /\ Encoded(v, r, r.n)
    BY <1>2
  <1>3. WellTagged(layout)
    BY <1>1 DEF Packed, PackingTypeOK, Accepted, WellTagged
  <1>4. PICK size \in Nat : size = EncodeSize(CompileCodec(layout), v)
    BY <1>3, ValuesAre, SizeCounts
  <1>5. PICK L \in Nat : 1..L = 1..(size + spare') /\ (spare' < 0 \/ size <= L)
    <2>1. CASE size + spare' \in Nat
      BY <1>1, <1>4, <2>1
    <2>2. CASE size + spare' \notin Nat
      <3>1. size = 0 /\ spare' = -1
        <4>1. PICK d \in {-1, 1} : d = spare'
          BY <1>1
        <4>2. \A k \in Nat : k + 1 \in Nat /\ (k # 0 => k + (-1) \in Nat)
          OBVIOUS
        <4>. QED
          BY <2>2, <4>1, <4>2
      <3>2. 1..0 = {} /\ 1..(size + spare') = {}
        BY <3>1
      <3>. QED
        BY <3>1, <3>2
    <2>. QED
      BY <2>1, <2>2
  <1>6. PICK buf \in [1..L -> Byte] : buf = [i \in 1..(EncodeSize(CompileCodec(layout), v) + spare') |-> Dirt]
    BY <1>4, <1>5, PackingAssumption
  <1>. QED
    BY <1>1, <1>4, <1>5, <1>6, <1>7, EncodedStep

LEMMA UnmarshalStep ==
    ASSUME Packed, Unmarshal
    PROVE  Packed'
  <1>1. /\ phase = "marshalled" /\ arrived' \in 0..Len(bytes)
        /\ decoded' = Decode(CompileCodec(layout), SubSeq(bytes, 1, arrived')).value
        /\ phase' = IF Decode(CompileCodec(layout), SubSeq(bytes, 1, arrived')).phase = "ok"
                    THEN "unmarshalled"
                    ELSE Decode(CompileCodec(layout), SubSeq(bytes, 1, arrived')).phase
        /\ UNCHANGED <<layout, value, spare, bytes>>
    BY DEF Unmarshal
  <1>2. PICK M \in Nat : M = Len(bytes) /\ bytes \in [1..M -> Byte]
    BY LenProperties DEF Packed
  <1>3. /\ WellTagged(layout) /\ ValueOf(layout, value) /\ Encodes(layout, value, bytes, M)
    BY <1>1, <1>2 DEF Packed
  <1>4. PICK A \in Nat : A = arrived' /\ A <= M
    BY <1>1, <1>2
  <1>5. PICK data \in [1..A -> Byte] : data = SubSeq(bytes, 1, A) /\ \A i \in 1..A : data[i] = bytes[i]
    <2>1. PICK a \in Nat : a = 0 /\ a + 1 = 1 /\ a + A = A
      OBVIOUS
    <2>2. CutFrom(Slice(bytes, a, A), bytes, a, A)
      BY <1>2, <1>4, <2>1, SliceIs
    <2>3. Slice(bytes, a, A) = SubSeq(bytes, 1, A)
      BY <2>1 DEF Slice
    <2>4. \A i \in 1..A : a + i = i
      BY <2>1
    <2>. QED
      BY <2>2, <2>3, <2>4 DEF CutFrom
  <1>6. PICK p, w : p = Decode(CompileCodec(layout), data).phase /\ w = Decode(CompileCodec(layout), data).value
    OBVIOUS
  <1>7. p \in {"ok", "rejected"} /\ w \in DecodedStruct(layout)
    BY <1>3, <1>6, DecodeType
  <1>8. ASSUME Faithful(layout, value)
        PROVE  /\ p = "ok" => \A j \in 1..Len(layout) : SimplyReturned(layout[j], value[j], w[j])
               /\ p # "ok" => A < M
    <2>1. /\ Decode(CompileCodec(layout), data).phase = "ok" =>
                \A j \in 1..Len(layout) :
                   SimplyReturned(layout[j], value[j], Decode(CompileCodec(layout), data).value[j])
          /\ Decode(CompileCodec(layout), data).phase # "ok" => A < M
      <3>1. PICK fields, v, s : fields = layout /\ v = value /\ s = bytes
        OBVIOUS
      <3>2. /\ WellTagged(fields) /\ ValueOf(fields, v) /\ Encodes(fields, v, s, M)
            /\ Faithful(fields, v)
        BY <1>3, <1>8, <3>1
      <3>3. \A i \in 1..A : data[i] = s[i]
        BY <1>5, <3>1
      <3>4. /\ Decode(CompileCodec(fields), data).phase = "ok" =>
                  \A j \in 1..Len(fields) :
                     SimplyReturned(fields[j], v[j], Decode(CompileCodec(fields), data).value[j])
            /\ Decode(CompileCodec(fields), data).phase # "ok" => A < M
        BY <1>4, <3>2, <3>3, DecodeResult
      <3>. QED
        BY <3>1, <3>4
    <2>. QED
      BY <1>6, <2>1
  <1>9. decoded' = w /\ phase' = (IF p = "ok" THEN "unmarshalled" ELSE p)
    BY <1>1, <1>4, <1>5, <1>6
  <1>10. phase' \in {"unmarshalled", "rejected"} /\ (phase' = "unmarshalled" <=> p = "ok")
    BY <1>7, <1>9
  <1>11. PackingTypeOK'
    <2>1. layout \in Layouts
      BY DEF Packed, PackingTypeOK
    <2>2. DOMAIN w = DOMAIN layout /\ \A i \in DOMAIN layout : Numeric(layout[i]) => Len(w[i]) = 1
      BY <1>7, <2>1, StructType
    <2>. QED
      BY <1>1, <1>9, <1>10, <2>2 DEF Packed, PackingTypeOK
  <1>12. MarshalFits'
    BY <1>10 DEF MarshalFits
  <1>13. /\ bytes' \in Seq(Byte) /\ WellTagged(layout') /\ ValueOf(layout', value')
         /\ Encodes(layout', value', bytes', Len(bytes'))
    BY <1>1, <1>2, <1>3 DEF Packed
  <1>14. Faithful(layout', value') =>
            /\ phase' = "unmarshalled" =>
                  \A j \in DOMAIN layout' : SimplyReturned(layout'[j], value'[j], decoded'[j])
            /\ phase' # "unmarshalled" => arrived' < Len(bytes')
    <2>1. DOMAIN layout = 1..Len(layout)
      BY <1>3, TagsAre
    <2>2. layout' = layout /\ value' = value /\ decoded' = w
      BY <1>1, <1>9
    <2>3. Faithful(layout', value') => Faithful(layout, value)
      BY <2>2
    <2>. QED
      BY <1>1, <1>2, <1>4, <1>8, <1>9, <1>10, <2>1, <2>2, <2>3
  <1>15. Flat(layout') /\ phase' \notin {"new", "crashed"}
    BY <1>1, <1>10 DEF Packed
  <1>. QED
    BY <1>10, <1>11, <1>12, <1>13, <1>14, <1>15 DEF Packed

LEMMA PackedStep == Packed /\ [PackingNext]_bpVars => Packed'
  <1>. SUFFICES ASSUME Packed, [PackingNext]_bpVars
                PROVE  Packed'
    OBVIOUS
  <1>1. CASE Refuse
    BY <1>1, RefuseStep
  <1>2. CASE Marshal
    BY <1>2, MarshalStep
  <1>3. CASE MarshalWithPool
    BY <1>3, MarshalWithPoolStep
  <1>4. CASE Unmarshal
    BY <1>4, UnmarshalStep
  <1>5. CASE UNCHANGED bpVars
    <2>1. UNCHANGED <<layout, value, spare, bytes, arrived, decoded, phase>>
      BY <1>5 DEF bpVars
    <2>2. PackingTypeOK' /\ MarshalFits'
      BY <2>1 DEF Packed, PackingTypeOK, MarshalFits
    <2>. QED
      BY <2>1, <2>2 DEF Packed
  <1>. QED
    BY <1>1, <1>2, <1>3, <1>4, <1>5 DEF PackingNext

(* Unmarshal(Marshal(v)) is v for every faithful value of every struct     *)
(* without slices of structs whose tags are accepted, in a buffer of any   *)
(* content: a string in a field of fixed size comes back with that size,   *)
(* all else is the same.  Data that were cut off give v or an error, and   *)
(* never a panic; and what Encode counts is what writing takes             *)
(* (reflect_codec.go:124-394, validate.go:33-191).                         *)
THEOREM PackingRoundTrip == PackingSpec /\ Flat(layout) => []RoundTrip
  <1>1. PackingInit /\ Flat(layout) => Packed
    BY PackedStart
  <1>2. Packed /\ [PackingNext]_bpVars => Packed'
    BY PackedStep
  <1>3. Packed => RoundTrip
    BY PackedRight
  <1>. QED
    BY <1>1, <1>2, <1>3, PTL DEF PackingSpec
=============================================================================
