---------------------------- MODULE LifecycleProofs ----------------------------
(* What Lifecycle promises of the registries, of the workers' names and of *)
(* the shutdown hooks, for every set of names, every number of goroutines  *)
(* and callers of Shutdown, with the proofs.                               *)
EXTENDS Lifecycle, TLAPS, SequenceTheorems

Places == {"idle", "startup", "hooks", "start", "select", "cancel", "stop", "wait", "waited"} \cup Ends
Worker == [name : Names, root : BOOLEAN, at : {"run", "exited", "cleanup", "gone"},
           told : SUBSET {"ctx", "stop"}]
Elems(s) == {s[i] : i \in DOMAIN s}

(* What the fields hold. A goroutine that is remembered has been started. *)
RegistryShape ==
    /\ registered \subseteq Names /\ order \in Seq(Names)
    /\ ctxOf \in [Names -> 0..Len(gs)]
GoroutineShape == gs \in Seq(Worker) /\ Len(gs) <= MaxGoroutines
CallShape ==
    /\ running \in BOOLEAN /\ cancelSet \in BOOLEAN /\ ctxDone \in BOOLEAN /\ errChan \in 0..1
    /\ pc \in [Callers -> Places] /\ mark \in [Callers -> 0..Len(gs)]
Shape == RegistryShape /\ GoroutineShape /\ CallShape

(* The three registries are about the same workers. *)
Registry ==
    /\ IsInjective(order) /\ registered = Elems(order)
    /\ \A n \in Names : ctxOf[n] # 0 => n \in registered /\ gs[ctxOf[n]].name = n

(* Until its cleanup has taken it out, each goroutine is registered under  *)
(* its name, and nobody is there before startWorkers: unless a worker was  *)
(* added while Run started up.                                             *)
Reached ==
    "startup" \notin AddPhases =>
        /\ \A g \in 1..Len(gs) :
              gs[g].at # "gone" => gs[g].name \in registered /\ ctxOf[gs[g].name] = g
        /\ pc[Runner] \in {"idle", "startup", "hooks", "start"} => gs = <<>>
        /\ pc[Runner] = "idle" <=> ~running

(* The goroutines are those there were, each where it was or further on,   *)
(* the run function behind it and then the cleanup.                        *)
Stays ==
    /\ gs' \in Seq(Worker) /\ Len(gs') = Len(gs)
    /\ \A g \in 1..Len(gs) :
          /\ gs'[g].name = gs[g].name
          /\ gs[g].at \in {"cleanup", "gone"} => gs'[g].at \in {"cleanup", "gone"}
          /\ gs[g].at = "gone" => gs'[g].at = "gone"

IInv == Shape /\ Registry /\ Reached /\ HooksAfterWorkers

------------------------------------------------------------------------------
(* What Append and RemoveFirst do to a list without repetition. *)
LEMMA AppendNew ==
  ASSUME NEW S, NEW s \in Seq(S), NEW e \in S, IsInjective(s), e \notin Elems(s)
  PROVE  /\ Append(s, e) \in Seq(S) /\ IsInjective(Append(s, e))
         /\ Elems(Append(s, e)) = Elems(s) \cup {e}
  <1>1. /\ Append(s, e) \in Seq(S) /\ Len(s) \in Nat
        /\ DOMAIN s = 1..Len(s) /\ DOMAIN Append(s, e) = 1..(Len(s) + 1)
        /\ \A i \in 1..Len(s) : Append(s, e)[i] = s[i]
        /\ Append(s, e)[Len(s) + 1] = e
    BY AppendProperties, LenProperties
  <1>2. \A i \in 1..(Len(s) + 1) : i \in 1..Len(s) \/ i = Len(s) + 1
    BY <1>1
  <1>3. IsInjective(Append(s, e))
    BY DEF IsInjective, Elems
  <1>4. Elems(Append(s, e)) = Elems(s) \cup {e}
    BY <1>1 DEF Elems
  <1>. QED
    BY <1>1, <1>3, <1>4

LEMMA RemoveFirstRemoves ==
  ASSUME NEW S, NEW s \in Seq(S), NEW e, IsInjective(s)
  PROVE  /\ RemoveFirst(s, e) \in Seq(S) /\ IsInjective(RemoveFirst(s, e))
         /\ Elems(RemoveFirst(s, e)) = Elems(s) \ {e}
  <1>1. Len(s) \in Nat /\ DOMAIN s = 1..Len(s) /\ \A i \in 1..Len(s) : s[i] \in S
    BY LenProperties, ElementOfSeq
  <1>2. CASE ~\E i \in 1..Len(s) : s[i] = e
    BY <1>2 DEF RemoveFirst, Elems
  <1>3. ASSUME NEW k \in 1..Len(s), s[k] = e
        PROVE  /\ RemoveFirst(s, e) \in Seq(S) /\ IsInjective(RemoveFirst(s, e))
               /\ Elems(RemoveFirst(s, e)) = Elems(s) \ {e}
    <2>1. {i \in 1..Len(s) : s[i] = e} = {k}
      BY <1>3 DEF IsInjective
    <2>2. Min({k}) = k
      BY DEF Min
    <2>3. RemoveFirst(s, e) = RemoveAt(s, k)
      BY <2>1, <2>2 DEF RemoveFirst, SelectInSeq
    <2>4. /\ SubSeq(s, 1, k - 1) \in Seq(S) /\ Len(SubSeq(s, 1, k - 1)) = k - 1
          /\ \A i \in 1..(k - 1) : SubSeq(s, 1, k - 1)[i] = s[i]
      BY <1>1, <1>3, SubSeqProperties
    <2>5. /\ SubSeq(s, k + 1, Len(s)) \in Seq(S)
          /\ Len(SubSeq(s, k + 1, Len(s))) = Len(s) - k
          /\ \A i \in 1..(Len(s) - k) : SubSeq(s, k + 1, Len(s))[i] = s[k + i]
      <3>1. k + 1 \in Int /\ Len(s) \in Int /\ \A i \in (k + 1)..Len(s) : s[i] \in S
        BY <1>1
      <3>2. /\ SubSeq(s, k + 1, Len(s)) \in Seq(S)
            /\ Len(SubSeq(s, k + 1, Len(s))) = IF k + 1 <= Len(s) THEN Len(s) - (k + 1) + 1 ELSE 0
            /\ \A i \in 1..(Len(s) - (k + 1) + 1) :
                  SubSeq(s, k + 1, Len(s))[i] = s[k + 1 + i - 1]
        BY <3>1, SubSeqProperties
      <3>3. /\ Len(s) - (k + 1) + 1 = Len(s) - k
            /\ \A i \in 1..(Len(s) - k) : k + 1 + i - 1 = k + i
        BY <1>1
      <3>4. Len(SubSeq(s, k + 1, Len(s))) = Len(s) - k
        <4>1. \A m \in Nat : \A j \in 1..m :
                 (IF j + 1 <= m THEN m - (j + 1) + 1 ELSE 0) = m - j
          OBVIOUS
        <4>2. Len(s) \in Nat
          BY <1>1
        <4>. QED
          BY <3>2, <4>1, <4>2
      <3>5. \A i \in 1..(Len(s) - k) : SubSeq(s, k + 1, Len(s))[i] = s[k + i]
        BY <3>2, <3>3
      <3>. QED
        BY <3>2, <3>4, <3>5
    <2>. DEFINE t == RemoveAt(s, k)
    <2>6. /\ t \in Seq(S) /\ DOMAIN t = 1..(Len(s) - 1)
          /\ \A i \in 1..(Len(s) - 1) : t[i] = IF i < k THEN s[i] ELSE s[i + 1]
      <3>1. /\ t \in Seq(S) /\ Len(t) = (k - 1) + (Len(s) - k)
            /\ \A i \in 1..((k - 1) + (Len(s) - k)) :
                  t[i] = IF i <= k - 1 THEN SubSeq(s, 1, k - 1)[i]
                         ELSE SubSeq(s, k + 1, Len(s))[i - (k - 1)]
        <4>. DEFINE p == SubSeq(s, 1, k - 1)
                    q == SubSeq(s, k + 1, Len(s))
        <4>1. p \in Seq(S) /\ q \in Seq(S) /\ Len(p) = k - 1 /\ Len(q) = Len(s) - k /\ t = p \o q
          BY <2>4, <2>5 DEF RemoveAt
        <4>. HIDE DEF p, q, t
        <4>2. /\ p \o q \in Seq(S) /\ Len(p \o q) = Len(p) + Len(q)
              /\ \A i \in 1..(Len(p) + Len(q)) :
                    (p \o q)[i] = IF i <= Len(p) THEN p[i] ELSE q[i - Len(p)]
          BY <4>1, ConcatProperties
        <4>3. /\ t \in Seq(S) /\ Len(t) = (k - 1) + (Len(s) - k)
              /\ \A i \in 1..((k - 1) + (Len(s) - k)) :
                    t[i] = IF i <= k - 1 THEN p[i] ELSE q[i - (k - 1)]
          BY <4>1, <4>2
        <4>. QED
          BY <4>3 DEF p, q
      <3>2. (k - 1) + (Len(s) - k) = Len(s) - 1
        BY <1>1
      <3>3. DOMAIN t = 1..(Len(s) - 1)
        BY <3>1, <3>2, LenProperties
      <3>4. ASSUME NEW i \in 1..(Len(s) - 1)
            PROVE  t[i] = IF i < k THEN s[i] ELSE s[i + 1]
        <4>1. CASE i < k
          <5>1. i \in 1..(k - 1) /\ i <= k - 1
            BY <1>1, <4>1
          <5>2. t[i] = SubSeq(s, 1, k - 1)[i]
            BY <3>1, <3>2, <5>1
          <5>. QED
            BY <2>4, <4>1, <5>1, <5>2
        <4>2. CASE ~(i < k)
          <5>1. i - (k - 1) \in 1..(Len(s) - k) /\ k + (i - (k - 1)) = i + 1
            BY <1>1, <4>2
          <5>2. t[i] = SubSeq(s, k + 1, Len(s))[i - (k - 1)]
            BY <1>1, <3>1, <3>2, <4>2
          <5>. QED
            BY <2>5, <4>2, <5>1, <5>2
        <4>. QED
          BY <4>1, <4>2
      <3>. QED
        BY <3>1, <3>3, <3>4
    <2>. HIDE DEF t
    <2>7. IsInjective(t)
      <3>. DEFINE from(i) == IF i < k THEN i ELSE i + 1
      <3>1. \A i \in 1..(Len(s) - 1) : from(i) \in 1..Len(s) /\ t[i] = s[from(i)]
        BY <1>1, <2>6
      <3>2. \A i, j \in 1..(Len(s) - 1) : from(i) = from(j) => i = j
        BY <1>1
      <3>. HIDE DEF from
      <3>. QED
        BY <1>1, <2>6, <3>1, <3>2 DEF IsInjective
    <2>8. Elems(t) = Elems(s) \ {e}
      <3>1. ASSUME NEW i \in 1..Len(s), s[i] # e PROVE s[i] \in Elems(t)
        <4>1. CASE i < k
          BY <1>1, <2>6, <4>1 DEF Elems
        <4>2. CASE i > k
          <5>1. i - 1 \in 1..(Len(s) - 1) /\ t[i - 1] = s[i]
            BY <1>1, <1>3, <2>6, <4>2
          <5>. QED
            BY <2>6, <5>1 DEF Elems
        <4>. QED
          BY <1>3, <3>1, <4>1, <4>2
      <3>2. ASSUME NEW i \in 1..(Len(s) - 1) PROVE t[i] \in Elems(s) /\ t[i] # e
        BY <1>3, <2>6 DEF Elems, IsInjective
      <3>. QED
        BY <2>6, <3>1, <3>2 DEF Elems
    <2>. QED
      BY <2>3, <2>6, <2>7, <2>8 DEF t
  <1>. QED
    BY <1>2, <1>3

------------------------------------------------------------------------------
(* The invariant holds at the start. *)
LEMMA InitIInv == Init => IInv
  <1>. SUFFICES ASSUME Init PROVE IInv
    OBVIOUS
  <1>1. RegistryShape /\ GoroutineShape
    BY BoundAssumption DEF Init, RegistryShape, GoroutineShape
  <1>2. CallShape
    <2>1. Len(gs) = 0
      BY DEF Init
    <2>2. pc \in [Callers -> Places] /\ mark \in [Callers -> 0..Len(gs)]
      BY DEF Init, Places
    <2>3. running = FALSE /\ cancelSet = FALSE /\ ctxDone = FALSE /\ errChan \in 0..1
      BY DEF Init
    <2>. QED
      BY <2>2, <2>3 DEF CallShape
  <1>3. Registry /\ Reached /\ HooksAfterWorkers
    BY DEF Init, Registry, Reached, HooksAfterWorkers, IsInjective, Elems, Callers
  <1>. QED
    BY <1>1, <1>2, <1>3 DEF IInv, Shape

(* Goroutines are numbered from 1, and each has the fields of a worker. *)
LEMMA Numbers ==
  ASSUME GoroutineShape
  PROVE  /\ Len(gs) \in Nat /\ Goroutines = 1..Len(gs)
         /\ \A g \in 1..Len(gs) : gs[g] \in Worker
  BY DEF GoroutineShape, Goroutines

(* A list of workers that differ in what they were told or in where they   *)
(* are.                                                                    *)
LEMMA MappedStays ==
  ASSUME GoroutineShape, NEW f, f \in [1..Len(gs) -> Worker], gs' = f,
         \A g \in 1..Len(gs) :
            /\ f[g].name = gs[g].name
            /\ gs[g].at \in {"cleanup", "gone"} => f[g].at \in {"cleanup", "gone"}
            /\ gs[g].at = "gone" => f[g].at = "gone"
  PROVE  Stays
  <1>1. f \in Seq(Worker) /\ Len(f) = Len(gs)
    BY Numbers
  <1>. QED
    BY DEF Stays

(* What a step keeps that changes no registry and starts nobody. *)
LEMMA StaysKeeps ==
  ASSUME IInv, Stays, UNCHANGED registry, CallShape',
         pc'[Runner] \in {"idle", "startup", "hooks", "start"} =>
            pc[Runner] \in {"idle", "startup", "hooks", "start"},
         (pc'[Runner] = "idle") = (pc[Runner] = "idle"), running' = running,
         \A k \in Callers : pc'[k] \in {"waited", "nil"} =>
            pc[k] \in {"waited", "nil"} /\ mark'[k] = mark[k]
  PROVE  IInv'
  <1>. USE DEF IInv, Shape
  <1>1. RegistryShape' /\ GoroutineShape'
    BY DEF Stays, registry, RegistryShape, GoroutineShape
  <1>2. Registry'
    BY DEF Stays, registry, RegistryShape, Registry
  <1>3. Reached'
    <2>1. gs = <<>> => gs' = <<>>
      BY DEF Stays
    <2>. QED
      BY DEF Stays, registry, Reached
  <1>4. HooksAfterWorkers'
    BY DEF Stays, CallShape, HooksAfterWorkers
  <1>. QED
    BY <1>1, <1>2, <1>3, <1>4

(* Each action keeps the invariant. *)
LEMMA StopWorkerKeeps ==
  ASSUME IInv, NEW n \in Names, StopWorker(n)
  PROVE  IInv'
  <1>. USE DEF IInv, Shape
  <1>1. gs' \in [1..Len(gs) -> Worker]
    BY Numbers DEF StopWorker, Worker
  <1>2. \A g \in 1..Len(gs) : gs'[g].name = gs[g].name /\ gs'[g].at = gs[g].at
    BY Numbers DEF StopWorker
  <1>3. Stays
    BY <1>1, <1>2, MappedStays
  <1>4. CallShape'
    BY <1>3, Zenon DEF StopWorker, Stays, CallShape
  <1>. QED
    BY <1>3, <1>4, StaysKeeps DEF StopWorker

LEMMA WorkerReturnsKeeps ==
  ASSUME IInv, NEW g \in Goroutines, NEW err \in BOOLEAN, WorkerReturns(g, err)
  PROVE  IInv'
  <1>. USE DEF IInv, Shape
  <1>1. Stays
    <2>. gs' = [gs EXCEPT ![g].at = "exited"]
      BY DEF WorkerReturns
    <2>1. gs' \in [1..Len(gs) -> Worker]
      <3>1. [gs[g] EXCEPT !.at = "exited"] \in Worker
        BY Numbers DEF Worker
      <3>. QED
        BY <3>1, LenProperties DEF GoroutineShape
    <2>2. \A h \in 1..Len(gs) :
             gs'[h].name = gs[h].name /\ gs'[h].at = IF h = g THEN "exited" ELSE gs[h].at
      OBVIOUS
    <2>3. gs[g].at = "run"
      BY DEF WorkerReturns
    <2>. QED
      BY <2>1, <2>2, <2>3, MappedStays
  <1>2. CallShape'
    BY DEF WorkerReturns, CallShape
  <1>. QED
    BY <1>1, <1>2, StaysKeeps DEF WorkerReturns

LEMMA WorkerDoneKeeps ==
  ASSUME IInv, NEW g \in Goroutines, WorkerDone(g)
  PROVE  IInv'
  <1>. USE DEF IInv, Shape
  <1>1. Stays
    <2>. gs' = [gs EXCEPT ![g].at = "cleanup"]
      BY DEF WorkerDone
    <2>1. gs' \in [1..Len(gs) -> Worker]
      <3>1. [gs[g] EXCEPT !.at = "cleanup"] \in Worker
        BY Numbers DEF Worker
      <3>. QED
        BY <3>1, LenProperties DEF GoroutineShape
    <2>2. \A h \in 1..Len(gs) :
             gs'[h].name = gs[h].name /\ gs'[h].at = IF h = g THEN "cleanup" ELSE gs[h].at
      OBVIOUS
    <2>3. gs[g].at = "exited"
      BY DEF WorkerDone
    <2>. QED
      BY <2>1, <2>2, <2>3, MappedStays
  <1>2. CallShape'
    BY DEF WorkerDone, CallShape
  <1>. QED
    BY <1>1, <1>2, StaysKeeps DEF WorkerDone

LEMMA RunMakesContextKeeps ==
  ASSUME IInv, RunMakesContext
  PROVE  IInv'
  <1>. USE DEF IInv, Shape
  <1>1. Stays
    BY DEF RunMakesContext, Stays, GoroutineShape
  <1>2. CallShape'
    BY DEF RunMakesContext, At, Places, CallShape
  <1>. QED
    BY <1>1, <1>2, StaysKeeps DEF RunMakesContext, At

LEMMA StartupHooksKeeps ==
  ASSUME IInv, StartupHooks
  PROVE  IInv'
  <1>. USE DEF IInv, Shape
  <1>1. Stays
    BY DEF StartupHooks, Stays, GoroutineShape
  <1>2. CallShape'
    BY DEF StartupHooks, At, Places, Ends, CallShape
  <1>. QED
    BY <1>1, <1>2, StaysKeeps DEF StartupHooks, At, CallShape

LEMMA SignalArrivesKeeps ==
  ASSUME IInv, SignalArrives
  PROVE  IInv'
  <1>. USE DEF IInv, Shape
  <1>1. Stays
    BY DEF SignalArrives, Stays, GoroutineShape
  <1>2. CallShape'
    BY DEF SignalArrives, At, Places, CallShape
  <1>. QED
    BY <1>1, <1>2, StaysKeeps DEF SignalArrives, At

LEMMA ShutdownKeeps ==
  ASSUME IInv, NEW k \in Closers, Shutdown(k)
  PROVE  IInv'
  <1>. USE DEF IInv, Shape
  <1>1. Stays
    BY DEF Shutdown, Stays, GoroutineShape
  <1>2. CallShape'
    BY DEF Shutdown, At, Places, CallShape
  <1>. QED
    BY <1>1, <1>2, CallersAssumption, StaysKeeps DEF Shutdown, At

LEMMA ShutdownHooksKeeps ==
  ASSUME IInv, NEW k \in Callers, ShutdownHooks(k)
  PROVE  IInv'
  <1>. USE DEF IInv, Shape
  <1>1. Stays
    BY DEF ShutdownHooks, Stays, GoroutineShape
  <1>2. CallShape'
    BY DEF ShutdownHooks, At, Places, Ends, CallShape
  <1>. QED
    BY <1>1, <1>2, StaysKeeps DEF ShutdownHooks, At

LEMMA ShutdownTimesOutKeeps ==
  ASSUME IInv, NEW k \in Callers, ShutdownTimesOut(k)
  PROVE  IInv'
  <1>. USE DEF IInv, Shape
  <1>1. Stays
    BY DEF ShutdownTimesOut, Stays, GoroutineShape
  <1>2. CallShape'
    BY DEF ShutdownTimesOut, At, Places, Ends, CallShape
  <1>. QED
    BY <1>1, <1>2, StaysKeeps DEF ShutdownTimesOut, At

LEMMA CancelWorkersKeeps ==
  ASSUME IInv, NEW k \in Callers, CancelWorkers(k)
  PROVE  IInv'
  <1>. USE DEF IInv, Shape
  <1>1. gs' \in [1..Len(gs) -> Worker]
    BY Numbers DEF CancelWorkers, Tell, Worker
  <1>2. \A g \in 1..Len(gs) : gs'[g].name = gs[g].name /\ gs'[g].at = gs[g].at
    BY Numbers DEF CancelWorkers, Tell
  <1>3. Stays
    BY <1>1, <1>2, MappedStays
  <1>4. CallShape'
    BY <1>3 DEF CancelWorkers, At, Stays, Places, CallShape
  <1>. QED
    BY <1>3, <1>4, StaysKeeps DEF CancelWorkers, At

LEMMA CallStopFuncsKeeps ==
  ASSUME IInv, NEW k \in Callers, CallStopFuncs(k)
  PROVE  IInv'
  <1>. USE DEF IInv, Shape
  <1>1. gs' \in [1..Len(gs) -> Worker]
    BY Numbers DEF CallStopFuncs, Tell, Worker
  <1>2. \A g \in 1..Len(gs) : gs'[g].name = gs[g].name /\ gs'[g].at = gs[g].at
    BY Numbers DEF CallStopFuncs, Tell
  <1>3. Stays
    BY <1>1, <1>2, MappedStays
  <1>4. CallShape'
    BY <1>3 DEF CallStopFuncs, At, Stays, Places, CallShape
  <1>. QED
    BY <1>3, <1>4, StaysKeeps DEF CallStopFuncs, At

LEMMA RunSelectsKeeps ==
  ASSUME IInv, RunSelects
  PROVE  IInv'
  <1>. USE DEF IInv, Shape
  <1>1. Stays
    BY DEF RunSelects, Stays, GoroutineShape
  <1>2. CallShape'
    <2>1. pc' \in [Callers -> Places] /\ (\E where \in {"cancel", "err"} : At(Runner, where))
      BY DEF RunSelects, At, Places, Ends, CallShape
    <2>2. ctxDone' \in BOOLEAN
      BY DEF RunSelects
    <2>3. errChan' \in 0..1
      BY DEF RunSelects, CallShape
    <2>. QED
      BY <2>1, <2>3 DEF RunSelects, CallShape
  <1>. QED
    BY <1>1, <1>2, StaysKeeps DEF RunSelects, At, CallShape

LEMMA WaitForWorkersKeeps ==
  ASSUME IInv, NEW k \in Callers, WaitForWorkers(k)
  PROVE  IInv'
  <1>. USE DEF IInv, Shape
  <1>1. RegistryShape' /\ GoroutineShape' /\ CallShape' /\ Registry'
    BY DEF WaitForWorkers, registry, At, Places, RegistryShape, GoroutineShape, CallShape,
       Registry
  <1>2. Reached'
    BY DEF WaitForWorkers, registry, At, Reached
  <1>3. HooksAfterWorkers'
    <2>1. \A g \in 1..Len(gs) : gs[g].at \in {"cleanup", "gone"}
      BY Numbers DEF WaitForWorkers, Active, Worker
    <2>2. \A j \in Callers : mark[j] \in 0..Len(gs) /\ Len(gs) \in Nat
      BY DEF CallShape
    <2>3. \A j \in Callers : \A g \in 1..mark[j] : g \in 1..Len(gs)
      BY <2>2
    <2>. QED
      BY <2>1, <2>3 DEF WaitForWorkers, HooksAfterWorkers
  <1>. QED
    BY <1>1, <1>2, <1>3

LEMMA RunBeginsKeeps ==
  ASSUME IInv, RunBegins
  PROVE  IInv'
  <1>. USE DEF IInv, Shape
  <1>1. RegistryShape' /\ GoroutineShape' /\ CallShape' /\ Registry'
    BY DEF RunBegins, registry, At, Places, RegistryShape, GoroutineShape, CallShape,
       Registry
  <1>2. Reached' /\ HooksAfterWorkers'
    BY DEF RunBegins, At, Callers, CallShape, Reached, HooksAfterWorkers
  <1>. QED
    BY <1>1, <1>2

LEMMA CleanupKeeps ==
  ASSUME IInv, NEW g \in Goroutines, Cleanup(g)
  PROVE  IInv'
  <1>. USE DEF IInv, Shape
  <1>1. Stays
    <2>1. gs' \in [1..Len(gs) -> Worker]
      BY Numbers DEF Cleanup, Worker
    <2>2. \A h \in 1..Len(gs) :
             gs'[h].name = gs[h].name /\ gs'[h].at = IF h = g THEN "gone" ELSE gs[h].at
      BY DEF Cleanup
    <2>3. gs[g].at = "cleanup"
      BY DEF Cleanup
    <2>. QED
      BY <2>1, <2>2, <2>3, MappedStays
  <1>2. gs[g].name \in Names /\ gs'[g].at = "gone" /\ g \in 1..Len(gs)
    BY Numbers DEF Cleanup, Worker
  <1>3. order' \in Seq(Names) /\ IsInjective(order') /\ Elems(order') = Elems(order) \ {gs[g].name}
    BY RemoveFirstRemoves DEF Cleanup, RegistryShape, Registry
  <1>4. RegistryShape' /\ GoroutineShape' /\ CallShape'
    <2>1. GoroutineShape' /\ CallShape'
      BY <1>1 DEF Cleanup, Stays, GoroutineShape, CallShape
    <2>2. ctxOf' \in [Names -> 0..Len(gs)]
      <3>1. 0 \in 0..Len(gs)
        BY Numbers
      <3>. QED
        BY <3>1 DEF Cleanup, RegistryShape
    <2>3. RegistryShape'
      BY <1>3, <2>2 DEF Cleanup, RegistryShape
    <2>. QED
      BY <2>1, <2>3
  <1>5. Registry'
    <2>1. registered' = Elems(order')
      BY <1>3 DEF Cleanup, Registry
    <2>2. ASSUME NEW n \in Names, ctxOf'[n] # 0
          PROVE  n \in registered' /\ gs'[ctxOf'[n]].name = n
      BY <2>2 DEF Cleanup, RegistryShape, Registry
    <2>. QED
      BY <1>3, <2>1, <2>2 DEF Registry
  <1>6. Reached'
    <2>. SUFFICES ASSUME "startup" \notin AddPhases
                  PROVE  /\ \A h \in 1..Len(gs') : gs'[h].at # "gone" =>
                               gs'[h].name \in registered' /\ ctxOf'[gs'[h].name] = h
                         /\ pc'[Runner] \in {"idle", "startup", "hooks", "start"} => gs' = <<>>
                         /\ pc'[Runner] = "idle" <=> ~running'
      BY DEF Reached
    <2>1. ASSUME NEW h \in 1..Len(gs), gs'[h].at # "gone"
          PROVE  gs'[h].name \in registered' /\ ctxOf'[gs'[h].name] = h
      <3>1. gs'[h].name = gs[h].name /\ gs[h].at # "gone" /\ h # g
        BY <1>1, <1>2, <2>1 DEF Stays
      <3>2. gs[h].name \in registered /\ ctxOf[gs[h].name] = h /\ ctxOf[gs[g].name] = g
        BY <1>2, <3>1 DEF Reached, Cleanup
      <3>. QED
        BY <3>1, <3>2 DEF Cleanup
    <2>2. gs # <<>>
      BY <1>2
    <2>. QED
      BY <2>1 DEF Cleanup, Reached
  <1>7. HooksAfterWorkers'
    BY DEF Cleanup, CallShape, HooksAfterWorkers
  <1>. QED
    BY <1>4, <1>5, <1>6, <1>7

LEMMA AddWorkerKeeps ==
  ASSUME IInv, NEW n \in Names, AddWorker(n)
  PROVE  IInv'
  <1>. USE DEF IInv, Shape
  <1>1. /\ order' \in Seq(Names) /\ IsInjective(order') /\ Elems(order') = Elems(order) \cup {n}
        /\ registered' = registered \cup {n} /\ n \notin registered
    BY AppendNew DEF AddWorker, RegistryShape, Registry
  <1>2. Len(gs) \in Nat /\ \A j \in Callers : mark[j] \in 0..Len(gs)
    BY DEF CallShape
  <1>3. CASE ~running
    <2>1. gs' = gs /\ ctxOf' = ctxOf /\ pc' = pc /\ mark' = mark /\ running' = running
      BY <1>3 DEF AddWorker
    <2>2. RegistryShape' /\ GoroutineShape' /\ CallShape'
      BY <2>1 DEF AddWorker, RegistryShape, GoroutineShape, CallShape
    <2>3. Registry' /\ Reached' /\ HooksAfterWorkers'
      BY <1>1, <2>1 DEF Registry, Reached, HooksAfterWorkers
    <2>. QED
      BY <2>2, <2>3
  <1>4. CASE running
    <2>. DEFINE w == Spawn(n, TRUE)
    <2>1. /\ gs' = Append(gs, w) /\ ctxOf' = [ctxOf EXCEPT ![n] = Len(gs) + 1]
          /\ Len(gs) < MaxGoroutines /\ Phase \in AddPhases
          /\ pc' = pc /\ mark' = mark /\ running' = running
      BY <1>4 DEF AddWorker
    <2>2. w \in Worker /\ w.name = n
      BY DEF Spawn, Worker
    <2>. HIDE DEF w
    <2>3. /\ gs' \in Seq(Worker) /\ Len(gs') = Len(gs) + 1
          /\ \A h \in 1..Len(gs) : gs'[h] = gs[h]
          /\ gs'[Len(gs) + 1] = w
      BY <2>1, <2>2 DEF GoroutineShape
    <2>4. GoroutineShape'
      BY <2>1, <2>3, BoundAssumption DEF GoroutineShape
    <2>5. RegistryShape'
      <3>1. \A i \in 0..Len(gs) : i \in 0..Len(gs')
        BY <1>2, <2>3
      <3>2. Len(gs) + 1 \in 0..Len(gs')
        BY <1>2, <2>3
      <3>3. ctxOf' \in [Names -> 0..Len(gs')]
        BY <2>1 DEF RegistryShape
      <3>. QED
        BY <1>1, <3>3 DEF RegistryShape
    <2>6. CallShape'
      <3>1. \A i \in 0..Len(gs) : i \in 0..Len(gs')
        BY <1>2, <2>3
      <3>2. mark' \in [Callers -> 0..Len(gs')]
        BY <2>1 DEF CallShape
      <3>. QED
        BY <3>2 DEF AddWorker, CallShape
    <2>7. Registry'
      <3>1. ASSUME NEW m \in Names, m # n, ctxOf'[m] # 0
            PROVE  m \in registered' /\ gs'[ctxOf'[m]].name = m
        <4>1. ctxOf'[m] = ctxOf[m] /\ ctxOf[m] \in 1..Len(gs)
          BY <2>1, <3>1 DEF RegistryShape
        <4>. QED
          BY <1>1, <2>3, <4>1 DEF Registry
      <3>2. gs'[ctxOf'[n]].name = n
        BY <2>1, <2>2 DEF RegistryShape
      <3>. QED
        BY <1>1, <3>1, <3>2 DEF Registry
    <2>8. Reached'
      <3>. SUFFICES ASSUME "startup" \notin AddPhases
                    PROVE  /\ \A h \in 1..Len(gs') : gs'[h].at # "gone" =>
                                 gs'[h].name \in registered' /\ ctxOf'[gs'[h].name] = h
                           /\ pc[Runner] \notin {"idle", "startup", "hooks", "start"}
        BY <2>1 DEF Reached
      <3>1. pc[Runner] \notin {"idle", "startup", "hooks", "start"}
        BY <1>4, <2>1 DEF Phase, Reached
      <3>2. ASSUME NEW h \in 1..Len(gs), gs[h].at # "gone"
            PROVE  gs'[h].name \in registered' /\ ctxOf'[gs'[h].name] = h
        <4>1. gs[h].name \in registered /\ ctxOf[gs[h].name] = h /\ gs[h].name # n
          BY <1>1, <3>2 DEF Reached
        <4>. QED
          BY <1>1, <2>1, <4>1
      <3>3. gs'[Len(gs) + 1].name \in registered' /\ ctxOf'[gs'[Len(gs) + 1].name] = Len(gs) + 1
        BY <1>1, <2>1, <2>2 DEF RegistryShape
      <3>4. \A h \in 1..Len(gs') : h \in 1..Len(gs) \/ h = Len(gs) + 1
        BY <1>2, <2>3
      <3>. QED
        BY <2>3, <3>1, <3>2, <3>3, <3>4
    <2>9. HooksAfterWorkers'
      <3>1. \A j \in Callers : \A h \in 1..mark[j] : h \in 1..Len(gs)
        BY <1>2
      <3>. QED
        BY <2>1, <3>1 DEF HooksAfterWorkers
    <2>. QED
      BY <2>4, <2>5, <2>6, <2>7, <2>8, <2>9
  <1>. QED
    BY <1>3, <1>4

LEMMA startWorkersKeeps ==
  ASSUME IInv, startWorkers
  PROVE  IInv'
  <1>. USE DEF IInv, Shape
  <1>. DEFINE t == [i \in DOMAIN order |-> Spawn(order[i], FALSE)]
  <1>. DEFINE at(n) == CHOOSE i \in DOMAIN order : order[i] = n
  <1>1. /\ Len(order) \in Nat /\ DOMAIN order = 1..Len(order)
        /\ \A i \in 1..Len(order) : order[i] \in Names
    BY DEF RegistryShape
  <1>2. Len(gs) \in Nat /\ \A j \in Callers : mark[j] \in 0..Len(gs)
    BY DEF CallShape
  <1>3. t \in Seq(Worker) /\ Len(t) = Len(order)
    <2>1. \A i \in 1..Len(order) : Spawn(order[i], FALSE) \in Worker
      BY <1>1 DEF Spawn, Worker
    <2>2. t \in [1..Len(order) -> Worker]
      BY <1>1, <2>1
    <2>3. \A m \in Nat : \A f \in [1..m -> Worker] : f \in Seq(Worker) /\ Len(f) = m
      OBVIOUS
    <2>. QED
      BY <1>1, <2>2, <2>3
  <1>4. \A i \in 1..Len(order) : t[i].name = order[i]
    BY DEF Spawn
  <1>5. ASSUME NEW n \in registered PROVE at(n) \in 1..Len(order) /\ order[at(n)] = n
    BY DEF Registry, Elems
  <1>6. /\ gs' = gs \o t /\ Len(gs) + Len(order) <= MaxGoroutines
        /\ ctxOf' = [n \in Names |-> IF n \in registered THEN Len(gs) + at(n) ELSE ctxOf[n]]
        /\ pc[Runner] = "start" /\ pc' = [pc EXCEPT ![Runner] = "select"]
        /\ registered' = registered /\ order' = order /\ mark' = mark /\ running' = running
    BY DEF startWorkers, At
  <1>. HIDE DEF t, at
  <1>7. /\ gs' \in Seq(Worker) /\ Len(gs') = Len(gs) + Len(order)
        /\ \A h \in 1..(Len(gs) + Len(order)) : gs'[h] = IF h <= Len(gs) THEN gs[h] ELSE t[h - Len(gs)]
    <2>1. /\ gs \o t \in Seq(Worker) /\ Len(gs \o t) = Len(gs) + Len(t)
          /\ \A h \in 1..(Len(gs) + Len(t)) :
                (gs \o t)[h] = IF h <= Len(gs) THEN gs[h] ELSE t[h - Len(gs)]
      BY <1>3 DEF GoroutineShape
    <2>. QED
      BY <1>3, <1>6, <2>1
  <1>8. \A h \in 1..Len(gs) : gs'[h] = gs[h]
    BY <1>1, <1>2, <1>7
  <1>9. \A i \in 1..Len(order) : gs'[Len(gs) + i].name = order[i]
    <2>1. ASSUME NEW i \in 1..Len(order)
          PROVE  /\ Len(gs) + i \in 1..(Len(gs) + Len(order)) /\ ~(Len(gs) + i <= Len(gs))
                 /\ Len(gs) + i - Len(gs) = i
      BY <1>1, <1>2
    <2>2. ASSUME NEW i \in 1..Len(order) PROVE gs'[Len(gs) + i] = t[i]
      BY <1>7, <2>1
    <2>. QED
      BY <1>4, <2>2
  <1>10. GoroutineShape'
    BY <1>6, <1>7 DEF GoroutineShape
  <1>11. \A i \in 0..Len(gs) : i \in 0..Len(gs')
    BY <1>1, <1>2, <1>7
  <1>12. RegistryShape'
    <2>1. ASSUME NEW n \in Names PROVE ctxOf'[n] \in 0..Len(gs')
      <3>1. CASE n \in registered
        BY <1>1, <1>2, <1>5, <1>6, <1>7, <3>1
      <3>2. CASE n \notin registered
        BY <1>6, <3>2 DEF RegistryShape
      <3>. QED
        BY <3>1, <3>2
    <2>2. ctxOf' \in [Names -> 0..Len(gs')]
      BY <1>6, <2>1
    <2>. QED
      BY <1>6, <2>2 DEF RegistryShape
  <1>13. CallShape'
    <2>1. mark' \in [Callers -> 0..Len(gs')]
      BY <1>6 DEF CallShape
    <2>2. pc' \in [Callers -> Places]
      BY <1>6 DEF CallShape, Places
    <2>. QED
      BY <2>1, <2>2 DEF startWorkers, CallShape
  <1>14. Registry'
    <2>1. ASSUME NEW n \in Names, ctxOf'[n] # 0 PROVE n \in registered /\ gs'[ctxOf'[n]].name = n
      <3>1. n \in registered
        BY <1>6, <2>1 DEF Registry
      <3>2. ctxOf'[n] = Len(gs) + at(n)
        BY <1>6, <3>1
      <3>. QED
        BY <1>5, <1>9, <3>1, <3>2
    <2>. QED
      BY <1>6, <2>1 DEF Registry
  <1>15. Reached'
    <2>. SUFFICES ASSUME "startup" \notin AddPhases
                  PROVE  /\ \A h \in 1..Len(gs') : gs'[h].at # "gone" =>
                               gs'[h].name \in registered' /\ ctxOf'[gs'[h].name] = h
                         /\ pc'[Runner] = "select" /\ running'
      BY DEF Reached
    <2>1. Len(gs) = 0 /\ running' /\ pc'[Runner] = "select"
      BY <1>6 DEF Reached, CallShape, Callers
    <2>2. ASSUME NEW h \in 1..Len(gs')
          PROVE  gs'[h].name \in registered /\ ctxOf'[gs'[h].name] = h
      <3>1. h \in 1..Len(order) /\ gs'[h].name = order[h]
        BY <1>1, <1>7, <1>9, <2>1
      <3>2. order[h] \in registered /\ order[h] \in Names
        BY <1>1, <3>1 DEF Registry, Elems
      <3>3. at(order[h]) = h
        BY <1>5, <3>1, <3>2 DEF Registry, IsInjective
      <3>. QED
        BY <1>6, <2>1, <3>1, <3>2, <3>3
    <2>. QED
      BY <1>6, <2>1, <2>2
  <1>16. HooksAfterWorkers'
    <2>1. \A j \in Callers : \A h \in 1..mark[j] : h \in 1..Len(gs)
      BY <1>2
    <2>2. \A j \in Callers : pc'[j] \in {"waited", "nil"} => pc[j] \in {"waited", "nil"}
      BY <1>6
    <2>. QED
      BY <1>6, <2>1 DEF HooksAfterWorkers
  <1>. QED
    BY <1>10, <1>12, <1>13, <1>14, <1>15, <1>16

------------------------------------------------------------------------------
(* A step of Next is one of the actions above. *)
LEMMA NextKeeps == IInv /\ [Next]_vars => IInv'
  <1>. SUFFICES ASSUME IInv, [Next]_vars PROVE IInv'
    OBVIOUS
  <1>1. CASE UNCHANGED vars
    BY <1>1 DEF vars, registry, IInv, Shape, RegistryShape, GoroutineShape, CallShape,
       Registry, Reached, HooksAfterWorkers
  <1>2. ASSUME NEW k \in Callers, ShutdownStep(k) PROVE IInv'
    BY <1>2, CancelWorkersKeeps, CallStopFuncsKeeps, WaitForWorkersKeeps, ShutdownHooksKeeps
       DEF ShutdownStep
  <1>3. CASE RunStep
    BY <1>3, RunMakesContextKeeps, StartupHooksKeeps, startWorkersKeeps, RunSelectsKeeps
       DEF RunStep
  <1>. QED
    BY <1>1, <1>2, <1>3, AddWorkerKeeps, StopWorkerKeeps, WorkerReturnsKeeps, WorkerDoneKeeps,
       CleanupKeeps, RunBeginsKeeps, SignalArrivesKeeps, ShutdownKeeps, ShutdownTimesOutKeeps DEF Next

(* The fields as TypeOK lists them. *)
LEMMA IInvImplies == IInv => RegistryConsistent
  <1>. SUFFICES ASSUME IInv PROVE RegistryConsistent
    OBVIOUS
  <1>. USE DEF IInv, Shape
  <1>1. Len(gs) \in Nat /\ Len(gs) <= MaxGoroutines /\ MaxGoroutines \in Nat
    BY BoundAssumption DEF GoroutineShape
  <1>2. ctxOf \in [Names -> 0..MaxGoroutines] /\ mark \in [Callers -> 0..MaxGoroutines]
    BY <1>1 DEF RegistryShape, CallShape
  <1>3. TypeOK
    BY <1>2 DEF TypeOK, RegistryShape, GoroutineShape, CallShape, Worker, Places
  <1>. QED
    BY <1>3 DEF RegistryConsistent, Registry, Elems

(* For every set of workers, whenever they are added, stopped and fail:    *)
(* workers, workerOrder and workerContexts are about the same workers      *)
(* (manager.go:62-172).                                                    *)
THEOREM LifecycleRegistry == Spec => []RegistryConsistent
  BY InitIInv, NextKeeps, IInvImplies, PTL DEF Spec

(* Unless workers are added while Run starts up, each that runs is found   *)
(* by its name and under the context that StopWorker cancels               *)
(* (manager.go:98-120).                                                    *)
THEOREM LifecycleReachable == Spec => []("startup" \notin AddPhases => WorkerReachable)
  <1>1. IInv => ("startup" \notin AddPhases => WorkerReachable)
    BY Numbers DEF IInv, Shape, Reached, Active, WorkerReachable
  <1>. QED
    BY <1>1, InitIInv, NextKeeps, PTL DEF Spec

(* The OnShutdown hooks run after every worker that the shutdown has       *)
(* cancelled, however many callers shut down (manager.go:230-281).         *)
THEOREM LifecycleHooks == Spec => []HooksAfterWorkers
  <1>1. IInv => HooksAfterWorkers
    BY DEF IInv
  <1>. QED
    BY <1>1, InitIInv, NextKeeps, PTL DEF Spec
==============================================================================
