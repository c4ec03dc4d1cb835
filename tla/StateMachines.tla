----------------------------- MODULE StateMachines -----------------------------
(***************************************************************************)
(* The state machines of pkg/statemachine: an FSM with its event queue     *)
(* (AsyncFSM) and snapshots (PersistentFSM) and an HSM, with the group     *)
(* that steps them together (Concurrent).  The application nests the       *)
(* states and adds most rules before it triggers anything.                 *)
(*                                                                         *)
(* Trigger holds the machine's lock over all callbacks and is one action.  *)
(* Every state has callbacks, and any of them may fail.  entered records   *)
(* what they were told, the outermost state first; NewFSM and NewHSM tell  *)
(* nobody of the initial state, which counts as entered.                   *)
(***************************************************************************)
EXTENDS Integers, Sequences, FiniteSets, SequencesExt

CONSTANTS
    States, Events,
    Initial,        \* the state the machines begin in
    Parent,         \* child -> parent, of the HSM
    Rules,          \* the rules of both machines: [from, event, to, guarded]
    LateRules,      \* those that may be added later
    QueueSize,
    MaxEvents,      \* a bound on the calls of TriggerAsync
    MaxStarts,      \* a bound on the calls of Start
    Uses            \* which machines and types an application uses, and more
                    \* than one of these sets to bound the combinations

(* The maps of rules have one for each state and event.  AddState refuses  *)
(* no cycle, in which a Trigger would go round for ever.                   *)
ASSUME MachinesAssumption ==
    /\ IsFiniteSet(States) /\ Initial \in States
    /\ DOMAIN Parent \subseteq States /\ \A s \in DOMAIN Parent : Parent[s] \in States
    /\ \A S \in SUBSET DOMAIN Parent : S # {} => \E s \in S : Parent[s] \notin S
    /\ \A r \in Rules \cup LateRules : {r.from, r.to} \subseteq States /\ r.event \in Events
    /\ \A r, t \in Rules : r.from = t.from /\ r.event = t.event => r = t
    /\ QueueSize \in Nat /\ MaxEvents \in Nat /\ MaxStarts \in Nat \ {0}

VARIABLES
    uses,           \* what this application uses
    machine,        \* [fsm, hsm -> [current, initial]]
    rules,          \* [fsm, hsm -> the rules]
    entered,        \* history: the states whose callbacks say they are active
    disturbed,      \* history: the machines whose callbacks cannot be right any more
    saved,          \* a snapshot
    group,          \* the machines that are in Concurrent
    call,           \* TriggerAll or ResetAll: what it does to whom
    queue,          \* the events that TriggerAsync has accepted
    accepted,       \* how many that were
    handled,        \* history: the events in the order they were handled
    workers,        \* what each processEvents is at
    stop            \* "no", "closed" or, when Stop has returned, "returned"

asyncVars == <<queue, accepted, handled, workers, stop>>
smVars == <<uses, machine, rules, entered, disturbed, saved, group, call, asyncVars>>

Machines == {"fsm", "hsm"}
Nobody == [at |-> "none", late |-> FALSE, event |-> [event |-> "none", number |-> 0]]
Resting == [what |-> "none", left |-> {}]

(* From the state itself outwards, one parent in each turn of the loop.    *)
Ancestors(m, s) ==
    LET up[i \in 0..Cardinality(DOMAIN Parent)] ==
            IF i = 0 THEN <<s>>
            ELSE IF m = "hsm" /\ Last(up[i - 1]) \in DOMAIN Parent
                 THEN Append(up[i - 1], Parent[Last(up[i - 1])])
                 ELSE up[i - 1]
    IN  up[Cardinality(DOMAIN Parent)]
Chains == [m \in Machines |-> [s \in States |-> Reverse(Ancestors(m, s))]]

MachinesTypeOK ==
    /\ \A m \in Machines : {machine[m].current, machine[m].initial} \subseteq States
    /\ disturbed \subseteq Machines /\ group \subseteq Machines /\ call.left \subseteq Machines
    /\ \A m \in Machines : \A r, t \in rules[m] : r.from = t.from /\ r.event = t.event => r = t
    /\ Len(queue) <= QueueSize /\ accepted \in 0..MaxEvents
    /\ \A w \in 1..MaxStarts : workers[w].at \in {"none", "selects", "triggers", "gone"}

MachinesInit ==
    /\ uses \in Uses
    /\ machine = [m \in Machines |-> [current |-> Initial, initial |-> Initial]]
    /\ rules = [m \in Machines |-> Rules]
    /\ entered = [m \in Machines |-> Chains[m][Initial]]
    /\ disturbed = {} /\ saved = machine["fsm"]
    /\ group = uses \cap Machines /\ call = Resting
    /\ queue = <<>> /\ accepted = 0 /\ handled = <<>>
    /\ workers = [w \in 1..MaxStarts |-> Nobody] /\ stop = "no"

------------------------------------------------------------------------------
(* An event that the state has no rule for is its parent's.                *)
Matching(m, e) ==
    LET chain == Ancestors(m, machine[m].current)
        has(i) == {r \in rules[m] : r.from = chain[i] /\ r.event = e}
        first == {i \in DOMAIN chain : has(i) # {} /\ \A j \in 1..(i - 1) : has(j) = {}}
    IN UNION {has(i) : i \in first}

(* How many of the outermost states the two have in common.                *)
Common(from, to) ==
    Max({n \in 0..Min({Len(from), Len(to)}) : SubSeq(from, 1, n) = SubSeq(to, 1, n)})

(* Mutant: the states in common are counted from the inner end.            *)
ExitPathShort(m, from, to) ==
    LET a == Ancestors(m, from)
        b == Ancestors(m, to)
    IN  SubSeq(a, 1, Len(a) - Common(a, b))

(* From the inside out; the FSM, which has no hierarchy, leaves and enters *)
(* even the state it stays in, the HSM does not.                           *)
ExitPath(m, from, to) ==
    LET a == Chains[m][from]
        b == Chains[m][to]
    IN  IF m = "fsm" THEN <<from>> ELSE Reverse(SubSeq(a, Common(a, b) + 1, Len(a)))

EnterPath(m, from, to) ==
    LET a == Chains[m][from]
        b == Chains[m][to]
    IN  IF m = "fsm" THEN <<to>> ELSE SubSeq(b, Common(a, b) + 1, Len(b))

(* What the callbacks tell: only the innermost state can be left.          *)
Leave(active, s) == IF active # <<>> /\ Last(active) = s THEN Front(active) ELSE Append(active, s)
Told(active, exits, enters) ==
    LET left[i \in 0..Len(exits)] == IF i = 0 THEN active ELSE Leave(left[i - 1], exits[i])
    IN  left[Len(exits)] \o enters

(* ok callbacks succeed, the next one fails: the state has changed if it   *)
(* was one of those that enter.  The FSM has a callback between exit and   *)
(* enter as well.                                                          *)
Fire(m, r) ==
    LET from == machine[m].current
        exits == ExitPath(m, from, r.to)
        enters == EnterPath(m, from, r.to)
        between == IF m = "fsm" THEN 1 ELSE 0
        total == Len(exits) + between + Len(enters)
    IN
    \E ok \in 0..total :
        /\ machine' = IF ok >= Len(exits) + between THEN [machine EXCEPT ![m].current = r.to] ELSE machine
        /\ disturbed' = IF ok < total THEN disturbed \cup {m} ELSE disturbed
        /\ entered' = [entered EXCEPT ![m] = IF m \in disturbed' THEN <<>> ELSE Told(@, exits, enters)]

(* There may be no rule, or a guard that says no.                          *)
Trigger(m, e) ==
    \/ \E r \in Matching(m, e) : Fire(m, r)
    \/ /\ \A r \in Matching(m, e) : r.guarded
       /\ UNCHANGED <<machine, entered, disturbed>>

(* No callback tells of a jump.                                            *)
Jump(m, to) ==
    /\ machine' = [machine EXCEPT ![m] = to]
    /\ disturbed' = disturbed \cup {m}
    /\ entered' = [entered EXCEPT ![m] = <<>>]

Reset(m) == Jump(m, [machine[m] EXCEPT !.current = machine[m].initial])

TriggerSync(m, e) ==
    /\ Trigger(m, e)
    /\ UNCHANGED <<rules, saved, group, call, asyncVars>>

ResetOne(m) ==
    /\ Reset(m)
    /\ UNCHANGED <<rules, saved, group, call, asyncVars>>

AddTransition(m, r) ==
    /\ \A t \in rules[m] : ~(t.from = r.from /\ t.event = r.event)
    /\ rules' = [rules EXCEPT ![m] = @ \cup {r}]
    /\ UNCHANGED <<machine, entered, disturbed, saved, group, call, asyncVars>>

CreateSnapshot ==
    /\ saved' = machine["fsm"]
    /\ UNCHANGED <<machine, rules, entered, disturbed, group, call, asyncVars>>

RestoreSnapshot ==
    /\ Jump("fsm", [machine["fsm"] EXCEPT !.current = saved.current])
    /\ UNCHANGED <<rules, saved, group, call, asyncVars>>

(* Unmarshalled state comes with its initial state.  The history that      *)
(* MarshalJSON writes is always empty.                                     *)
UnmarshalJSON ==
    /\ Jump("fsm", saved)
    /\ UNCHANGED <<rules, saved, group, call, asyncVars>>

------------------------------------------------------------------------------
(* Concurrent.  What was in the group when the call began gets the event,  *)
(* in any order.                                                           *)
AddMachine(m) ==
    /\ group' = group \cup {m}
    /\ UNCHANGED <<machine, rules, entered, disturbed, saved, call, asyncVars>>

RemoveMachine(m) ==
    /\ group' = group \ {m}
    /\ UNCHANGED <<machine, rules, entered, disturbed, saved, call, asyncVars>>

AllBegins(what) ==
    /\ call.left = {} /\ group # {}
    /\ call' = [what |-> what, left |-> group]
    /\ UNCHANGED <<machine, rules, entered, disturbed, saved, group, asyncVars>>

AllSteps(m) ==
    /\ m \in call.left
    /\ call' = IF call.left = {m} THEN Resting ELSE [call EXCEPT !.left = @ \ {m}]
    /\ IF call.what = "reset" THEN Reset(m) ELSE Trigger(m, call.what)
    /\ UNCHANGED <<rules, saved, group, asyncVars>>

------------------------------------------------------------------------------
(* AsyncFSM.  A second Stop would panic.                                   *)
Start ==
    /\ \E w \in 1..MaxStarts :
          /\ workers[w].at = "none" /\ \A v \in 1..(w - 1) : workers[v].at # "none"
          /\ workers' = [workers EXCEPT ![w].at = "selects", ![w].late = stop = "returned"]
    /\ UNCHANGED <<machine, rules, entered, disturbed, saved, group, call, queue, accepted, handled, stop>>

TriggerAsync(e) ==
    /\ accepted < MaxEvents /\ Len(queue) < QueueSize
    /\ accepted' = accepted + 1
    /\ queue' = Append(queue, [event |-> e, number |-> accepted + 1])
    /\ UNCHANGED <<machine, rules, entered, disturbed, saved, group, call, handled, workers, stop>>

(* Mutant: the loop ends when there is nothing to do.                      *)
WorkerLeaves(w) ==
    /\ workers[w].at = "selects"
    /\ stop # "no" \/ queue = <<>>
    /\ workers' = [workers EXCEPT ![w].at = "gone"]
    /\ UNCHANGED <<machine, rules, entered, disturbed, saved, group, call, queue, accepted, handled, stop>>

(* select takes either if both are ready: Stop may leave events behind.    *)
WorkerStops(w) ==
    /\ workers[w].at = "selects"
    /\ stop # "no"
    /\ workers' = [workers EXCEPT ![w].at = "gone"]
    /\ UNCHANGED <<machine, rules, entered, disturbed, saved, group, call, queue, accepted, handled, stop>>

WorkerTakes(w) ==
    /\ workers[w].at = "selects"
    /\ queue # <<>>
    /\ workers' = [workers EXCEPT ![w].at = "triggers", ![w].event = Head(queue)]
    /\ queue' = Tail(queue)
    /\ UNCHANGED <<machine, rules, entered, disturbed, saved, group, call, accepted, handled, stop>>

WorkerTriggers(w) ==
    /\ workers[w].at = "triggers"
    /\ Trigger("fsm", workers[w].event.event)
    /\ handled' = Append(handled, workers[w].event.number)
    /\ workers' = [workers EXCEPT ![w].at = "selects", ![w].event = Nobody.event]
    /\ UNCHANGED <<rules, saved, group, call, queue, accepted, stop>>

StopCloses ==
    /\ stop = "no" /\ stop' = "closed"
    /\ UNCHANGED <<machine, rules, entered, disturbed, saved, group, call, queue, accepted, handled, workers>>

(* Mutant: Stop does not wait.                                             *)
StopReturnsAtOnce ==
    /\ stop = "closed" /\ stop' = "returned"
    /\ UNCHANGED <<machine, rules, entered, disturbed, saved, group, call, queue, accepted, handled, workers>>

StopReturns ==
    /\ stop = "closed" /\ stop' = "returned"
    /\ \A w \in 1..MaxStarts : workers[w].at \in {"none", "gone"}
    /\ UNCHANGED <<machine, rules, entered, disturbed, saved, group, call, queue, accepted, handled, workers>>

Work(w) == WorkerStops(w) \/ WorkerTakes(w) \/ WorkerTriggers(w)

MachinesNext ==
    /\ \/ \E m \in uses \cap Machines :
            \/ \E e \in Events : TriggerSync(m, e)
            \/ \E r \in LateRules : AddTransition(m, r)
            \/ ResetOne(m) \/ AllSteps(m)
            \/ "group" \in uses /\ (AddMachine(m) \/ RemoveMachine(m))
       \/ "group" \in uses /\ \E what \in Events \cup {"reset"} : AllBegins(what)
       \/ "snapshot" \in uses /\ (CreateSnapshot \/ RestoreSnapshot \/ UnmarshalJSON)
       \/ "async" \in uses /\ (Start \/ StopCloses \/ \E e \in Events : TriggerAsync(e))
       \/ StopReturns \/ \E w \in 1..MaxStarts : Work(w)
    /\ UNCHANGED uses

(* The goroutines of processEvents and the caller of Stop go on.           *)
MachinesFairness ==
    /\ WF_smVars(StopReturns /\ UNCHANGED uses)
    /\ \A w \in 1..MaxStarts : WF_smVars(Work(w) /\ UNCHANGED uses)

MachinesSpec == MachinesInit /\ [][MachinesNext]_smVars /\ MachinesFairness

------------------------------------------------------------------------------
(* Whoever follows the callbacks knows the state: as long as none failed   *)
(* and nobody reset or restored the machine, the states that were entered  *)
(* and not left are the current one and its ancestors, and at every        *)
(* callback the inner states have gone before the outer ones               *)
(* (hsm.go:105-232, fsm.go:113-155).                                       *)
CallbacksFollow ==
    \A m \in Machines \ disturbed : entered[m] = Chains[m][machine[m].current]

(* A single worker handles the events in the order they were accepted, and *)
(* when Stop has returned nobody is at an event but workers started later  *)
(* (async.go:38-65).                                                       *)
EventsInOrder ==
    /\ MachinesTypeOK
    /\ (\A w \in 2..MaxStarts : workers[w].at = "none") =>
          \A i \in DOMAIN handled : handled[i] = i
    /\ stop = "returned" => \A w \in 1..MaxStarts : workers[w].late \/ workers[w].at # "triggers"

(* Every event that was accepted is handled: time and again nothing is     *)
(* left to do, unless no worker was started or Stop came, which leaves     *)
(* behind what it finds (async.go:32-65).                                  *)
AcceptedIsHandled ==
    []<>(workers[1].at = "none" \/ stop # "no" \/ Len(handled) = accepted)
==============================================================================
