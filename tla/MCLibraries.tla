------------------------------ MODULE MCLibraries ------------------------------
(***************************************************************************)
(* Instances of StateMachines, Congestion and Timer for model checking.    *)
(* The three libraries have nothing in common: the initial state decides   *)
(* which of them the behaviour is of, and the others stay as they are.     *)
(* The sizes in Libraries.cfg are so small that the window of Congestion   *)
(* reaches its bounds, and the queue of StateMachines is full, soon.       *)
(***************************************************************************)
EXTENDS Congestion, StateMachines, Timer

VARIABLE library

(* Two levels of nesting; a rule that inner states inherit, one to itself. *)
Rule(from, event, to, guarded) ==
    [from |-> from, event |-> event, to |-> to, guarded |-> guarded]
MCParent == [s \in {"a", "p", "b"} |-> IF s = "a" THEN "p" ELSE "q"]
MCRules == {Rule("a", "e", "b", FALSE), Rule("q", "f", "x", TRUE), Rule("x", "e", "a", FALSE),
            Rule("b", "e", "p", FALSE), Rule("p", "e", "a", FALSE)}
MCLateRules == {Rule("p", "f", "p", FALSE), Rule("x", "e", "b", FALSE)}
MCUses == {{"fsm", "async", "snapshot"}, {"fsm", "hsm", "group"}}

Init ==
    /\ library \in {"statemachine", "congestion", "timer"}
    /\ MachinesInit /\ CongestionInit /\ TimerInit
    /\ library # "statemachine" => "async" \in uses
    /\ library # "congestion" => algorithm = "reno"

Next ==
    /\ UNCHANGED library
    /\ \/ library = "statemachine" /\ MachinesNext /\ UNCHANGED <<ccVars, timerVars>>
       \/ library = "congestion" /\ CongestionNext /\ UNCHANGED <<smVars, timerVars>>
       \/ library = "timer" /\ TimerNext /\ UNCHANGED <<smVars, ccVars>>

(* The fairness of StateMachines and Timer asks for nothing while nothing  *)
(* was started; that of Congestion is asked of its own behaviours only.    *)
Spec ==
    /\ Init /\ [][Next]_<<library, smVars, ccVars, timerVars>>
    /\ MachinesFairness /\ TimerFairness
    /\ WF_ccVars(library = "congestion" /\ Send)
    /\ SF_ccVars(library = "congestion" /\ Acked)
    /\ SF_ccVars(library = "congestion" /\ algorithm = "cubic" /\ Acked /\ target' # target)
================================================================================
