---------------------------- MODULE MCPriorityQueue ---------------------------
(* Instances of PriorityQueue for model checking: a task below the first   *)
(* limit, and others in and above the last range.                          *)
EXTENDS PriorityQueue, TLC

CONSTANTS low, high, top

Priorities == [t \in Tasks |-> IF t = low THEN 5 ELSE IF t = high THEN 19 ELSE 100]
Symmetry == Permutations(Producers) \cup Permutations(Consumers)
==============================================================================
