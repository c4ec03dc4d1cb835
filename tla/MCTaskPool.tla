------------------------------ MODULE MCTaskPool ------------------------------
(* Instances of TaskPool for model checking.                               *)
EXTENDS TaskPool, TLC

(* Workers are interchangeable, and so are submitters.                     *)
Symmetry == Permutations(Workers) \cup Permutations(Submitters)
==============================================================================
