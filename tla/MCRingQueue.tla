---------------------------- MODULE MCRingQueue ----------------------------
(* Small instances of RingQueue: a ring of two slots, so that head and     *)
(* tail wrap around, and as many callers as make both wait lists hold two. *)
EXTENDS RingQueue, TLC

Symmetry == Permutations(Producers) \cup Permutations(Consumers) \cup Permutations(Tasks)
=============================================================================
