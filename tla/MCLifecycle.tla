----------------------------- MODULE MCLifecycle -----------------------------
(* Instances of Lifecycle for model checking.                              *)
EXTENDS Lifecycle
==============================================================================
