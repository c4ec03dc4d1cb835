------------------------------- MODULE MCNetconn -------------------------------
(* Instances of Netconn for model checking: the client connects again, or  *)
(* the server is started again.                                            *)
EXTENDS Netconn

MCBudgets == {[connects |-> 2, starts |-> 1, calls |-> 0],
              [connects |-> 1, starts |-> 2, calls |-> 1]}

OneOfEach == {[connects |-> 1, starts |-> 1, calls |-> 0]}
==============================================================================
