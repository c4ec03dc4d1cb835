------------------------------- MODULE MCFillp -------------------------------
(* Instances of Fillp for model checking.                                  *)
EXTENDS Fillp

CONSTANTS ClientBytes, ServerBytes, ClientISN, ServerISN

MCBytes == [client |-> ClientBytes, server |-> ServerBytes]
MCISN == [client |-> ClientISN, server |-> ServerISN]

(* Connections whose sequence numbers went wrong are of no interest to the *)
(* properties, which promise nothing of them; nor is a SYN sent again,     *)
(* which is how they go wrong.                                             *)
OneHandshake ==
    /\ mishaps = {}
    /\ \A s \in DOMAIN retransQueue["client"] :
          retransQueue["client"][s].attempts > 0 => retransQueue["client"][s].type # "syn"
==============================================================================
