------------------------------- MODULE Balancer -------------------------------
(***************************************************************************)
(* The contract of the Balancer interface (internal/balancer/balancer.go): *)
(* Next answers from the list installed last, SetBackends replaces it.     *)
(* Which member Next answers is left to the implementation.                *)
(***************************************************************************)
EXTENDS Backends

VARIABLES list,    \* the installed list
          answer   \* what the last call of Next returned

Init == list \in Lists /\ answer = None

Next == answer' \in Answers(list) /\ UNCHANGED list

SetBackends == list' \in Lists /\ UNCHANGED answer

Spec == Init /\ [][Next \/ SetBackends]_<<list, answer>>
=============================================================================
