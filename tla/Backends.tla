------------------------------- MODULE Backends -------------------------------
(* What every balancer of internal/balancer is configured with. *)
EXTENDS Integers, Sequences, Functions

CONSTANTS Addrs,   \* backend addresses
          None,    \* the empty string
          Lists,   \* the lists a balancer may be given
          MaxSets  \* bound: calls of SetBackends considered

ASSUME ListsAssumption == Lists \subseteq Seq(Addrs)
ASSUME NoneAssumption == None \notin Addrs
ASSUME MaxSetsAssumption == MaxSets \in Nat

(* What Next may answer: a listed address, or "" if and only if there is none. *)
Answers(list) == IF list = <<>> THEN {None} ELSE Range(list)
=============================================================================
