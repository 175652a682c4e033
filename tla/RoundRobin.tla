------------------------------ MODULE RoundRobin ------------------------------
(***************************************************************************)
(* The round-robin balancer (internal/balancer/roundrobin.go).  The list   *)
(* is guarded by an RWMutex and the counter is atomic: the only shared     *)
(* update of Next is the Add on the counter, so a call is one step.  The   *)
(* counter is a 64-bit unsigned integer; Wrap stands for 2^64.             *)
(***************************************************************************)
EXTENDS Backends

CONSTANT Wrap
ASSUME WrapAssumption == Wrap \in Nat \ {0}

VARIABLES rrList,   \* r.backends
          counter,  \* r.counter
          rrPicks   \* history: calls answered by each position since the last
                    \* SetBackends or wrap of the counter

rrVars == <<rrList, counter, rrPicks>>
NoPicks(list) == [i \in 1..Len(list) |-> 0]

RRInit(list) == rrList = list /\ counter = 0 /\ rrPicks = NoPicks(list)

(* Wrong variant: each position answers twice. *)
StickyPosition(n, len) == ((n \div 2) % len) + 1

(* n % len, for the value the counter had before the Add. *)
Position(n, len) == (n % len) + 1

RRAnswer == IF rrList = <<>> THEN None ELSE rrList[Position(counter, Len(rrList))]

(* Wrong variant: the counter does not wrap. *)
CounterUnbounded(n) == n + 1
CounterAfter(n) == (n + 1) % Wrap

(* Next: an empty list leaves the counter alone. *)
RRNext ==
  IF rrList = <<>>
    THEN UNCHANGED rrVars
    ELSE /\ counter' = CounterAfter(counter)
         /\ rrPicks' = IF counter' = 0 THEN NoPicks(rrList)
                       ELSE [rrPicks EXCEPT ![Position(counter, Len(rrList))] = @ + 1]
         /\ UNCHANGED rrList

(* Wrong variant: an empty list is ignored. *)
RRSetBackendsUnlessEmpty(list) ==
  IF list = <<>> THEN UNCHANGED rrVars
                 ELSE rrList' = list /\ rrPicks' = NoPicks(list) /\ UNCHANGED counter

(* SetBackends keeps the counter. *)
RRSetBackends(list) ==
  /\ rrList' = list
  /\ rrPicks' = NoPicks(list)
  /\ UNCHANGED counter

RRTypeOK ==
  /\ rrList \in Lists \cup {<<>>}
  /\ counter \in 0..(Wrap - 1)
  /\ rrPicks \in [1..Len(rrList) -> Nat]

RREven == \A i, j \in DOMAIN rrPicks : rrPicks[i] - rrPicks[j] \in -1..1
=============================================================================
