------------------------------- MODULE Weighted -------------------------------
(***************************************************************************)
(* The smooth weighted round-robin balancer (internal/balancer/weighted.go)*)
(* Every operation holds w.mu from beginning to end, so a call is one step.*)
(***************************************************************************)
EXTENDS Backends

CONSTANT Weightings  \* the weights a configuration may give, 0 for none
ASSUME WeightingsAssumption == Weightings \subseteq [Addrs -> Nat]

VARIABLES wList,    \* w.backends: addr, weight and currentWeight of each
          total,    \* w.total
          weights,  \* the weights of the configuration (never changes)
          wPicks,   \* history: calls answered by each position since all tallies were 0
          known,    \* history: the addresses of the first list
          loyal     \* history: those of them that were never taken out of the list

wVars == <<wList, total, weights, wPicks, known, loyal>>

Positions == 1..Len(wList)

(* The running sums of f[1], ..., f[n], and the last of them. *)
Sums(f, n) == LET sum[k \in 0..n] == IF k = 0 THEN 0 ELSE sum[k - 1] + f[k] IN sum
SumTo(f, n) == Sums(f, n)[n]

TotalOf(wl) == SumTo([i \in 1..Len(wl) |-> wl[i].weight], Len(wl))
NoTally(n) == [i \in 1..n |-> 0]

(* init: a missing weight is 1, and so is every weight when all are missing. *)
InitialWeight(a) == IF weights[a] > 0 THEN weights[a] ELSE 1

Fresh(list, weight(_)) ==
  [i \in 1..Len(list) |-> [addr |-> list[i], weight |-> weight(list[i]), current |-> 0]]

WInit(list) ==
  /\ weights \in Weightings
  /\ wList = Fresh(list, InitialWeight)
  /\ total = TotalOf(wList)
  /\ wPicks = NoTally(Len(list))
  /\ known = Range(list) /\ loyal = Range(list)

-----------------------------------------------------------------------------
(* Step 1 of Next. *)
Raised == [i \in Positions |-> wList[i].current + wList[i].weight]

(* Wrong variant: picks by weight, not by tally. *)
HighestWeight(cur) ==
  CHOOSE i \in DOMAIN cur : \A j \in DOMAIN cur : wList[j].weight <= wList[i].weight

(* Step 2: the first backend with the highest tally. *)
Best(cur) ==
  CHOOSE i \in DOMAIN cur : \A j \in DOMAIN cur : cur[j] <= cur[i] /\ (j < i => cur[j] < cur[i])

(* Wrong variant: subtracts the weight, not the total. *)
LowerByWeight(c, i) == c - wList[i].weight
(* Step 3. *)
Lowered(c, i) == c - total

WAnswer == IF wList = <<>> THEN None ELSE wList[Best(Raised)].addr

WNext ==
  IF wList = <<>>
    THEN UNCHANGED wVars
    ELSE LET best == Best(Raised)
         IN /\ wList' = [i \in Positions |->
                           [wList[i] EXCEPT !.current =
                              IF i = best THEN Lowered(Raised[i], i) ELSE Raised[i]]]
            /\ wPicks' = IF \A i \in Positions : wList'[i].current = 0
                           THEN NoTally(Len(wList))
                           ELSE [wPicks EXCEPT ![best] = @ + 1]
            /\ UNCHANGED <<total, weights, known, loyal>>

-----------------------------------------------------------------------------
(* Wrong variant: no weight survives SetBackends. *)
ForgetWeight(a) == 1
(* SetBackends: the weight of an address that is listed now, 1 for any other. *)
KeptWeight(a) ==
  IF \E i \in Positions : wList[i].addr = a
    THEN wList[CHOOSE i \in Positions :
                 wList[i].addr = a /\ \A j \in (i + 1)..Len(wList) : wList[j].addr # a].weight
    ELSE 1

WSetBackends(list) ==
  /\ wList' = Fresh(list, KeptWeight)
  /\ total' = TotalOf(wList')
  /\ wPicks' = NoTally(Len(list))
  /\ loyal' = loyal \cap Range(list)
  /\ UNCHANGED <<weights, known>>
-----------------------------------------------------------------------------
WTypeOK ==
  /\ wList \in Seq([addr : Addrs, weight : Nat \ {0}, current : Int])
  /\ weights \in Weightings
  /\ total = TotalOf(wList)
  /\ wPicks \in [Positions -> Nat]
  /\ loyal \subseteq known /\ known \subseteq Addrs

Calls == SumTo(wPicks, Len(wList))

(* The deviation of position i from its exact share of the calls, times total. *)
Deviation(i) == Calls * wList[i].weight - wPicks[i] * total

(* Every tally is the deviation of its backend from its share. *)
WTallies == \A i \in Positions : wList[i].current = Deviation(i)

(* No backend is ever a whole call ahead of its share, nor behind it by more *)
(* than half a call for each of the others; with three it is less than one   *)
(* call.  (With weights 1, 50, 3, 50, 1 the fourth falls 115/105 behind.)    *)
WSmooth ==
  \A i \in Positions :
    /\ Deviation(i) > -total
    /\ 2 * Deviation(i) <= (Len(wList) - 1) * total
    /\ Len(wList) <= 3 => Deviation(i) < total

(* The tallies are all zero again after at most `total` calls. *)
WCycle == wList # <<>> => Calls < total

(* A backend that never left the list has the weight it was given. *)
WLoyalWeights == \A i \in Positions : wList[i].addr \in loyal => wList[i].weight = InitialWeight(wList[i].addr)

(* The configured weight "never changes after init": not so for a backend    *)
(* that was down or unlisted in between.                                     *)
WKnownWeights == \A i \in Positions : wList[i].addr \in known => wList[i].weight = InitialWeight(wList[i].addr)
=============================================================================
