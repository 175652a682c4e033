------------------------------ MODULE Collector ------------------------------
(***************************************************************************)
(* The Prometheus series of the HTTP gates (internal/metrics/collector.go  *)
(* and middleware.go) and what the program reads back from them.           *)
(*                                                                         *)
(* A histogram is what Gather returns of it: for every bucket the number   *)
(* of samples at or below its bound, and the number of samples in all.     *)
(* Gates of other protocols have no series and read as zero.               *)
(***************************************************************************)
EXTENDS Integers, Sequences

CONSTANTS Gates,      \* gate names of the configuration
          HttpGates,  \* those with series
          Bounds,     \* upper bounds of the finite buckets
          Loads,      \* bound: <<bucket, requests>> a step of traffic may be
          MaxServed   \* bound: steps of traffic

Buckets == 1..Len(Bounds)

ASSUME GatesAssumption == HttpGates \subseteq Gates
ASSUME BoundsAssumption ==
  /\ Bounds \in Seq(Nat) /\ Len(Bounds) > 0
  /\ \A i, j \in Buckets : i < j => Bounds[i] < Bounds[j]
  /\ Bounds[1] > 0
ASSUME LoadsAssumption == Loads \subseteq (1..Len(Bounds) + 1) \X Nat /\ MaxServed \in Nat

VARIABLES requests, \* centauri_requests_total of each gate, summed over the status codes
          buckets,  \* centauri_request_duration_seconds: cumulative bucket counts
          samples,  \* ... and the number of samples
          served    \* steps of traffic so far

series == <<requests, buckets, samples, served>>

(* InitGate makes the series of an HTTP gate, with a sample of zero seconds. *)
NoRequests == [g \in Gates |-> 0]
FirstSamples == [g \in Gates |-> IF g \in HttpGates THEN 1 ELSE 0]
FirstBuckets == [g \in Gates |-> [i \in Buckets |-> FirstSamples[g]]]
InitGates ==
  requests = NoRequests /\ samples = FirstSamples /\ buckets = FirstBuckets /\ served = 0

(* n requests end whose latency falls into bucket b, the last one being +Inf. *)
Serve(g, b, n) ==
  /\ g \in HttpGates /\ served < MaxServed
  /\ requests' = [requests EXCEPT ![g] = @ + n]
  /\ samples' = [samples EXCEPT ![g] = @ + n]
  /\ buckets' = [buckets EXCEPT ![g] = [i \in Buckets |-> IF i >= b THEN @[i] + n ELSE @[i]]]
  /\ served' = served + 1

-----------------------------------------------------------------------------
(* histogramP95, as a fraction.  The target of 0.95 * total is kept exact.   *)

Reached(g) == {i \in Buckets : 20 * buckets[g][i] >= 19 * samples[g]}
First(g) == CHOOSE i \in Reached(g) : \A j \in Reached(g) : i <= j
LowerBound(i) == IF i = 1 THEN 0 ELSE Bounds[i - 1]
LowerCount(g, i) == IF i = 1 THEN 0 ELSE buckets[g][i - 1]

(* Wrong variant: the fraction of the bucket is taken of the whole histogram. *)
InterpolateTotal(g, i) ==
  LET width == buckets[g][i] - LowerCount(g, i)
  IN [num |-> LowerBound(i) * 20 * width + (Bounds[i] - LowerBound(i)) * 19 * samples[g],
      den |-> 20 * width]

(* Where the target lies between the bounds of bucket i.                     *)
Interpolate(g, i) ==
  LET width == buckets[g][i] - LowerCount(g, i)
  IN IF width = 0 THEN [num |-> Bounds[i], den |-> 1]
     ELSE [num |-> LowerBound(i) * 20 * width
                     + (Bounds[i] - LowerBound(i)) * (19 * samples[g] - 20 * LowerCount(g, i)),
           den |-> 20 * width]

P95(g) ==
  IF samples[g] = 0 THEN [num |-> 0, den |-> 1]
  ELSE IF Reached(g) = {} THEN [num |-> Bounds[Len(Bounds)], den |-> 1]
  ELSE Interpolate(g, First(g))

Above(x, limit) == x.num > limit * x.den

-----------------------------------------------------------------------------
SeriesOK ==
  /\ requests \in [Gates -> Nat]
  /\ samples \in [Gates -> Nat]
  /\ buckets \in [Gates -> [Buckets -> Nat]]
  /\ served \in 0..MaxServed

(* The estimate against its definition: it is at or below the bound of a     *)
(* bucket exactly if 95 % of the samples are, but for the last bound, above  *)
(* which it never goes: a latency limit beyond that bound never fires, and   *)
(* the samples are those since the start of the process, so an hour of slow  *)
(* requests is forgotten only under twenty times as many fast ones.          *)
P95Share ==
  \A g \in Gates : \A i \in Buckets :
    ~Above(P95(g), Bounds[i]) <=> 20 * buckets[g][i] >= 19 * samples[g] \/ i = Len(Bounds)
=============================================================================
