----------------------------- MODULE Oracle_proofs -----------------------------
(***************************************************************************)
(* Theorems about the Oracle and the series it reads, for any gates,       *)
(* buckets, traffic, interval and threshold.                               *)
(***************************************************************************)
EXTENDS Oracle, WellFoundedInduction, TLAPS

-----------------------------------------------------------------------------
(* The estimate of the 95th percentile.                                      *)

LEMMA LeastExists ==
  ASSUME NEW T, T \subseteq Nat, T # {}
  PROVE  \E x \in T : \A y \in T : x <= y
<1> DEFINE R == OpToRel(<, Nat)
<1>1. IsWellFoundedOn(R, Nat)
  BY NatLessThanWellFounded
<1> HIDE DEF R
<1>2. PICK x \in T : \A y \in T : ~(<<y, x>> \in R)
  BY <1>1, WFMin
<1>3. ASSUME NEW y \in T, y < x PROVE FALSE
  <2>1. <<y, x>> \in Nat \X Nat /\ <<y, x>>[1] < <<y, x>>[2]
    BY <1>3
  <2>2. <<y, x>> \in R
    BY <2>1 DEF R, OpToRel
  <2> QED BY <1>2, <2>2
<1>4. \A y \in T : x <= y
  BY <1>3
<1> QED BY <1>4

(* Between the bounds of a bucket: the interpolated value num / den lies     *)
(* above its lower bound and not above its upper one.                        *)
LEMMA Between ==
  ASSUME NEW lo \in Nat, NEW hi \in Nat, lo < hi,
         NEW w \in Nat, NEW t \in Nat, 0 < t, t <= 20 * w, NEW b \in Nat
  PROVE  /\ lo * 20 * w + (hi - lo) * t \in Nat
         /\ hi <= b => ~(lo * 20 * w + (hi - lo) * t > b * (20 * w))
         /\ b <= lo => lo * 20 * w + (hi - lo) * t > b * (20 * w)
<1> DEFINE W == 20 * w
           d == hi - lo
<1>1. W \in Nat /\ d \in Nat /\ d > 0 /\ hi = lo + d /\ t <= W
  OBVIOUS
<1>2. lo * 20 * w = lo * W
  OBVIOUS
<1> HIDE DEF W, d
<1>3. d * t <= d * W /\ d * t > 0 /\ d * t \in Nat /\ lo * W \in Nat
  BY <1>1
<1>4. (lo + d) * W = lo * W + d * W
  BY <1>1
<1>5. hi <= b => hi * W <= b * W
  BY <1>1
<1>6. b <= lo => b * W <= lo * W
  BY <1>1
<1>7. b * W \in Nat /\ d * W \in Nat
  BY <1>1
<1>8. /\ lo * W + d * t \in Nat
      /\ hi <= b => ~(lo * W + d * t > b * W)
      /\ b <= lo => lo * W + d * t > b * W
  <2>1. hi * W = lo * W + d * W
    BY <1>1, <1>4
  <2> DEFINE x == d * t
             y == d * W
             z == lo * W
             u == b * W
             v == hi * W
  <2>2. x <= y /\ x > 0 /\ x \in Nat /\ z \in Nat /\ v = z + y /\ u \in Nat /\ y \in Nat
        /\ (hi <= b => v <= u) /\ (b <= lo => u <= z)
    BY <1>3, <1>5, <1>6, <1>7, <2>1
  <2> HIDE DEF x, y, z, u, v
  <2>3. z + x \in Nat /\ (hi <= b => ~(z + x > u)) /\ (b <= lo => z + x > u)
    BY <2>2
  <2> QED BY <2>3 DEF x, z, u
<1> QED BY <1>2, <1>8 DEF W, d

LEMMA BoundsType ==
  /\ Len(Bounds) \in Nat \ {0} /\ Len(Bounds) \in Buckets /\ 1 \in Buckets
  /\ \A i \in Buckets : Bounds[i] \in Nat /\ Bounds[i] > 0
  /\ \A i, j \in Buckets : i <= j => Bounds[i] <= Bounds[j]
<1>1. Len(Bounds) \in Nat \ {0} /\ Bounds \in Seq(Nat)
  BY BoundsAssumption
<1>2. Len(Bounds) \in Buckets /\ 1 \in Buckets
  BY <1>1 DEF Buckets
<1>3. \A i \in Buckets : Bounds[i] \in Nat
  BY <1>1 DEF Buckets
<1>4. ASSUME NEW i \in Buckets, NEW j \in Buckets, i <= j PROVE Bounds[i] <= Bounds[j]
  <2>1. CASE i = j
    BY <1>3, <2>1
  <2>2. CASE i < j
    BY <1>3, <2>2, BoundsAssumption
  <2> QED BY <1>4, <2>1, <2>2 DEF Buckets
<1>5. ASSUME NEW i \in Buckets PROVE Bounds[i] > 0
  BY <1>2, <1>3, <1>4, BoundsAssumption DEF Buckets
<1> QED BY <1>1, <1>2, <1>3, <1>4, <1>5

(* What a histogram always is: cumulative. *)
Cumulative ==
  \A g \in Gates : \A i \in Buckets :
    /\ buckets[g][i] <= samples[g]
    /\ \A j \in Buckets : i <= j => buckets[g][i] <= buckets[g][j]

LEMMA FirstReached ==
  ASSUME NEW g \in Gates, Reached(g) # {}
  PROVE  First(g) \in Reached(g) /\ \A j \in Reached(g) : First(g) <= j
<1>1. Reached(g) \subseteq Nat
  BY DEF Reached, Buckets
<1>2. \E i \in Reached(g) : \A j \in Reached(g) : i <= j
  BY <1>1, LeastExists
<1> QED BY <1>2 DEF First

(* The bucket that is interpolated in is never empty, and the target lies    *)
(* above its predecessor's count.                                            *)
LEMMA InFirstBucket ==
  ASSUME SeriesOK, Cumulative, NEW g \in Gates, samples[g] > 0,
         NEW f \in Reached(g), \A j \in Reached(g) : f <= j
  PROVE  LET lower == LowerCount(g, f)
             width == buckets[g][f] - lower
         IN /\ f \in Buckets /\ lower \in Nat /\ width \in Nat \ {0}
            /\ 19 * samples[g] - 20 * lower \in Nat \ {0}
            /\ 19 * samples[g] - 20 * lower <= 20 * width
            /\ LowerBound(f) \in Nat /\ LowerBound(f) < Bounds[f] /\ Bounds[f] \in Nat
<1>1. /\ f \in Buckets /\ 20 * buckets[g][f] >= 19 * samples[g]
      /\ buckets[g][f] \in Nat /\ samples[g] \in Nat
  BY DEF Reached, SeriesOK
<1>2. CASE f = 1
  <2>1. LowerCount(g, f) = 0 /\ LowerBound(f) = 0
    BY <1>2 DEF LowerCount, LowerBound
  <2>2. Bounds[f] \in Nat /\ Bounds[f] > 0
    BY <1>1, BoundsType
  <2> QED BY <1>1, <2>1, <2>2
<1>3. CASE f # 1
  <2>1. f - 1 \in Buckets /\ f - 1 < f /\ f - 1 \notin Reached(g)
    BY <1>1, <1>3 DEF Reached, Buckets
  <2>2. buckets[g][f - 1] \in Nat /\ 20 * buckets[g][f - 1] < 19 * samples[g]
    BY <1>1, <2>1 DEF Reached, SeriesOK
  <2>3. Bounds[f - 1] < Bounds[f] /\ Bounds[f - 1] \in Nat /\ Bounds[f] \in Nat
    BY <1>1, <2>1, BoundsType, BoundsAssumption
  <2>4. LowerCount(g, f) = buckets[g][f - 1] /\ LowerBound(f) = Bounds[f - 1]
    BY <1>3 DEF LowerCount, LowerBound
  <2> QED BY <1>1, <2>2, <2>3, <2>4
<1> QED BY <1>2, <1>3

LEMMA P95ShareHolds ==
  ASSUME SeriesOK, Cumulative
  PROVE  P95Share
<1> SUFFICES ASSUME NEW g \in Gates, NEW i \in Buckets
             PROVE  ~Above(P95(g), Bounds[i]) <=>
                      20 * buckets[g][i] >= 19 * samples[g] \/ i = Len(Bounds)
  BY DEF P95Share
<1>1. /\ samples[g] \in Nat /\ buckets[g][i] \in Nat /\ buckets[g][i] <= samples[g]
      /\ i \in 1..Len(Bounds) /\ Len(Bounds) \in Nat
      /\ \A j \in Buckets : Bounds[j] \in Nat
      /\ Len(Bounds) \in Buckets
  BY BoundsType DEF SeriesOK, Cumulative, Buckets
<1>2. CASE samples[g] = 0
  <2>1. P95(g) = [num |-> 0, den |-> 1]
    BY <1>2 DEF P95
  <2> QED BY <1>1, <1>2, <2>1 DEF Above
<1>3. CASE samples[g] # 0 /\ Reached(g) = {}
  <2>1. P95(g) = [num |-> Bounds[Len(Bounds)], den |-> 1]
    BY <1>3 DEF P95
  <2>2. Above(P95(g), Bounds[i]) <=> Bounds[Len(Bounds)] > Bounds[i]
    BY <1>1, <2>1 DEF Above
  <2>3. Bounds[Len(Bounds)] > Bounds[i] <=> i # Len(Bounds)
    <3>1. CASE i = Len(Bounds)
      BY <1>1, <3>1
    <3>2. CASE i < Len(Bounds)
      BY <1>1, <3>2, BoundsAssumption
    <3> QED BY <1>1, <3>1, <3>2
  <2>4. ~(20 * buckets[g][i] >= 19 * samples[g])
    BY <1>3 DEF Reached
  <2> QED BY <2>2, <2>3, <2>4
<1>4. CASE samples[g] # 0 /\ Reached(g) # {}
  <2> DEFINE f == First(g)
             lower == LowerCount(g, f)
             width == buckets[g][f] - lower
             target == 19 * samples[g] - 20 * lower
  <2>1. f \in Reached(g) /\ \A j \in Reached(g) : f <= j
    BY <1>4, FirstReached
  <2>2. P95(g) = Interpolate(g, f)
    BY <1>4 DEF P95
  <2>3. samples[g] > 0
    BY <1>1, <1>4
  <2> HIDE DEF f
  <2>4. /\ f \in Buckets /\ lower \in Nat /\ width \in Nat \ {0}
        /\ target \in Nat \ {0} /\ target <= 20 * width
        /\ LowerBound(f) \in Nat /\ LowerBound(f) < Bounds[f] /\ Bounds[f] \in Nat
    BY <2>1, <2>3, InFirstBucket
  <2>5. P95(g) = [num |-> LowerBound(f) * 20 * width + (Bounds[f] - LowerBound(f)) * target,
                  den |-> 20 * width]
    BY <2>2, <2>4 DEF Interpolate
  <2> HIDE DEF width, target
  <2>6. /\ Bounds[f] <= Bounds[i] => ~Above(P95(g), Bounds[i])
        /\ Bounds[i] <= LowerBound(f) => Above(P95(g), Bounds[i])
    <3>1. 0 < target /\ width \in Nat /\ target \in Nat /\ Bounds[i] \in Nat
      BY <1>1, <2>4
    <3>2. /\ Bounds[f] <= Bounds[i] =>
               ~(LowerBound(f) * 20 * width + (Bounds[f] - LowerBound(f)) * target
                   > Bounds[i] * (20 * width))
          /\ Bounds[i] <= LowerBound(f) =>
               LowerBound(f) * 20 * width + (Bounds[f] - LowerBound(f)) * target
                   > Bounds[i] * (20 * width)
      BY <2>4, <3>1, Between
    <3> QED BY <2>5, <3>2 DEF Above
  <2>7. CASE f <= i
    <3>1. Bounds[f] <= Bounds[i]
      BY <2>4, <2>7, BoundsType
    <3>2. buckets[g][f] <= buckets[g][i] /\ buckets[g][f] \in Nat
      BY <2>4, <2>7 DEF Cumulative, SeriesOK
    <3>3. 20 * buckets[g][f] >= 19 * samples[g]
      BY <2>1 DEF Reached
    <3> QED BY <1>1, <2>6, <3>1, <3>2, <3>3
  <2>8. CASE i < f
    <3>1. i \notin Reached(g) /\ i # Len(Bounds) /\ f - 1 \in Buckets /\ i <= f - 1 /\ f # 1
      BY <1>1, <2>1, <2>4, <2>8 DEF Buckets
    <3>2. Bounds[i] <= Bounds[f - 1] /\ LowerBound(f) = Bounds[f - 1]
      BY <3>1, BoundsType DEF LowerBound
    <3>3. ~(20 * buckets[g][i] >= 19 * samples[g])
      BY <3>1 DEF Reached
    <3> QED BY <2>6, <3>1, <3>2, <3>3
  <2> QED BY <1>1, <2>4, <2>7, <2>8 DEF Buckets
<1> QED BY <1>2, <1>3, <1>4
-----------------------------------------------------------------------------
(* The inductive invariant.                                                  *)

States == {"idle", "check", "analyze", "build", "decide", "call", "failed"}
AllTotals == [Gates -> Nat] \cup {Nothing}
Entries == [total : Nat, rate : [requests : Nat, per : 0..Never], ended : Nat, hot : BOOLEAN]
AllSnaps == [Gates -> Entries] \cup {Nothing}

Shapes == /\ pc \in [Procs -> States] /\ prev \in [Procs -> AllTotals]
          /\ interval \in [Procs -> 0..Never] /\ since \in [Procs -> [Gates -> Nat]]
          /\ snaps \in [Procs -> AllSnaps]

(* Totals that are not ahead of the counters. *)
Behind(s) == \A g \in DOMAIN s : s[g] <= requests[g]

(* A snapshot that is not ahead of the counters either, and whose rates hide *)
(* no request.                                                               *)
Sound(s) == \A g \in DOMAIN s : s[g].total <= requests[g] /\ s[g].ended <= s[g].rate.requests

(* The copied totals count no request that ended after lastCall was set.     *)
Covered(before, counted) == \A g \in Gates : TotalIn(before, g) <= counted[g]

LocalOK(p) ==
  /\ p = "ticker" => pc[p] # "check"
  /\ Behind(prev[p]) /\ Behind(since[p]) /\ Covered(prev[p], since[p])
  /\ Sound(snaps[p])
  /\ p \notin met /\ pc[p] = "call" => Hot(snaps[p]) \/ age >= Interval

Clocks == age \in 0..Never /\ due \subseteq Procs /\ phase \in 0..Interval - 1 /\ met \subseteq Procs
Memory == /\ lastSnaps \in AllTotals /\ Behind(lastSnaps)
          /\ atCall \in [Gates -> Nat] /\ Behind(atCall)
          /\ Covered(lastSnaps, atCall)

IInv == /\ SeriesOK /\ Cumulative /\ Clocks /\ Memory
        /\ Shapes /\ \A p \in Procs : LocalOK(p)

LEMMA NothingType ==
  /\ Nothing \in AllTotals /\ Nothing \in AllSnaps /\ DOMAIN Nothing = {}
  /\ NoLocals \in [Procs -> AllTotals] /\ NoLocals \in [Procs -> AllSnaps]
  /\ \A p \in Procs : NoLocals[p] = Nothing
  /\ NoRequests \in [Gates -> Nat] /\ \A g \in Gates : NoRequests[g] = 0
BY DEF AllTotals, AllSnaps, Nothing, NoLocals, NoRequests

LEMMA NothingSound ==
  /\ Behind(Nothing) /\ Sound(Nothing)
  /\ \A counted \in [Gates -> Nat] : Covered(Nothing, counted)
  /\ SeriesOK => Behind(NoRequests)
BY NothingType DEF Behind, Sound, Covered, TotalIn, SeriesOK

LEMMA FirstSeries ==
  ASSUME requests = NoRequests, samples = FirstSamples, buckets = FirstBuckets, served \in 0..MaxServed
  PROVE  SeriesOK /\ Cumulative
BY LoadsAssumption DEF SeriesOK, Cumulative, NoRequests, FirstSamples, FirstBuckets

LEMMA IInvInit == OracleInit => IInv
<1> SUFFICES ASSUME OracleInit PROVE IInv
  OBVIOUS
<1> USE NothingType, OracleAssumption
<1>1. SeriesOK /\ Cumulative
  BY FirstSeries, LoadsAssumption DEF OracleInit, InitGates
<1>2. Clocks
  BY DEF OracleInit, Clocks, Never
<1>3. Memory
  BY <1>1, NothingSound DEF OracleInit, Memory
<1>4. interval \in [Procs -> 0..Never] /\ since \in [Procs -> [Gates -> Nat]]
  BY DEF OracleInit, NoCopies, Never
<1>5. Shapes
  BY <1>4 DEF OracleInit, NoCopies, Shapes, States
<1>6. ASSUME NEW p \in Procs PROVE LocalOK(p)
  <2>1. pc[p] = "idle" /\ prev[p] = Nothing /\ since[p] = NoRequests /\ snaps[p] = Nothing
    BY DEF OracleInit, NoCopies
  <2> QED BY <1>1, <2>1, NothingSound DEF LocalOK
<1> QED BY <1>1, <1>2, <1>3, <1>5, <1>6 DEF IInv

-----------------------------------------------------------------------------
LEMMA ServeKept ==
  ASSUME IInv, NEW g \in HttpGates, NEW b \in Nat, NEW n \in Nat, Serve(g, b, n)
  PROVE  SeriesOK' /\ Cumulative' /\ \A h \in Gates : requests[h] <= requests'[h]
<1>1. /\ requests \in [Gates -> Nat] /\ samples \in [Gates -> Nat]
      /\ buckets \in [Gates -> [Buckets -> Nat]] /\ served \in 0..MaxServed /\ g \in Gates
      /\ Buckets \subseteq Nat /\ MaxServed \in Nat
  BY GatesAssumption, LoadsAssumption DEF IInv, SeriesOK, Buckets
<1>2. /\ served' \in 0..MaxServed
      /\ requests' = [requests EXCEPT ![g] = requests[g] + n]
      /\ samples' = [samples EXCEPT ![g] = samples[g] + n]
      /\ buckets' = [buckets EXCEPT ![g] =
                       [i \in Buckets |-> IF i >= b THEN buckets[g][i] + n ELSE buckets[g][i]]]
  BY <1>1 DEF Serve
<1>3. requests' \in [Gates -> Nat] /\ \A h \in Gates : requests[h] <= requests'[h]
  BY <1>1, <1>2
<1>4. samples' \in [Gates -> Nat] /\ samples'[g] = samples[g] + n
      /\ \A h \in Gates \ {g} : samples'[h] = samples[h]
  BY <1>1, <1>2
<1>5. [i \in Buckets |-> IF i >= b THEN buckets[g][i] + n ELSE buckets[g][i]] \in [Buckets -> Nat]
  BY <1>1
<1>6. /\ buckets' \in [Gates -> [Buckets -> Nat]]
      /\ \A h \in Gates \ {g} : buckets'[h] = buckets[h]
      /\ \A i \in Buckets : buckets'[g][i] = IF i >= b THEN buckets[g][i] + n ELSE buckets[g][i]
  BY <1>1, <1>2, <1>5
<1>7. ASSUME NEW h \in Gates, NEW i \in Buckets
      PROVE  /\ buckets'[h][i] <= samples'[h]
             /\ \A j \in Buckets : i <= j => buckets'[h][i] <= buckets'[h][j]
  <2>1. /\ buckets[h][i] <= samples[h] /\ samples[h] \in Nat
        /\ \A j \in Buckets : buckets[h][j] \in Nat /\ (i <= j => buckets[h][i] <= buckets[h][j])
    BY <1>1 DEF IInv, Cumulative
  <2>2. CASE h = g
    <3>1. buckets'[g][i] <= samples'[g]
      BY <1>4, <1>6, <2>1, <2>2
    <3>2. ASSUME NEW j \in Buckets, i <= j PROVE buckets'[g][i] <= buckets'[g][j]
      <4>1. buckets[g][i] <= buckets[g][j] /\ buckets[g][i] \in Nat /\ buckets[g][j] \in Nat
        BY <2>1, <2>2, <3>2
      <4>2. /\ buckets'[g][i] = IF i >= b THEN buckets[g][i] + n ELSE buckets[g][i]
            /\ buckets'[g][j] = IF j >= b THEN buckets[g][j] + n ELSE buckets[g][j]
        BY <1>6
      <4>3. i >= b => j >= b
        BY <1>1, <3>2
      <4> QED BY <4>1, <4>2, <4>3
    <3> QED BY <2>2, <3>1, <3>2
  <2>3. CASE h # g
    BY <1>4, <1>6, <2>1, <2>3
  <2> QED BY <2>2, <2>3
<1> QED BY <1>2, <1>3, <1>4, <1>6, <1>7 DEF SeriesOK, Cumulative

(* What is remembered stays behind the counters when they grow. *)
LEMMA TrafficKept ==
  ASSUME IInv, Traffic
  PROVE  IInv'
<1>1. PICK g \in HttpGates, l \in Loads : Serve(g, l[1], l[2])
  BY DEF Traffic
<1>2. l[1] \in Nat /\ l[2] \in Nat
  BY LoadsAssumption
<1>3. SeriesOK' /\ Cumulative' /\ \A h \in Gates : requests[h] <= requests'[h]
  BY <1>1, <1>2, ServeKept
<1>4. UNCHANGED <<age, due, phase, lastSnaps, atCall, pc, prev, interval, since, snaps, met>>
  BY DEF Traffic, clock, memory, locals, copied
<1>5. Clocks' /\ Shapes'
  BY <1>4 DEF IInv, Clocks, Shapes
<1>6. requests \in [Gates -> Nat] /\ requests' \in [Gates -> Nat]
  BY <1>3 DEF IInv, SeriesOK
<1>7. ASSUME NEW s \in AllTotals, Behind(s)
      PROVE  \A h \in DOMAIN s : s[h] <= requests'[h]
  <2> SUFFICES ASSUME NEW h \in DOMAIN s PROVE s[h] <= requests'[h]
    OBVIOUS
  <2>1. h \in Gates /\ s[h] \in Nat
    BY NothingType DEF AllTotals
  <2> QED BY <1>3, <1>6, <1>7, <2>1 DEF Behind
<1>8. ASSUME NEW s \in AllSnaps, Sound(s)
      PROVE  \A h \in DOMAIN s : s[h].total <= requests'[h] /\ s[h].ended <= s[h].rate.requests
  <2> SUFFICES ASSUME NEW h \in DOMAIN s PROVE s[h].total <= requests'[h] /\ s[h].ended <= s[h].rate.requests
    OBVIOUS
  <2>1. h \in Gates /\ s[h].total \in Nat
    BY NothingType DEF AllSnaps, Entries
  <2> QED BY <1>3, <1>6, <1>8, <2>1 DEF Sound
<1>9. Memory'
  <2>1. atCall \in AllTotals
    BY DEF IInv, Memory, AllTotals
  <2> QED BY <1>4, <1>7, <2>1 DEF IInv, Memory, Behind, Covered, TotalIn
<1>10. ASSUME NEW p \in Procs PROVE LocalOK(p)'
  <2>1. prev[p] \in AllTotals /\ since[p] \in AllTotals /\ snaps[p] \in AllSnaps /\ LocalOK(p)
    BY DEF IInv, Shapes, AllTotals
  <2>2. Behind(prev[p])' /\ Behind(since[p])'
    BY <1>4, <1>7, <2>1 DEF LocalOK, Behind
  <2>3. Sound(snaps[p])'
    BY <1>4, <1>8, <2>1 DEF LocalOK, Sound
  <2> QED BY <1>4, <2>1, <2>2, <2>3 DEF LocalOK, Covered, TotalIn, Hot
<1> QED BY <1>3, <1>5, <1>9, <1>10 DEF IInv

LEMMA TickKept ==
  ASSUME IInv, Tick
  PROVE  IInv'
<1>1. /\ UNCHANGED <<requests, buckets, samples, served, lastSnaps, atCall, pc, prev, interval, since,
                    snaps, met>>
      /\ age' = IF age < Interval THEN age + 1 ELSE age
      /\ phase' = (phase + 1) % Interval
      /\ due' = due \cup {"flush"} \cup (IF phase' = 0 THEN {"ticker"} ELSE {})
  BY DEF Tick, series, memory, locals, copied
<1>2. age \in 0..Never /\ due \subseteq Procs /\ phase \in 0..Interval - 1 /\ Interval \in Nat \ {0}
      /\ met \subseteq Procs
  BY OracleAssumption DEF IInv, Clocks
<1>3. phase + 1 \in Nat /\ (phase + 1) % Interval \in 0..Interval - 1
  BY <1>2
<1>4. Clocks' /\ (age >= Interval => age' >= Interval)
  BY <1>1, <1>2, <1>3 DEF Clocks, Procs, Never
<1>5. SeriesOK' /\ Cumulative' /\ Memory' /\ Shapes'
  BY <1>1 DEF IInv, SeriesOK, Cumulative, Memory, Behind, Covered, TotalIn, Shapes
<1>6. \A p \in Procs : LocalOK(p)'
  BY <1>1, <1>4 DEF IInv, LocalOK, Behind, Sound, Covered, TotalIn, Hot
<1> QED BY <1>4, <1>5, <1>6 DEF IInv
-----------------------------------------------------------------------------
(* A step of goroutine p that changes neither the counters nor what the      *)
(* Oracle remembers: it goes to s, with its copies and `taken` in its hands. *)
OwnStep(p, s, before, secs, counted, taken) ==
  /\ UNCHANGED <<requests, buckets, samples, served, age, phase, lastSnaps, atCall>>
  /\ due' \subseteq due
  /\ pc' = [pc EXCEPT ![p] = s]
  /\ prev' = [prev EXCEPT ![p] = before]
  /\ interval' = [interval EXCEPT ![p] = secs]
  /\ since' = [since EXCEPT ![p] = counted]
  /\ snaps' = [snaps EXCEPT ![p] = taken]
  /\ met' \subseteq met /\ \A q \in Procs \ {p} : q \in met' <=> q \in met
  /\ p = "ticker" => s # "check"
  /\ Behind(before) /\ Behind(counted) /\ Covered(before, counted)
  /\ Sound(taken)
  /\ p \notin met' /\ s = "call" => Hot(taken) \/ age >= Interval

LEMMA OwnStepKept ==
  ASSUME IInv, NEW p \in Procs, NEW s \in States, NEW before \in AllTotals, NEW secs \in 0..Never,
         NEW counted \in [Gates -> Nat], NEW taken \in AllSnaps,
         OwnStep(p, s, before, secs, counted, taken)
  PROVE  IInv'
<1> USE DEF OwnStep
<1>1. SeriesOK' /\ Cumulative' /\ Clocks' /\ Memory'
  BY DEF IInv, SeriesOK, Cumulative, Clocks, Memory, Behind, Covered, TotalIn
<1>2. /\ pc \in [Procs -> States] /\ prev \in [Procs -> AllTotals] /\ snaps \in [Procs -> AllSnaps]
      /\ interval \in [Procs -> 0..Never] /\ since \in [Procs -> [Gates -> Nat]]
  BY DEF IInv, Shapes
<1>3. /\ pc' \in [Procs -> States] /\ prev' \in [Procs -> AllTotals] /\ snaps' \in [Procs -> AllSnaps]
      /\ interval' \in [Procs -> 0..Never]
  BY <1>2
<1>4. since' \in [Procs -> [Gates -> Nat]]
  BY <1>2
<1>5. Shapes'
  BY <1>3, <1>4 DEF Shapes
<1>6. pc'[p] = s /\ prev'[p] = before /\ since'[p] = counted /\ snaps'[p] = taken
  BY <1>2
<1>7. \A q \in Procs \ {p} : pc'[q] = pc[q] /\ prev'[q] = prev[q] /\ since'[q] = since[q] /\ snaps'[q] = snaps[q]
  BY <1>2
<1>8. LocalOK(p)'
  BY <1>6 DEF LocalOK, Behind, Sound, Covered, TotalIn, Hot
<1>9. ASSUME NEW q \in Procs, q # p PROVE LocalOK(q)'
  BY <1>7, <1>9 DEF IInv, LocalOK, Behind, Sound, Covered, TotalIn, Hot
<1> QED BY <1>1, <1>5, <1>8, <1>9 DEF IInv

(* The snapshot of the moment: no counter is behind the totals it counts     *)
(* from, and those count nothing that ended after `counted`.                 *)
LEMMA SnapshotType ==
  ASSUME SeriesOK, NEW before \in AllTotals, Behind(before), NEW secs \in 0..Never,
         NEW counted \in [Gates -> Nat], Behind(counted), Covered(before, counted),
         NEW s \in Snapshots(before, secs, counted)
  PROVE  s \in AllSnaps /\ Sound(s)
<1>1. CASE s = Nothing
  BY <1>1, NothingType, NothingSound
<1>2. CASE s = Snapshot(before, secs, counted)
  <2>1. ASSUME NEW g \in Gates
        PROVE  /\ requests[g] \in Nat /\ TotalIn(before, g) \in Nat /\ TotalIn(before, g) <= requests[g]
               /\ counted[g] \in Nat /\ counted[g] <= requests[g] /\ TotalIn(before, g) <= counted[g]
    <3>1. TotalIn(before, g) \in Nat /\ TotalIn(before, g) <= requests[g]
      <4>1. CASE g \in DOMAIN before
        BY <4>1, NothingType DEF SeriesOK, TotalIn, AllTotals, Behind
      <4>2. CASE g \notin DOMAIN before
        BY <4>2 DEF SeriesOK, TotalIn
      <4> QED BY <4>1, <4>2
    <3> QED BY <3>1 DEF SeriesOK, Behind, Covered
  <2>2. ASSUME NEW g \in Gates
        PROVE  /\ Delta(g, before) \in Nat /\ requests[g] - counted[g] \in Nat
               /\ requests[g] - counted[g] <= Delta(g, before)
    <3>1. Delta(g, before) = requests[g] - TotalIn(before, g)
      BY <2>1 DEF Delta
    <3> QED BY <2>1, <3>1
  <2>3. \A g \in Gates : Breaches(g) \in BOOLEAN
    BY DEF Breaches
  <2>4. /\ DOMAIN s = Gates
        /\ \A g \in Gates :
             s[g] = [total |-> requests[g], rate |-> [requests |-> Delta(g, before), per |-> secs],
                     ended |-> requests[g] - counted[g], hot |-> Breaches(g)]
    BY <1>2 DEF Snapshot
  <2>5. ASSUME NEW g \in Gates PROVE s[g] \in Entries
    <3>1. [requests |-> Delta(g, before), per |-> secs] \in [requests : Nat, per : 0..Never]
      BY <2>2
    <3> QED BY <2>1, <2>2, <2>3, <2>4, <3>1 DEF Entries
  <2>6. s \in [Gates -> Entries]
    <3>1. s = [g \in Gates |-> s[g]]
      BY <1>2 DEF Snapshot
    <3> HIDE DEF Entries
    <3> QED BY <2>5, <3>1
  <2>7. ASSUME NEW g \in Gates
        PROVE  s[g].total = requests[g] /\ s[g].ended <= s[g].rate.requests
    <3>1. /\ s[g].total = requests[g] /\ s[g].ended = requests[g] - counted[g]
          /\ s[g].rate = [requests |-> Delta(g, before), per |-> secs]
      BY <2>4
    <3> QED BY <2>2, <3>1
  <2> QED BY <2>1, <2>4, <2>6, <2>7 DEF AllSnaps, Sound
<1> QED BY <1>1, <1>2 DEF Snapshots

LEMMA Unpacked ==
  ASSUME IInv, NEW p \in Procs
  PROVE  /\ pc \in [Procs -> States] /\ prev \in [Procs -> AllTotals] /\ snaps \in [Procs -> AllSnaps]
         /\ interval \in [Procs -> 0..Never] /\ since \in [Procs -> [Gates -> Nat]]
         /\ prev[p] \in AllTotals /\ snaps[p] \in AllSnaps
         /\ interval[p] \in 0..Never /\ since[p] \in [Gates -> Nat]
         /\ LocalOK(p) /\ due \subseteq Procs /\ met \subseteq Procs
BY DEF IInv, Shapes, Clocks

(* A step that leaves goroutine p its copies. *)
LEMMA KeepsCopies ==
  ASSUME IInv, NEW p \in Procs, UNCHANGED copied
  PROVE  /\ prev' = [prev EXCEPT ![p] = prev[p]] /\ interval' = [interval EXCEPT ![p] = interval[p]]
         /\ since' = [since EXCEPT ![p] = since[p]]
         /\ Behind(prev[p]) /\ Behind(since[p]) /\ Covered(prev[p], since[p])
<1>1. prev' = prev /\ interval' = interval /\ since' = since
  BY DEF copied
<1>2. prev \in [Procs -> AllTotals] /\ interval \in [Procs -> 0..Never]
  BY Unpacked
<1>3. since \in [Procs -> [Gates -> Nat]] /\ LocalOK(p)
  BY Unpacked
<1>4. prev' = [prev EXCEPT ![p] = prev[p]] /\ interval' = [interval EXCEPT ![p] = interval[p]]
  BY <1>1, <1>2
<1>5. since' = [since EXCEPT ![p] = since[p]]
  BY <1>1, <1>3
<1> QED BY <1>3, <1>4, <1>5 DEF LocalOK

LEMMA KeepsSnaps ==
  ASSUME IInv, NEW p \in Procs, UNCHANGED snaps
  PROVE  snaps' = [snaps EXCEPT ![p] = snaps[p]] /\ Sound(snaps[p])
BY Unpacked DEF LocalOK

(* A step that keeps the copies of p, from any of the handlers. *)
LEMMA CopiesKept ==
  ASSUME IInv, NEW p \in Procs, NEW s \in States, NEW taken \in AllSnaps, Sound(taken),
         UNCHANGED <<requests, buckets, samples, served, age, phase, lastSnaps, atCall>>,
         UNCHANGED copied, due' \subseteq due,
         pc' = [pc EXCEPT ![p] = s], snaps' = [snaps EXCEPT ![p] = taken],
         met' \subseteq met, \A q \in Procs \ {p} : q \in met' <=> q \in met,
         p = "ticker" => s # "check",
         p \notin met' /\ s = "call" => Hot(taken) \/ age >= Interval
  PROVE  IInv'
<1>1. OwnStep(p, s, prev[p], interval[p], since[p], taken)
  BY KeepsCopies DEF OwnStep
<1> QED BY <1>1, Unpacked, OwnStepKept

LEMMA CallersKept ==
  ASSUME IInv, Flush \/ Check \/ Wake
  PROVE  IInv'
<1> USE DEF series, memory, clock, States
<1>1. CASE Flush
  <2>1. PICK s \in Snapshots(Nothing, 1, NoRequests) : snaps' = [snaps EXCEPT !["flush"] = s]
    BY <1>1 DEF Flush
  <2>2. SeriesOK /\ 1 \in 0..Never
    BY OracleAssumption DEF IInv, Never
  <2>3. s \in AllSnaps /\ Sound(s)
    BY <2>2, SnapshotType, NothingType, NothingSound
  <2>4. /\ "flush" \in Procs /\ due' = due \ {"flush"} /\ pc' = [pc EXCEPT !["flush"] = "check"]
        /\ UNCHANGED <<requests, buckets, samples, served, age, phase, lastSnaps, atCall>>
        /\ UNCHANGED copied /\ met' = met
    BY <1>1 DEF Flush, Procs, Goto
  <2> QED BY <2>1, <2>3, <2>4, CopiesKept
<1>2. CASE Check
  <2>1. PICK s \in {"analyze", "idle"} : pc' = [pc EXCEPT !["flush"] = s]
    BY <1>2 DEF Check, Goto
  <2>2. /\ "flush" \in Procs /\ snaps' = [snaps EXCEPT !["flush"] = Nothing]
        /\ UNCHANGED <<requests, buckets, samples, served, age, phase, due, lastSnaps, atCall>>
        /\ UNCHANGED copied /\ met' = met
    BY <1>2 DEF Check, Return, Procs
  <2> QED BY <2>1, <2>2, NothingType, NothingSound, CopiesKept
<1>3. CASE Wake
  <2>1. /\ "ticker" \in Procs /\ due' = due \ {"ticker"} /\ pc' = [pc EXCEPT !["ticker"] = "analyze"]
        /\ UNCHANGED <<requests, buckets, samples, served, age, phase, lastSnaps, atCall>>
        /\ UNCHANGED copied /\ UNCHANGED snaps /\ met' = met
    BY <1>3 DEF Wake, Procs, Goto
  <2> QED BY <2>1, Unpacked, KeepsSnaps, CopiesKept
<1> QED BY <1>1, <1>2, <1>3

-----------------------------------------------------------------------------
LEMMA AnalyzeKept ==
  ASSUME IInv, NEW p \in Procs, Begin(p) \/ Build(p) \/ Decide(p) \/ Fail(p) \/ FailLogged(p)
  PROVE  IInv'
<1> USE DEF series, memory, clock, States
<1>1. CASE Begin(p)
  <2>1. /\ prev' = [prev EXCEPT ![p] = lastSnaps] /\ interval' = [interval EXCEPT ![p] = age]
        /\ since' = [since EXCEPT ![p] = atCall] /\ pc' = [pc EXCEPT ![p] = "build"]
        /\ UNCHANGED <<requests, buckets, samples, served, age, phase, due, lastSnaps, atCall>>
        /\ UNCHANGED snaps /\ met' = met
    BY <1>1 DEF Begin, Goto
  <2>2. /\ lastSnaps \in AllTotals /\ Behind(lastSnaps) /\ age \in 0..Never
        /\ atCall \in [Gates -> Nat] /\ Behind(atCall) /\ Covered(lastSnaps, atCall)
    BY DEF IInv, Memory, Clocks
  <2>3. OwnStep(p, "build", lastSnaps, age, atCall, snaps[p])
    BY <2>1, <2>2, KeepsSnaps DEF OwnStep
  <2> QED BY <2>2, <2>3, Unpacked, OwnStepKept
<1>2. CASE Build(p)
  <2>1. PICK s \in Snapshots(prev[p], interval[p], since[p]) : snaps' = [snaps EXCEPT ![p] = s]
    BY <1>2 DEF Build
  <2>2. /\ prev' = [prev EXCEPT ![p] = Nothing] /\ interval' = [interval EXCEPT ![p] = 0]
        /\ since' = [since EXCEPT ![p] = NoRequests] /\ pc' = [pc EXCEPT ![p] = "decide"]
        /\ UNCHANGED <<requests, buckets, samples, served, age, phase, due, lastSnaps, atCall>>
        /\ met' = met
    BY <1>2 DEF Build, Goto
  <2>3. /\ prev[p] \in AllTotals /\ Behind(prev[p]) /\ interval[p] \in 0..Never
        /\ since[p] \in [Gates -> Nat] /\ Behind(since[p]) /\ Covered(prev[p], since[p])
    BY Unpacked DEF LocalOK
  <2>4. SeriesOK /\ 0 \in 0..Never
    BY OracleAssumption DEF IInv, Never
  <2>5. s \in AllSnaps /\ Sound(s)
    BY <2>3, <2>4, SnapshotType
  <2>6. OwnStep(p, "decide", Nothing, 0, NoRequests, s)
    BY <2>1, <2>2, <2>4, <2>5, NothingType, NothingSound DEF OwnStep
  <2> QED BY <2>4, <2>5, <2>6, NothingType, OwnStepKept
<1>3. CASE Decide(p)
  <2>1. /\ UNCHANGED <<requests, buckets, samples, served, age, phase, due, lastSnaps, atCall>>
        /\ UNCHANGED copied
    BY <1>3 DEF Decide, Return
  <2>2. CASE ShouldCall(snaps[p]) /\ pc' = [pc EXCEPT ![p] = "call"] /\ UNCHANGED snaps /\ met' = met
    <3>1. Hot(snaps[p]) \/ age >= Interval
      BY <2>2 DEF ShouldCall
    <3> QED BY <2>1, <2>2, <3>1, Unpacked, KeepsSnaps, CopiesKept
  <2>3. CASE /\ pc' = [pc EXCEPT ![p] = "idle"] /\ snaps' = [snaps EXCEPT ![p] = Nothing]
             /\ met' = met \ {p}
    BY <2>1, <2>3, NothingType, NothingSound, CopiesKept
  <2> QED BY <1>3, <2>2, <2>3 DEF Decide, Goto, Return
<1>4. CASE Fail(p)
  <2>1. /\ pc' = [pc EXCEPT ![p] = "failed"] /\ snaps' = [snaps EXCEPT ![p] = Nothing]
        /\ UNCHANGED <<requests, buckets, samples, served, age, phase, due, lastSnaps, atCall>>
        /\ UNCHANGED copied /\ met' = met \ {p}
    BY <1>4 DEF Fail, Goto, Return
  <2> QED BY <2>1, NothingType, NothingSound, CopiesKept
<1>5. CASE FailLogged(p)
  <2>1. /\ pc' = [pc EXCEPT ![p] = "idle"]
        /\ UNCHANGED <<requests, buckets, samples, served, age, phase, due, lastSnaps, atCall>>
        /\ UNCHANGED copied /\ UNCHANGED snaps /\ met' = met
    BY <1>5 DEF FailLogged, Goto
  <2> QED BY <2>1, Unpacked, KeepsSnaps, CopiesKept
<1> QED BY <1>1, <1>2, <1>3, <1>4, <1>5

-----------------------------------------------------------------------------
(* An answer is stored: the totals it leaves are not ahead of the counters   *)
(* of this moment, which is the one lastCall is set to.  Whoever analyses    *)
(* meanwhile has met it.                                                     *)
LEMMA AnswerKept ==
  ASSUME IInv, NEW p \in Procs, Answer(p)
  PROVE  IInv'
<1>1. /\ age' = 0 /\ lastSnaps' = Totals(snaps[p]) /\ atCall' = requests
      /\ UNCHANGED <<due, phase, requests, buckets, samples, served, prev, interval, since>>
      /\ pc' = [pc EXCEPT ![p] = "idle"] /\ snaps' = [snaps EXCEPT ![p] = Nothing]
      /\ met' = (met \cup {q \in Procs : pc[q] \in {"build", "decide", "call"}}) \ {p}
  BY DEF Answer, Return, Goto, series, copied
<1>2. /\ pc \in [Procs -> States] /\ snaps \in [Procs -> AllSnaps] /\ snaps[p] \in AllSnaps
      /\ LocalOK(p) /\ met \subseteq Procs
  BY Unpacked
<1>3. SeriesOK' /\ Cumulative' /\ Clocks'
  BY <1>1, <1>2, OracleAssumption DEF IInv, SeriesOK, Cumulative, Clocks, Never
<1>4. /\ pc' \in [Procs -> States] /\ snaps' \in [Procs -> AllSnaps]
      /\ pc'[p] = "idle" /\ snaps'[p] = Nothing
      /\ \A q \in Procs \ {p} : pc'[q] = pc[q] /\ snaps'[q] = snaps[q]
  BY <1>1, <1>2, NothingType DEF States
<1>5. Shapes'
  BY <1>1, <1>4 DEF IInv, Shapes
<1>6. /\ DOMAIN Totals(snaps[p]) = DOMAIN snaps[p]
      /\ \A g \in DOMAIN snaps[p] : Totals(snaps[p])[g] = snaps[p][g].total /\ snaps[p][g].total <= requests[g]
  BY <1>2 DEF Totals, LocalOK, Sound
<1>7. Totals(snaps[p]) \in AllTotals
  <2>1. CASE snaps[p] = Nothing
    <3>1. Totals(snaps[p]) = Nothing
      BY <2>1, <1>6, NothingType DEF Totals, Nothing
    <3> QED BY <3>1, NothingType
  <2>2. CASE snaps[p] \in [Gates -> Entries]
    <3>1. \A g \in Gates : snaps[p][g].total \in Nat
      BY <2>2 DEF Entries
    <3>2. Totals(snaps[p]) \in [Gates -> Nat]
      BY <2>2, <3>1 DEF Totals
    <3> QED BY <3>2 DEF AllTotals
  <2> QED BY <1>2, <2>1, <2>2 DEF AllSnaps
<1>8. Memory'
  <2>1. requests \in [Gates -> Nat]
    BY DEF IInv, SeriesOK
  <2>2. Behind(lastSnaps)' /\ Behind(atCall)'
    BY <1>1, <1>6, <2>1 DEF Behind
  <2>3. \A g \in Gates : TotalIn(Totals(snaps[p]), g) <= requests[g]
    BY <1>6, <2>1 DEF TotalIn
  <2>4. Covered(lastSnaps, atCall)'
    BY <1>1, <2>3 DEF Covered, TotalIn
  <2> QED BY <1>1, <1>7, <2>1, <2>2, <2>4 DEF Memory
<1>9. ASSUME NEW q \in Procs PROVE Behind(prev[q])' /\ Behind(since[q])' /\ Covered(prev[q], since[q])'
  BY <1>1 DEF IInv, LocalOK, Behind, Covered, TotalIn
<1>10. LocalOK(p)'
  <2>1. Sound(snaps[p])'
    BY <1>4, NothingType DEF Sound
  <2> QED BY <1>4, <1>9, <2>1 DEF LocalOK
<1>11. ASSUME NEW q \in Procs, q # p PROVE LocalOK(q)'
  <2>1. LocalOK(q) /\ pc'[q] = pc[q] /\ snaps'[q] = snaps[q]
    BY <1>4, <1>11 DEF IInv
  <2>2. q \notin met' => pc[q] # "call"
    BY <1>1, <1>11
  <2>3. Sound(snaps[q])'
    BY <1>1, <2>1 DEF LocalOK, Sound
  <2> QED BY <1>9, <2>1, <2>2, <2>3 DEF LocalOK
<1> QED BY <1>3, <1>5, <1>8, <1>10, <1>11 DEF IInv

-----------------------------------------------------------------------------
LEMMA IInvInductive == IInv /\ [OracleNext]_oracleVars => IInv'
<1> SUFFICES ASSUME IInv, [OracleNext]_oracleVars PROVE IInv'
  OBVIOUS
<1>1. CASE UNCHANGED oracleVars
  <2>1. SeriesOK' /\ Cumulative' /\ Clocks' /\ Memory' /\ Shapes'
    BY <1>1 DEF oracleVars, series, IInv, SeriesOK, Cumulative, Clocks, Memory, Behind, Covered, TotalIn, Shapes
  <2>2. \A p \in Procs : LocalOK(p)'
    BY <1>1 DEF oracleVars, series, IInv, LocalOK, Behind, Sound, Covered, TotalIn, Hot
  <2> QED BY <2>1, <2>2 DEF IInv
<1>2. ASSUME NEW p \in Procs, Analyze(p) PROVE IInv'
  BY <1>2, AnalyzeKept, AnswerKept DEF Analyze
<1> QED BY <1>1, <1>2, TrafficKept, TickKept, CallersKept DEF OracleNext

LEMMA IInvAlways == OracleSpec => []IInv
BY IInvInit, IInvInductive, PTL DEF OracleSpec

(* Every reachable state is well typed, and nothing the Oracle remembers is  *)
(* ahead of a counter, whatever analyses overlap: the guard of buildSnapshot *)
(* against a counter reset (aggregator.go:54) is not needed.                 *)
THEOREM TypeCorrect == OracleSpec => []OracleTypeOK
<1>1. ASSUME IInv, NEW s \in AllTotals, Behind(s) PROVE TotalsOK(s)
  BY <1>1 DEF AllTotals, TotalsOK, Behind
<1>2. ASSUME IInv, NEW p \in Procs PROVE TotalsOK(prev[p]) /\ TotalsOK(since[p]) /\ SnapshotsOK(snaps[p])
  <2>1. prev[p] \in AllTotals /\ since[p] \in AllTotals /\ snaps[p] \in AllSnaps /\ LocalOK(p)
    BY <1>2, Unpacked DEF AllTotals
  <2>2. TotalsOK(prev[p]) /\ TotalsOK(since[p])
    BY <1>1, <1>2, <2>1 DEF LocalOK
  <2> QED BY <2>1, <2>2 DEF SnapshotsOK, AllSnaps, Entries
<1>3. ASSUME IInv PROVE pc["ticker"] # "check"
  BY <1>3 DEF IInv, LocalOK, Procs
<1>4. ASSUME IInv PROVE TotalsOK(lastSnaps) /\ TotalsOK(atCall)
  BY <1>1, <1>4 DEF IInv, Memory, AllTotals
<1>5. IInv => OracleTypeOK
  BY <1>2, <1>3, <1>4 DEF IInv, Clocks, Shapes, States, OracleTypeOK
<1> QED BY <1>5, IInvAlways, PTL

(* collector.go's histogramP95 places the estimate in the bucket that really *)
(* holds the 95th percentile, for any bounds and any history of requests.    *)
THEOREM PercentileCorrect == OracleSpec => []P95Share
<1>1. IInv => P95Share
  BY P95ShareHolds DEF IInv
<1> QED BY <1>1, IInvAlways, PTL

(* Every rate the API is told counts all requests that ended in the interval *)
(* it is over (oracle.go:102-109 and 125-128, aggregator.go:51-62): failed   *)
(* calls, failed scrapes and overlapping analyses hide none.                 *)
THEOREM RatesCorrect == OracleSpec => []NoRequestHidden
<1>1. IInv => NoRequestHidden
  BY DEF IInv, LocalOK, Sound, NoRequestHidden
<1> QED BY <1>1, IInvAlways, PTL

(* No answer comes before the interval is over without a reason (oracle.go's *)
(* shouldCall, asked again under the lock).                                  *)
THEOREM SpacedCorrect == OracleSpec => CallsAreSpaced
<1>1. ASSUME IInv, NEW p \in Procs, pc[p] = "call"
      PROVE  age >= Interval \/ Hot(snaps[p]) \/ p \in met
  BY <1>1 DEF IInv, LocalOK
<1>2. IInv /\ [OracleNext]_oracleVars =>
        [\A p \in Procs :
           pc[p] = "call" /\ pc'[p] = "idle"
             => age >= Interval \/ Hot(snaps[p]) \/ p \in met]_oracleVars
  BY <1>1
<1> QED BY <1>2, IInvAlways, PTL DEF OracleSpec, CallsAreSpaced
=============================================================================
