-------------------------- MODULE LeastConn_proofs --------------------------
(***************************************************************************)
(* Lemmas about the operations of LeastConn, for any addresses, lists and  *)
(* connections.  Tunnel_proofs and HttpGate_proofs build on them.          *)
(***************************************************************************)
EXTENDS LeastConn, FiniteSetTheorems, SequenceTheorems, TLAPS

(* An address was never listed, or is listed with its only counter, or was   *)
(* taken out of the list at least once.                                      *)
Counters ==
  /\ \A a \in Addrs : a \notin Range(backends) /\ a \notin removed => count[a] = <<>>
  /\ \A a \in Addrs : NeverRemoved(a) => Len(count[a]) = 1

(* The address a connection got was listed some time. *)
Addresses == \A p \in Conns : addr[p] \in Addrs => count[addr[p]] # <<>>

(* Where a connection is between looking a counter up and adding to it. *)
Adding == {"acquiring", "releasing", "again"}

(* Only such a connection has a pointer, and if its address was never        *)
(* removed it has the one counter made for it.                               *)
Pointers ==
  \A p \in Conns :
    /\ at[p] \notin Adding \/ addr[p] = None => ptr[p] = 0
    /\ at[p] \in Adding /\ NeverRemoved(addr[p]) => ptr[p] = 1

(* The structural invariant of the balancer. *)
LCInv == LCTypeOK /\ Counters /\ Addresses /\ Pointers

(* What Next reads for address a, and its distance from the truth.           *)
Value(a) == count[a][Cell(a)]
Surplus(a) == Value(a) - Cardinality(Holders(a))

(* A step that leaves every surplus alone.                                   *)
KeepsSurplus ==
  \A a \in Addrs : NeverRemoved(a)' =>
    \/ NeverRemoved(a) /\ Surplus(a)' = Surplus(a)
    \/ count[a] = <<>> /\ Surplus(a)' = 0

(* The first n backends of the list: the k-th is the first least-loaded one. *)
Best(k, n) ==
  \A j \in 1..n : /\ Value(backends[k]) <= Value(backends[j])
                  /\ j < k => Value(backends[k]) < Value(backends[j])

(* What Next knows at each round of its loop, and if nobody adds meanwhile.  *)
Scanned(p) ==
  IF at[p] = "scan"
    THEN /\ scan[p] <= Len(backends) + 1
         /\ scan[p] = 1 => addr[p] = None
         /\ scan[p] > 1 => addr[p] \in Range(backends)
         /\ ~disturbed[p] /\ scan[p] > 1 =>
              \E k \in 1..(scan[p] - 1) : /\ addr[p] = backends[k]
                                         /\ low[p] = Value(backends[k])
                                         /\ Best(k, scan[p] - 1)
    ELSE scan[p] = 1 /\ ~disturbed[p]

ScanInv == \A p \in Conns : Scanned(p)

USE ListsAssumption, NoneAssumption, ConnsAssumption, MaxSetsAssumption

-----------------------------------------------------------------------------
LEMMA ListType ==
  ASSUME NEW list \in Lists
  PROVE  /\ list \in Seq(Addrs) /\ Range(list) \subseteq Addrs
         /\ \A i \in 1..Len(list) : list[i] \in Range(list)
         /\ Len(list) \in Nat
         /\ list # <<>> => Len(list) >= 1
<1>1. list \in Seq(Addrs)
  OBVIOUS
<1>2. DOMAIN list = 1..Len(list) /\ Len(list) \in Nat
  BY <1>1
<1>3. \A i \in 1..Len(list) : list[i] \in Addrs
  BY <1>1
<1>4. Len(list) = 0 => list = <<>>
  BY <1>1, EmptySeq
<1> QED BY <1>1, <1>2, <1>3, <1>4 DEF Range

(* A listed address has a counter in the map, the last one made for it.      *)
LEMMA CellType ==
  ASSUME LCTypeOK, NEW a \in Range(backends)
  PROVE  a \in Addrs /\ Cell(a) = Len(count[a]) /\ Cell(a) \in 1..Len(count[a]) /\ Value(a) \in Int
<1>1. a \in Addrs
  BY ListType DEF LCTypeOK
<1>2. count[a] \in Seq(Int) /\ count[a] # <<>>
  BY <1>1 DEF LCTypeOK
<1>3. Len(count[a]) \in Nat \ {0}
  BY <1>2, EmptySeq
<1>4. Cell(a) = Len(count[a])
  BY DEF Cell
<1> QED BY <1>1, <1>2, <1>3, <1>4 DEF Value

LEMMA HoldersFinite ==
  ASSUME NEW a PROVE IsFiniteSet(Holders(a)) /\ Cardinality(Holders(a)) \in Nat
<1>1. Holders(a) \subseteq Conns
  BY DEF Holders
<1> QED BY <1>1, FS_Subset, FS_CardinalityType

(* Adding to one element of a sequence of integers. *)
LEMMA AddElement ==
  ASSUME NEW s \in Seq(Int), NEW k \in 1..Len(s), NEW d \in Int
  PROVE  LET t == [s EXCEPT ![k] = @ + d]
         IN /\ t \in Seq(Int) /\ Len(t) = Len(s) /\ t[k] = s[k] + d
            /\ t # <<>> 
<1> DEFINE t == [s EXCEPT ![k] = @ + d]
<1>1. s[k] + d \in Int
  OBVIOUS
<1>2. t \in Seq(Int) /\ Len(t) = Len(s)
  BY <1>1, ExceptSeq
<1>3. t[k] = s[k] + d
  OBVIOUS
<1>4. Len(s) # 0
  OBVIOUS
<1> HIDE DEF t
<1>5. t # <<>>
  BY <1>2, <1>4
<1> QED BY <1>2, <1>3, <1>5 DEF t

(* A step that changes neither the counters nor the list nor who holds.      *)
LEMMA SameSurplus ==
  ASSUME LCInv, UNCHANGED <<backends, count, removed>>,
         \A a \in Addrs : Holders(a)' = Holders(a)
  PROVE  KeepsSurplus
<1>1. \A a : Cell(a)' = Cell(a) /\ (NeverRemoved(a)' <=> NeverRemoved(a)) /\ Value(a)' = Value(a)
  BY DEF Cell, NeverRemoved, Value
<1> QED BY <1>1 DEF KeepsSurplus, Surplus

-----------------------------------------------------------------------------
LEMMA LCInitInv == LCInit => LCInv /\ \A a \in Addrs : NeverRemoved(a) => Surplus(a) = 0
<1> SUFFICES ASSUME LCInit PROVE LCInv /\ \A a \in Addrs : NeverRemoved(a) => Surplus(a) = 0
  OBVIOUS
<1>1. \A a \in Addrs : count[a] = IF a \in Range(backends) THEN <<0>> ELSE <<>>
  BY DEF LCInit
<1>2. backends \in Lists /\ Range(backends) \subseteq Addrs
  BY ListType DEF LCInit
<1>3. <<0>> \in Seq(Int) /\ <<>> \in Seq(Int) /\ Len(<<0>>) = 1 /\ <<0>> # <<>> /\ <<0>>[1] = 0
  OBVIOUS
<1>4. count \in [Addrs -> Seq(Int)]
  BY <1>3 DEF LCInit
<1>5. LCTypeOK
  <2>1. \A a \in Range(backends) : count[a] # <<>>
    BY <1>1, <1>2, <1>3
  <2>2. \A p \in Conns : addr[p] \notin Addrs
    BY DEF LCInit
  <2>3. /\ at \in [Conns -> {"out", "scan", "chosen", "acquiring", "held", "releasing", "again"}]
        /\ addr \in [Conns -> Addrs \cup {None}] /\ low \in [Conns -> Int]
        /\ scan \in [Conns -> Nat \ {0}] /\ ptr \in [Conns -> Nat] /\ disturbed \in [Conns -> BOOLEAN]
    BY DEF LCInit
  <2>4. pending \in Lists \cup {NoList} /\ sets \in 0..MaxSets /\ removed \subseteq Addrs
    BY DEF LCInit
  <2> QED BY <1>2, <1>4, <2>1, <2>2, <2>3, <2>4 DEF LCTypeOK
<1>6. Counters
  BY <1>1, <1>2, <1>3 DEF Counters, NeverRemoved
<1>7. Addresses /\ Pointers
  BY DEF LCInit, Addresses, Pointers, Adding
<1>8. ASSUME NEW a \in Addrs, NeverRemoved(a) PROVE Surplus(a) = 0
  <2>1. Holders(a) = {}
    BY DEF LCInit, Holders
  <2>2. Value(a) = 0
    BY <1>1, <1>3, <1>8 DEF Value, Cell, NeverRemoved
  <2> QED BY <2>1, <2>2, FS_EmptySet DEF Surplus
<1> QED BY <1>5, <1>6, <1>7, <1>8 DEF LCInv

LEMMA NextBeginInv ==
  ASSUME LCInv, NEW p \in Conns, NextBegin(p)
  PROVE  LCInv' /\ KeepsSurplus
<1> USE DEF LCInv
<1>1. /\ at[p] = "out" /\ at' = [at EXCEPT ![p] = "scan"] /\ addr' = [addr EXCEPT ![p] = None]
      /\ UNCHANGED <<backends, count, pending, sets, removed, low, scan, ptr, disturbed>>
  BY DEF NextBegin
<1>2. LCTypeOK'
  BY <1>1 DEF LCTypeOK
<1>3. Counters'
  BY <1>1 DEF Counters, NeverRemoved
<1>4. Addresses' /\ Pointers'
  BY <1>1 DEF Addresses, Pointers, Adding, NeverRemoved, LCTypeOK
<1>5. \A a \in Addrs : Holders(a)' = Holders(a)
  BY <1>1 DEF Holders, LCTypeOK
<1> QED BY <1>1, <1>2, <1>3, <1>4, <1>5, SameSurplus

(* What one round of Next's loop does. *)
LEMMA NextScanStep ==
  ASSUME LCInv, NEW p \in Conns, NextScan(p)
  PROVE  /\ at[p] = "scan" /\ scan[p] \in 1..Len(backends)
         /\ scan' = [scan EXCEPT ![p] = @ + 1]
         /\ UNCHANGED <<backends, count, pending, sets, removed, at, ptr, disturbed>>
         /\ backends[scan[p]] \in Range(backends)
         /\ IF Better(Value(backends[scan[p]]), low[p], scan[p])
              THEN /\ addr' = [addr EXCEPT ![p] = backends[scan[p]]]
                   /\ low' = [low EXCEPT ![p] = Value(backends[scan[p]])]
              ELSE UNCHANGED <<addr, low>>
<1>1. /\ at[p] = "scan" /\ scan[p] \in 1..Len(backends)
      /\ scan' = [scan EXCEPT ![p] = @ + 1]
      /\ UNCHANGED <<backends, count, pending, sets, removed, at, ptr, disturbed>>
  BY ListType DEF NextScan, LCTypeOK, LCInv
<1>2. backends[scan[p]] \in Range(backends)
  BY <1>1, ListType DEF LCTypeOK, LCInv
<1> QED BY <1>1, <1>2 DEF NextScan, Value

LEMMA NextScanInv ==
  ASSUME LCInv, NEW p \in Conns, NextScan(p)
  PROVE  LCInv' /\ KeepsSurplus
<1> USE DEF LCInv
<1> DEFINE this == backends[scan[p]]
<1>1. /\ at[p] = "scan" /\ scan[p] \in 1..Len(backends)
      /\ scan' = [scan EXCEPT ![p] = @ + 1]
      /\ UNCHANGED <<backends, count, pending, sets, removed, at, ptr, disturbed>>
  BY NextScanStep
<1>2. \/ addr' = [addr EXCEPT ![p] = this] /\ low' = [low EXCEPT ![p] = Value(this)]
      \/ UNCHANGED <<addr, low>>
  BY NextScanStep
<1>3. this \in Addrs /\ Value(this) \in Int /\ count[this] # <<>>
  BY NextScanStep, CellType DEF LCTypeOK
<1> HIDE DEF this
<1>4. addr' \in [Conns -> Addrs \cup {None}] /\ \A q \in Conns \ {p} : addr'[q] = addr[q]
  BY <1>2, <1>3 DEF LCTypeOK
<1>5. low' \in [Conns -> Int]
  BY <1>2, <1>3 DEF LCTypeOK
<1>6. scan' \in [Conns -> Nat \ {0}]
  BY <1>1 DEF LCTypeOK
<1>7. ptr[p] = 0
  BY <1>1 DEF Pointers, Adding
<1>8. LCTypeOK'
  <2>1. ASSUME NEW q \in Conns, addr'[q] \in Addrs PROVE ptr[q] <= Len(count[addr'[q]])
    <3>1. CASE q = p
      BY <1>7, <2>1, <3>1 DEF LCTypeOK
    <3>2. CASE q # p
      BY <1>4, <2>1, <3>2 DEF LCTypeOK
    <3> QED BY <3>1, <3>2
  <2> QED BY <1>1, <1>4, <1>5, <1>6, <2>1 DEF LCTypeOK
<1>9. Counters'
  BY <1>1 DEF Counters, NeverRemoved
<1>10. Addresses'
  <2>1. ASSUME NEW q \in Conns, addr'[q] \in Addrs PROVE count[addr'[q]] # <<>>
    <3>1. CASE q = p
      BY <1>2, <1>3, <2>1, <3>1 DEF Addresses, LCTypeOK
    <3>2. CASE q # p
      BY <1>4, <2>1, <3>2 DEF Addresses
    <3> QED BY <3>1, <3>2
  <2> QED BY <1>1, <2>1 DEF Addresses
<1>11. Pointers'
  BY <1>1, <1>4, <1>7 DEF Pointers, Adding, NeverRemoved
<1>12. \A a \in Addrs : Holders(a)' = Holders(a)
  BY <1>1, <1>4 DEF Holders
<1> QED BY <1>1, <1>8, <1>9, <1>10, <1>11, <1>12, SameSurplus

LEMMA NextReturnInv ==
  ASSUME LCInv, NEW p \in Conns, NextReturn(p)
  PROVE  LCInv' /\ KeepsSurplus
<1> USE DEF LCInv
<1>1. /\ at[p] = "scan" /\ at' = [at EXCEPT ![p] = "chosen"]
      /\ low' = [low EXCEPT ![p] = 0] /\ scan' = [scan EXCEPT ![p] = 1]
      /\ disturbed' = [disturbed EXCEPT ![p] = FALSE]
      /\ UNCHANGED <<backends, count, pending, sets, removed, addr, ptr>>
  BY DEF NextReturn
<1>2. disturbed' \in [Conns -> BOOLEAN]
  BY <1>1 DEF LCTypeOK
<1>3. LCTypeOK'
  BY <1>1, <1>2 DEF LCTypeOK
<1>4. Counters' /\ Addresses'
  BY <1>1 DEF Counters, Addresses, NeverRemoved
<1>5. Pointers'
  BY <1>1 DEF Pointers, Adding, NeverRemoved, LCTypeOK
<1>6. \A a \in Addrs : Holders(a)' = Holders(a)
  BY <1>1 DEF Holders, LCTypeOK
<1> QED BY <1>1, <1>3, <1>4, <1>5, <1>6, SameSurplus

(* Leaving the balancer without having held a backend (an empty list). *)
LEMMA LeaveInv ==
  ASSUME LCInv, NEW p \in Conns, at[p] = "chosen", at' = [at EXCEPT ![p] = "out"],
         UNCHANGED <<backends, count, pending, sets, removed, addr, low, scan, ptr, disturbed>>
  PROVE  LCInv' /\ KeepsSurplus
<1> USE DEF LCInv
<1>1. LCTypeOK'
  BY DEF LCTypeOK
<1>2. Counters' /\ Addresses'
  BY DEF Counters, Addresses, NeverRemoved
<1>3. Pointers'
  BY DEF Pointers, Adding, NeverRemoved, LCTypeOK
<1>4. \A a \in Addrs : Holders(a)' = Holders(a)
  BY DEF Holders, LCTypeOK
<1> QED BY <1>1, <1>2, <1>3, <1>4, SameSurplus

-----------------------------------------------------------------------------
(* An address that has a counter and was never removed is listed. *)
LEMMA StillListed ==
  ASSUME LCInv, NEW a \in Addrs, count[a] # <<>>, a \notin removed
  PROVE  a \in Range(backends) /\ Cell(a) = 1 /\ Len(count[a]) = 1
<1>1. a \in Range(backends)
  BY DEF LCInv, Counters
<1> QED BY <1>1 DEF LCInv, Counters, NeverRemoved, Cell

(* Looking a counter up leaves the connection a holder or not a holder. *)
LEMMA LookUpInv ==
  ASSUME LCInv, NEW p \in Conns, NEW from, NEW to, LookUp(p, from, to),
         \/ from = "chosen" /\ to = "acquiring"
         \/ from = "held" /\ to = "releasing"
         \/ from = "out" /\ to = "again"
  PROVE  LCInv' /\ KeepsSurplus
<1> USE DEF LCInv
<1>1. /\ at[p] = from /\ at' = [at EXCEPT ![p] = to]
      /\ ptr' = [ptr EXCEPT ![p] = Cell(addr[p])]
      /\ UNCHANGED <<backends, count, pending, sets, removed, addr, low, scan, disturbed>>
  BY DEF LookUp
<1>2. addr[p] = None \/ addr[p] \in Addrs
  BY DEF LCTypeOK
<1>3. backends \in Lists /\ Range(backends) \subseteq Addrs
  BY ListType DEF LCTypeOK
<1>4. /\ addr[p] = None => Cell(addr[p]) = 0
      /\ Cell(addr[p]) \in Nat
      /\ addr[p] \in Addrs => Cell(addr[p]) <= Len(count[addr[p]])
      /\ NeverRemoved(addr[p]) => Cell(addr[p]) = 1
  <2>1. CASE addr[p] \in Range(backends)
    <3>1. /\ addr[p] \in Addrs /\ Cell(addr[p]) = Len(count[addr[p]])
          /\ Cell(addr[p]) \in 1..Len(count[addr[p]])
      BY <2>1, CellType
    <3>2. NeverRemoved(addr[p]) => Len(count[addr[p]]) = 1
      BY <3>1 DEF Counters
    <3> QED BY <3>1, <3>2
  <2>2. CASE addr[p] \notin Range(backends)
    BY <2>2 DEF Cell, NeverRemoved, LCTypeOK
  <2> QED BY <1>3, <2>1, <2>2
<1>5. ptr' \in [Conns -> Nat] /\ at' \in [Conns -> {"out", "scan", "chosen", "acquiring", "held", "releasing", "again"}]
  BY <1>1, <1>4 DEF LCTypeOK
<1>6. LCTypeOK'
  <2>1. ASSUME NEW q \in Conns, addr[q] \in Addrs PROVE ptr'[q] <= Len(count[addr[q]])
    <3>1. CASE q = p
      BY <1>1, <1>4, <2>1, <3>1 DEF LCTypeOK
    <3>2. CASE q # p
      BY <1>1, <2>1, <3>2 DEF LCTypeOK
    <3> QED BY <3>1, <3>2
  <2> QED BY <1>1, <1>5, <2>1 DEF LCTypeOK
<1>7. Counters' /\ Addresses'
  BY <1>1 DEF Counters, Addresses, NeverRemoved
<1>8. Pointers'
  BY <1>1, <1>4 DEF Pointers, Adding, NeverRemoved, LCTypeOK
<1>9. \A a \in Addrs : Holders(a)' = Holders(a)
  BY <1>1 DEF Holders, LCTypeOK
<1> QED BY <1>1, <1>6, <1>7, <1>8, <1>9, SameSurplus

-----------------------------------------------------------------------------
(* Adding to a counter changes what is read for the connection's address if  *)
(* it was never removed, and nothing that is read for any other one.         *)
LEMMA AddToInv ==
  ASSUME LCInv, NEW p \in Conns, NEW delta \in Int, NEW to \in {"held", "out"},
         at[p] \in Adding, AddTo(p, delta, to)
  PROVE  /\ LCInv'
         /\ \A a \in Addrs : NeverRemoved(a)' =>
              NeverRemoved(a) /\ Value(a)' = IF a = addr[p] THEN Value(a) + delta ELSE Value(a)
         /\ \A a \in Addrs : count[a] = <<>> => a # addr[p] \/ ptr[p] = 0
<1> USE DEF LCInv
<1> DEFINE mine == addr[p]
           k == ptr[p]
<1>1. /\ count' = IF k = 0 THEN count ELSE [count EXCEPT ![mine][k] = @ + delta]
      /\ disturbed' = [q \in Conns |-> disturbed[q] \/ (at[q] = "scan" /\ k # 0)]
      /\ at' = [at EXCEPT ![p] = to] /\ ptr' = [ptr EXCEPT ![p] = 0]
      /\ UNCHANGED <<backends, pending, sets, removed, addr, low, scan>>
  BY DEF AddTo
<1>2. mine \in Addrs \cup {None} /\ k \in Nat /\ (mine = None => k = 0)
      /\ (mine \in Addrs => k <= Len(count[mine]) /\ count[mine] \in Seq(Int))
  BY DEF LCTypeOK, Pointers
<1>3. NeverRemoved(mine) => k = 1
  BY DEF Pointers
<1> HIDE DEF mine, k
<1>4. ASSUME NEW a \in Addrs
      PROVE  /\ count'[a] \in Seq(Int) /\ Len(count'[a]) = Len(count[a])
             /\ count[a] # <<>> => count'[a] # <<>>
             /\ a # mine \/ k = 0 => count'[a] = count[a]
             /\ a = mine /\ k # 0 => k \in 1..Len(count[a]) /\ count'[a][k] = count[a][k] + delta
             /\ count[a] = <<>> => (a # mine \/ k = 0) /\ count'[a] = <<>>
  <2>1. count[a] \in Seq(Int) /\ Len(<<>>) = 0
    BY DEF LCTypeOK
  <2>2. CASE a = mine /\ k # 0
    <3> DEFINE s == count[a]
               t == [s EXCEPT ![k] = @ + delta]
    <3>1. k \in 1..Len(s)
      BY <1>2, <2>2
    <3>2. count'[a] = t
      BY <1>1, <2>2 DEF LCTypeOK
    <3>3. s \in Seq(Int)
      BY <2>1
    <3> HIDE DEF s
    <3>4. t \in Seq(Int) /\ Len(t) = Len(s) /\ t[k] = s[k] + delta /\ t # <<>>
      BY <3>1, <3>3, AddElement
    <3> HIDE DEF t
    <3>5. s # <<>>
      BY <2>1, <3>1
    <3> QED BY <2>2, <3>1, <3>2, <3>4, <3>5 DEF s
  <2>3. CASE ~(a = mine /\ k # 0)
    <3>1. count'[a] = count[a]
      BY <1>1, <2>3 DEF LCTypeOK
    <3> QED BY <2>1, <2>3, <3>1
  <2> QED BY <2>2, <2>3
<1>5. count' \in [Addrs -> Seq(Int)]
  <2>1. count' = [a \in Addrs |-> count'[a]]
    BY <1>1 DEF LCTypeOK
  <2> QED BY <1>4, <2>1
<1>6. disturbed' \in [Conns -> BOOLEAN]
  BY <1>1 DEF LCTypeOK
<1>7. LCTypeOK'
  <2>1. \A a \in Range(backends) : count'[a] # <<>>
    BY <1>4, CellType DEF LCTypeOK
  <2>2. ASSUME NEW q \in Conns, addr[q] \in Addrs PROVE ptr'[q] <= Len(count'[addr[q]])
    <3>1. Len(count'[addr[q]]) = Len(count[addr[q]]) /\ Len(count[addr[q]]) \in Nat
      BY <1>4, <2>2 DEF LCTypeOK
    <3>2. ptr'[q] = 0 \/ ptr'[q] = ptr[q]
      BY <1>1 DEF LCTypeOK
    <3> QED BY <2>2, <3>1, <3>2 DEF LCTypeOK
  <2>3. ptr' \in [Conns -> Nat] /\ at' \in [Conns -> {"out", "scan", "chosen", "acquiring", "held", "releasing", "again"}]
    BY <1>1 DEF LCTypeOK
  <2> QED BY <1>1, <1>5, <1>6, <2>1, <2>2, <2>3 DEF LCTypeOK
<1>8. Counters'
  BY <1>1, <1>4 DEF Counters, NeverRemoved
<1>9. Addresses'
  BY <1>1, <1>4 DEF Addresses
<1>10. Pointers'
  BY <1>1 DEF Pointers, Adding, NeverRemoved, LCTypeOK
<1>11. ASSUME NEW a \in Addrs, NeverRemoved(a)'
       PROVE  NeverRemoved(a) /\ Value(a)' = IF a = mine THEN Value(a) + delta ELSE Value(a)
  <2>1. NeverRemoved(a) /\ Cell(a) = Len(count[a]) /\ Cell(a)' = Len(count'[a]) /\ Len(count[a]) = 1
    BY <1>1, <1>11 DEF NeverRemoved, Cell, Counters
  <2>2. Value(a) = count[a][1] /\ Value(a)' = count'[a][1]
    BY <1>4, <2>1 DEF Value
  <2> QED BY <1>3, <1>4, <2>1, <2>2
<1> QED BY <1>4, <1>7, <1>8, <1>9, <1>10, <1>11 DEF mine, k

LEMMA AcquireAddInv ==
  ASSUME LCInv, NEW p \in Conns, AcquireAdd(p)
  PROVE  LCInv' /\ KeepsSurplus
<1>1. at[p] = "acquiring" /\ AddTo(p, 1, "held") /\ at' = [at EXCEPT ![p] = "held"] /\ addr' = addr
  BY DEF AcquireAdd, AddTo
<1>2. /\ LCInv'
      /\ \A a \in Addrs : NeverRemoved(a)' =>
           NeverRemoved(a) /\ Value(a)' = IF a = addr[p] THEN Value(a) + 1 ELSE Value(a)
  BY <1>1, AddToInv DEF Adding
<1>3. at \in [Conns -> {"out", "scan", "chosen", "acquiring", "held", "releasing", "again"}]
  BY DEF LCInv, LCTypeOK
<1>4. ASSUME NEW a \in Addrs, NeverRemoved(a)' PROVE Surplus(a)' = Surplus(a)
  <2>1. NeverRemoved(a) /\ Value(a) \in Int
    BY <1>2, <1>4, CellType DEF LCInv, NeverRemoved
  <2>2. IsFiniteSet(Holders(a)) /\ Cardinality(Holders(a)) \in Nat
    BY HoldersFinite
  <2>3. CASE a = addr[p]
    <3>1. Holders(a)' = Holders(a) \cup {p} /\ p \notin Holders(a)
      BY <1>1, <1>3, <2>3 DEF Holders
    <3>2. Cardinality(Holders(a))' = Cardinality(Holders(a)) + 1
      BY <2>2, <3>1, FS_AddElement
    <3> QED BY <1>2, <1>4, <2>1, <2>2, <2>3, <3>2 DEF Surplus
  <2>4. CASE a # addr[p]
    <3>1. Holders(a)' = Holders(a)
      BY <1>1, <1>3, <2>4 DEF Holders
    <3> QED BY <1>2, <1>4, <2>4, <3>1 DEF Surplus
  <2> QED BY <2>3, <2>4
<1> QED BY <1>2, <1>4 DEF KeepsSurplus

LEMMA ReleaseAddInv ==
  ASSUME LCInv, NEW p \in Conns, ReleaseAdd(p)
  PROVE  LCInv' /\ KeepsSurplus
<1>1. at[p] = "releasing" /\ AddTo(p, -1, "out") /\ at' = [at EXCEPT ![p] = "out"] /\ addr' = addr
  BY DEF ReleaseAdd, AddTo
<1>2. /\ LCInv'
      /\ \A a \in Addrs : NeverRemoved(a)' =>
           NeverRemoved(a) /\ Value(a)' = IF a = addr[p] THEN Value(a) + (-1) ELSE Value(a)
  BY <1>1, AddToInv DEF Adding
<1>3. at \in [Conns -> {"out", "scan", "chosen", "acquiring", "held", "releasing", "again"}]
  BY DEF LCInv, LCTypeOK
<1>4. ASSUME NEW a \in Addrs, NeverRemoved(a)' PROVE Surplus(a)' = Surplus(a)
  <2>1. NeverRemoved(a) /\ Value(a) \in Int
    BY <1>2, <1>4, CellType DEF LCInv, NeverRemoved
  <2>2. IsFiniteSet(Holders(a)) /\ Cardinality(Holders(a)) \in Nat
    BY HoldersFinite
  <2>3. CASE a = addr[p]
    <3>1. Holders(a)' = Holders(a) \ {p} /\ p \in Holders(a)
      BY <1>1, <1>3, <2>3 DEF Holders
    <3>2. Cardinality(Holders(a))' = Cardinality(Holders(a)) - 1
      BY <2>2, <3>1, FS_RemoveElement
    <3> QED BY <1>2, <1>4, <2>1, <2>2, <2>3, <3>2 DEF Surplus
  <2>4. CASE a # addr[p]
    <3>1. Holders(a)' = Holders(a)
      BY <1>1, <1>3, <2>4 DEF Holders
    <3> QED BY <1>2, <1>4, <2>4, <3>1 DEF Surplus
  <2> QED BY <2>3, <2>4
<1> QED BY <1>2, <1>4 DEF KeepsSurplus

-----------------------------------------------------------------------------
LEMMA SetBackendsWaitInv ==
  ASSUME LCInv, SetBackendsWait
  PROVE  LCInv' /\ KeepsSurplus
<1> USE DEF LCInv
<1>1. /\ pending' \in Lists /\ sets' = sets + 1 /\ sets < MaxSets
      /\ UNCHANGED <<backends, count, removed, at, addr, low, scan, ptr, disturbed>>
  BY DEF SetBackendsWait
<1>2. LCTypeOK'
  BY <1>1 DEF LCTypeOK
<1>3. Counters' /\ Addresses' /\ Pointers'
  BY <1>1 DEF Counters, Addresses, Pointers, NeverRemoved
<1>4. \A a \in Addrs : Holders(a)' = Holders(a)
  BY <1>1 DEF Holders
<1> QED BY <1>1, <1>2, <1>3, <1>4, SameSurplus

(* Replacing the list: an address that stays keeps its counter, a new one    *)
(* has a zero counter and nobody who holds it, unless it was there before.   *)
LEMMA SetBackendsInv ==
  ASSUME LCInv, SetBackends
  PROVE  LCInv' /\ KeepsSurplus
<1> USE DEF LCInv
<1>1. /\ pending # NoList
      /\ count' = [a \in Addrs |-> NextCounters(pending, a)]
      /\ backends' = pending /\ pending' = NoList
      /\ removed' = removed \cup (Range(backends) \ Range(pending))
      /\ UNCHANGED <<sets, at, addr, low, scan, ptr, disturbed>>
  BY DEF SetBackends
<1>2. pending \in Lists /\ Range(pending) \subseteq Addrs /\ Range(backends) \subseteq Addrs
  BY <1>1, ListType DEF LCTypeOK
<1>3. ASSUME NEW a \in Addrs
      PROVE  /\ count'[a] \in Seq(Int)
             /\ a \in Range(pending) /\ a \notin Range(backends) =>
                  count'[a] = Append(count[a], 0) /\ count'[a] # <<>>
             /\ ~(a \in Range(pending) /\ a \notin Range(backends)) => count'[a] = count[a]
             /\ Len(count[a]) \in Nat /\ Len(count'[a]) >= Len(count[a])
             /\ count[a] # <<>> => count'[a] # <<>>
  <2>1. count[a] \in Seq(Int)
    BY DEF LCTypeOK
  <2>2. count'[a] = NextCounters(pending, a)
    BY <1>1
  <2>3. /\ Append(count[a], 0) \in Seq(Int) /\ Len(Append(count[a], 0)) = Len(count[a]) + 1
        /\ Len(count[a]) \in Nat /\ Append(count[a], 0) # <<>>
    BY <2>1, AppendProperties
  <2> QED BY <2>1, <2>2, <2>3 DEF NextCounters
<1>4. count' \in [Addrs -> Seq(Int)]
  <2>1. count' = [a \in Addrs |-> count'[a]]
    BY <1>1
  <2> QED BY <1>3, <2>1
<1>5. LCTypeOK'
  <2>1. \A a \in Range(pending) : count'[a] # <<>>
    BY <1>2, <1>3 DEF LCTypeOK
  <2>2. ASSUME NEW q \in Conns, addr[q] \in Addrs PROVE ptr[q] <= Len(count'[addr[q]])
    <3>1. Len(count'[addr[q]]) \in Nat /\ Len(count[addr[q]]) \in Nat
          /\ Len(count'[addr[q]]) >= Len(count[addr[q]])
      BY <1>3, <2>2
    <3> QED BY <2>2, <3>1 DEF LCTypeOK
  <2>3. removed' \subseteq Addrs
    BY <1>1, <1>2 DEF LCTypeOK
  <2> QED BY <1>1, <1>2, <1>4, <2>1, <2>2, <2>3 DEF LCTypeOK
<1>6. ASSUME NEW a \in Addrs, NeverRemoved(a)'
      PROVE  \/ NeverRemoved(a) /\ count'[a] = count[a]
             \/ count[a] = <<>> /\ count'[a] = <<0>> /\ a \notin Range(backends)
  <2>1. a \in Range(pending) /\ a \notin removed
    BY <1>1, <1>6 DEF NeverRemoved
  <2>2. CASE a \in Range(backends)
    BY <1>3, <2>1, <2>2 DEF NeverRemoved
  <2>3. CASE a \notin Range(backends)
    <3>1. count[a] = <<>>
      BY <2>1, <2>3 DEF Counters
    <3>2. count'[a] = Append(<<>>, 0)
      BY <1>3, <2>1, <2>3, <3>1
    <3> QED BY <2>3, <3>1, <3>2
  <2> QED BY <2>2, <2>3
<1>7. Counters'
  <2>1. ASSUME NEW a \in Addrs, a \notin Range(pending), a \notin removed' PROVE count'[a] = <<>>
    <3>1. a \notin Range(backends) /\ a \notin removed
      BY <1>1, <2>1
    <3> QED BY <1>3, <2>1, <3>1 DEF Counters
  <2>2. ASSUME NEW a \in Addrs, NeverRemoved(a)' PROVE Len(count'[a]) = 1
    <3>1. Len(<<0>>) = 1 /\ (NeverRemoved(a) => Len(count[a]) = 1)
      BY DEF Counters
    <3>2. (NeverRemoved(a) /\ count'[a] = count[a]) \/ count'[a] = <<0>>
      BY <1>6, <2>2
    <3> QED BY <3>1, <3>2
  <2> QED BY <1>1, <2>1, <2>2 DEF Counters
<1>8. Addresses'
  BY <1>1, <1>3 DEF Addresses
<1>9. Pointers'
  <2>1. ASSUME NEW q \in Conns, at[q] \in Adding, NeverRemoved(addr[q])' PROVE ptr[q] = 1
    <3>1. addr[q] \in Addrs
      BY <1>1, <1>2, <2>1 DEF NeverRemoved
    <3>2. count[addr[q]] # <<>>
      BY <3>1 DEF Addresses
    <3>3. NeverRemoved(addr[q])
      <4>1. \A a \in Addrs : count[a] # <<>> /\ NeverRemoved(a)' => NeverRemoved(a)
        BY <1>6
      <4> QED BY <1>1, <2>1, <3>1, <3>2, <4>1 DEF NeverRemoved
    <3> QED BY <2>1, <3>3 DEF Pointers
  <2> QED BY <1>1, <2>1 DEF Pointers
<1>10. ASSUME NEW a \in Addrs, NeverRemoved(a)'
       PROVE  \/ NeverRemoved(a) /\ Surplus(a)' = Surplus(a)
              \/ count[a] = <<>> /\ Surplus(a)' = 0
  <2>1. Holders(a)' = Holders(a)
    BY <1>1 DEF Holders
  <2>2. CASE NeverRemoved(a) /\ count'[a] = count[a]
    <3>1. Cell(a)' = Cell(a)
      BY <1>1, <1>10, <2>2 DEF Cell, NeverRemoved
    <3> QED BY <2>1, <2>2, <3>1 DEF Surplus, Value
  <2>3. CASE count[a] = <<>> /\ count'[a] = <<0>>
    <3>1. Holders(a) = {}
      BY <2>3 DEF Addresses, Holders
    <3>2. Value(a)' = 0
      <4>1. Cell(a)' = Len(count'[a])
        BY <1>10 DEF Cell, NeverRemoved
      <4> QED BY <2>3, <4>1 DEF Value
    <3> QED BY <2>1, <2>3, <3>1, <3>2, FS_EmptySet DEF Surplus
  <2> QED BY <1>6, <1>10, <2>2, <2>3
<1> QED BY <1>5, <1>7, <1>8, <1>9, <1>10 DEF KeepsSurplus

(* A counter that was made is never taken away. *)
LEMMA CountersStay ==
  ASSUME LCInv,
         \/ count' = count
         \/ \E p \in Conns, delta \in Int, to \in {"held", "out"} : at[p] \in Adding /\ AddTo(p, delta, to)
         \/ SetBackends
  PROVE  \A a \in Addrs : count'[a] = <<>> => count[a] = <<>>
<1>1. ASSUME NEW p \in Conns, NEW delta \in Int, NEW to \in {"held", "out"},
             at[p] \in Adding, AddTo(p, delta, to), NEW a \in Addrs
      PROVE  count[a] # <<>> => count'[a] # <<>>
  <2>1. LCInv'
    BY <1>1, AddToInv
  <2>2. UNCHANGED <<backends, removed>>
    BY <1>1 DEF AddTo
  <2>3. a # addr[p] => count'[a] = count[a]
    BY <1>1 DEF AddTo, LCInv, LCTypeOK
  <2>4. a = addr[p] => addr'[p] = a
    BY <1>1 DEF AddTo
  <2> QED BY <2>1, <2>3, <2>4 DEF LCInv, Addresses
<1>2. ASSUME SetBackends, NEW a \in Addrs PROVE count[a] # <<>> => count'[a] # <<>>
  <2>1. count'[a] = NextCounters(pending, a)
    BY <1>2 DEF SetBackends
  <2>2. count[a] \in Seq(Int)
    BY DEF LCInv, LCTypeOK
  <2>3. Append(count[a], 0) # <<>>
    BY <2>2, AppendProperties
  <2> QED BY <2>1, <2>3 DEF NextCounters
<1> QED BY <1>1, <1>2

-----------------------------------------------------------------------------
(* The loop of Next. *)
LEMMA ScanInit == LCInit => ScanInv
BY DEF LCInit, ScanInv, Scanned

(* A step that leaves the list, the counters and the variables of the loop   *)
(* alone, whoever takes it.                                                  *)
LEMMA ScanQuiet ==
  ASSUME LCInv, ScanInv, UNCHANGED <<backends, count, addr, low, scan, disturbed>>,
         \A q \in Conns : at'[q] = "scan" <=> at[q] = "scan"
  PROVE  ScanInv'
<1>1. \A a : Value(a)' = Value(a)
  BY DEF Value, Cell
<1>2. \A k, n : Best(k, n)' <=> Best(k, n)
  BY DEF Best, Value, Cell
<1> QED BY <1>1, <1>2 DEF ScanInv, Scanned

(* A look-up is such a step. *)
LEMMA ScanLookUp ==
  ASSUME LCInv, ScanInv, NEW p \in Conns, NEW from, NEW to, LookUp(p, from, to),
         from # "scan", to # "scan"
  PROVE  ScanInv'
<1>1. at[p] = from /\ at' = [at EXCEPT ![p] = to] /\ UNCHANGED <<backends, count, addr, low, scan, disturbed>>
  BY DEF LookUp
<1>2. \A q \in Conns : at'[q] = "scan" <=> at[q] = "scan"
  BY <1>1 DEF LCInv, LCTypeOK
<1> QED BY <1>1, <1>2, ScanQuiet

LEMMA ScanBegin ==
  ASSUME LCInv, ScanInv, NEW p \in Conns, NextBegin(p)
  PROVE  ScanInv'
<1>1. /\ at[p] = "out" /\ at' = [at EXCEPT ![p] = "scan"] /\ addr' = [addr EXCEPT ![p] = None]
      /\ UNCHANGED <<backends, count, low, scan, disturbed>>
  BY DEF NextBegin
<1>2. \A k, n : Best(k, n)' <=> Best(k, n)
  BY <1>1 DEF Best, Value, Cell
<1>3. \A a : Value(a)' = Value(a)
  BY <1>1 DEF Value, Cell
<1>4. at \in [Conns -> {"out", "scan", "chosen", "acquiring", "held", "releasing", "again"}]
      /\ addr \in [Conns -> Addrs \cup {None}] /\ Len(backends) \in Nat
  BY ListType DEF LCInv, LCTypeOK
<1>5. Scanned(p)'
  BY <1>1, <1>4 DEF ScanInv, Scanned
<1>6. ASSUME NEW q \in Conns \ {p} PROVE Scanned(q)'
  <2>1. at'[q] = at[q] /\ addr'[q] = addr[q]
    BY <1>1, <1>4
  <2> QED BY <1>1, <1>2, <1>3, <2>1 DEF ScanInv, Scanned
<1> QED BY <1>5, <1>6 DEF ScanInv

(* The next backend is the best so far, or the best one remains. *)
LEMMA BestNext ==
  ASSUME NEW i \in Nat, i > 1, NEW k \in 1..(i - 1), Best(k, i - 1),
         \A j \in 1..i : Value(backends[j]) \in Int
  PROVE  IF Value(backends[i]) < Value(backends[k]) THEN Best(i, i) ELSE Best(k, i)
<1> DEFINE V(j) == Value(backends[j])
<1>1. \A j \in 1..i : V(j) \in Int
  OBVIOUS
<1>2. \A j \in 1..(i - 1) : V(k) <= V(j) /\ (j < k => V(k) < V(j))
  BY DEF Best
<1>3. Best(i, i) <=> \A j \in 1..i : V(i) <= V(j) /\ (j < i => V(i) < V(j))
  BY DEF Best
<1>4. Best(k, i) <=> \A j \in 1..i : V(k) <= V(j) /\ (j < k => V(k) < V(j))
  BY DEF Best
<1>5. \A j \in 1..i : j = i \/ j \in 1..(i - 1)
  OBVIOUS
<1>6. i \in 1..i /\ k \in 1..i /\ k < i
  OBVIOUS
<1> HIDE DEF V
<1>7. ASSUME V(i) < V(k) PROVE Best(i, i)
  <2>1. \A j \in 1..(i - 1) : V(i) < V(j)
    <3> SUFFICES ASSUME NEW j \in 1..(i - 1) PROVE V(i) < V(j)
      OBVIOUS
    <3>1. V(i) \in Int /\ V(j) \in Int /\ V(k) \in Int /\ V(k) <= V(j)
      BY <1>1, <1>2, <1>6
    <3> QED BY <1>7, <3>1
  <2>2. V(i) \in Int /\ V(i) <= V(i)
    BY <1>1, <1>6
  <2>3. ASSUME NEW j \in 1..i PROVE V(i) <= V(j) /\ (j < i => V(i) < V(j))
    <3>1. V(i) \in Int /\ V(j) \in Int
      BY <1>1, <1>6
    <3> QED BY <1>5, <2>1, <2>2, <3>1
  <2> QED BY <1>3, <2>3
<1>8. ASSUME ~(V(i) < V(k)) PROVE Best(k, i)
  <2>1. V(k) <= V(i)
    <3>1. V(i) \in Int /\ V(k) \in Int
      BY <1>1, <1>6
    <3> QED BY <1>8, <3>1
  <2> QED BY <1>2, <1>4, <1>5, <1>6, <2>1
<1> QED BY <1>7, <1>8 DEF V

LEMMA ScanRound ==
  ASSUME LCInv, ScanInv, NEW p \in Conns, NextScan(p)
  PROVE  ScanInv'
<1> DEFINE i == scan[p]
           this == backends[i]
<1>1. /\ at[p] = "scan" /\ i \in 1..Len(backends)
      /\ scan' = [scan EXCEPT ![p] = @ + 1]
      /\ UNCHANGED <<backends, count, at, disturbed>>
      /\ this \in Range(backends)
      /\ IF Better(Value(this), low[p], i)
           THEN addr' = [addr EXCEPT ![p] = this] /\ low' = [low EXCEPT ![p] = Value(this)]
           ELSE UNCHANGED <<addr, low>>
  BY NextScanStep
<1>2. \A k, n : Best(k, n)' <=> Best(k, n)
  BY <1>1 DEF Best, Value, Cell
<1>3. \A a : Value(a)' = Value(a)
  BY <1>1 DEF Value, Cell
<1>4. /\ addr \in [Conns -> Addrs \cup {None}] /\ low \in [Conns -> Int] /\ scan \in [Conns -> Nat \ {0}]
      /\ Len(backends) \in Nat
  BY ListType DEF LCInv, LCTypeOK
<1>5. /\ \A j \in 1..Len(backends) : backends[j] \in Addrs /\ Value(backends[j]) \in Int
  BY ListType, CellType DEF LCInv, LCTypeOK
<1>6. /\ i > 1 => addr[p] \in Range(backends)
      /\ ~disturbed[p] /\ i > 1 =>
           \E k \in 1..(i - 1) : addr[p] = backends[k] /\ low[p] = Value(backends[k]) /\ Best(k, i - 1)
  BY <1>1 DEF ScanInv, Scanned
<1>7. scan'[p] = i + 1 /\ at'[p] = "scan" /\ disturbed'[p] = disturbed[p]
  BY <1>1, <1>4
<1>8. addr'[p] \in Range(backends)
  <2>1. CASE Better(Value(this), low[p], i)
    BY <1>1, <1>4, <1>5, <2>1
  <2>2. CASE ~Better(Value(this), low[p], i)
    BY <1>1, <1>6, <2>2 DEF Better
  <2> QED BY <2>1, <2>2
<1>9. ASSUME ~disturbed[p]
      PROVE  \E k \in 1..i : addr'[p] = backends[k] /\ low'[p] = Value(backends[k]) /\ Best(k, i)
  <2>1. CASE Better(Value(this), low[p], i)
    <3>1. addr'[p] = this /\ low'[p] = Value(this)
      BY <1>1, <1>4, <2>1
    <3>2. Best(i, i)
      <4>1. CASE i = 1
        BY <1>5, <1>1, <4>1 DEF Best
      <4>2. CASE i > 1
        <5>1. PICK k \in 1..(i - 1) : low[p] = Value(backends[k]) /\ Best(k, i - 1)
          BY <1>6, <1>9, <4>2
        <5>2. Value(this) < Value(backends[k])
          BY <2>1, <4>2, <5>1 DEF Better
        <5>3. i \in Nat /\ \A j \in 1..i : Value(backends[j]) \in Int
          BY <1>1, <1>4, <1>5
        <5> QED BY <4>2, <5>1, <5>2, <5>3, BestNext
      <4> QED BY <1>1, <4>1, <4>2
    <3> QED BY <1>1, <3>1, <3>2
  <2>2. CASE ~Better(Value(this), low[p], i)
    <3>1. i > 1 /\ addr' = addr /\ low' = low /\ ~(Value(this) < low[p])
      BY <1>1, <2>2 DEF Better
    <3>2. PICK k \in 1..(i - 1) : addr[p] = backends[k] /\ low[p] = Value(backends[k]) /\ Best(k, i - 1)
      BY <1>6, <1>9, <3>1
    <3>3. i \in Nat /\ \A j \in 1..i : Value(backends[j]) \in Int
      BY <1>1, <1>4, <1>5
    <3>4. Best(k, i)
      BY <3>1, <3>2, <3>3, BestNext
    <3> QED BY <1>1, <3>1, <3>2, <3>4
  <2> QED BY <2>1, <2>2
<1>10. Scanned(p)'
  <2>1. scan'[p] - 1 = i /\ scan'[p] > 1 /\ scan'[p] <= Len(backends) + 1 /\ scan'[p] # 1
    BY <1>1, <1>4, <1>7
  <2>2. backends' = backends
    BY <1>1
  <2> HIDE DEF i
  <2> QED BY <1>2, <1>3, <1>7, <1>8, <1>9, <2>1, <2>2 DEF Scanned
<1>11. ASSUME NEW q \in Conns \ {p} PROVE Scanned(q)'
  <2>1. scan'[q] = scan[q] /\ addr'[q] = addr[q] /\ low'[q] = low[q]
    BY <1>1, <1>4
  <2> QED BY <1>1, <1>2, <1>3, <2>1 DEF ScanInv, Scanned
<1> QED BY <1>10, <1>11 DEF ScanInv

LEMMA ScanReturn ==
  ASSUME LCInv, ScanInv, NEW p \in Conns, NextReturn(p)
  PROVE  ScanInv'
<1>1. /\ at[p] = "scan" /\ at' = [at EXCEPT ![p] = "chosen"]
      /\ low' = [low EXCEPT ![p] = 0] /\ scan' = [scan EXCEPT ![p] = 1]
      /\ disturbed' = [disturbed EXCEPT ![p] = FALSE]
      /\ UNCHANGED <<backends, count, addr>>
  BY DEF NextReturn
<1>2. \A k, n : Best(k, n)' <=> Best(k, n)
  BY <1>1 DEF Best, Value, Cell
<1>3. \A a : Value(a)' = Value(a)
  BY <1>1 DEF Value, Cell
<1>4. /\ at \in [Conns -> {"out", "scan", "chosen", "acquiring", "held", "releasing", "again"}]
      /\ low \in [Conns -> Int] /\ scan \in [Conns -> Nat \ {0}]
      /\ disturbed \in [Conns -> BOOLEAN]
  BY DEF LCInv, LCTypeOK
<1>5. Scanned(p)'
  <2>1. at'[p] = "chosen" /\ scan'[p] = 1
    BY <1>1, <1>4
  <2>2. ~disturbed'[p]
    BY <1>1, <1>4, Zenon
  <2> QED BY <2>1, <2>2 DEF Scanned
<1>6. ASSUME NEW q \in Conns \ {p} PROVE Scanned(q)'
  <2>1. at'[q] = at[q] /\ low'[q] = low[q] /\ scan'[q] = scan[q]
    BY <1>1, <1>4
  <2>2. disturbed'[q] = disturbed[q]
    BY <1>1, <1>4, Zenon
  <2> QED BY <1>1, <1>2, <1>3, <2>1, <2>2 DEF ScanInv, Scanned
<1> QED BY <1>5, <1>6 DEF ScanInv

(* What Next returns. *)
LEMMA NextAnswer ==
  ASSUME LCInv, ScanInv, NEW p \in Conns, NextReturn(p)
  PROVE  /\ addr[p] \in Answers(backends)
         /\ ~disturbed[p] /\ backends # <<>> =>
              \E i \in 1..Len(backends) : addr[p] = backends[i] /\ Best(i, Len(backends))
<1>1. at[p] = "scan" /\ scan[p] > Len(backends)
  BY DEF NextReturn
<1>2. Len(backends) \in Nat /\ scan[p] \in Nat \ {0}
      /\ (backends = <<>> <=> Len(backends) = 0)
  BY ListType DEF LCInv, LCTypeOK
<1>3. scan[p] = Len(backends) + 1
  BY <1>1, <1>2 DEF ScanInv, Scanned
<1>4. scan[p] = 1 <=> backends = <<>>
  BY <1>2, <1>3
<1>5. scan[p] - 1 = Len(backends) /\ (backends # <<>> => scan[p] > 1)
  BY <1>2, <1>3
<1> QED BY <1>1, <1>4, <1>5 DEF ScanInv, Scanned, Answers

(* An addition marks every loop that is under way. *)
LEMMA ScanAdd ==
  ASSUME LCInv, ScanInv, NEW p \in Conns, NEW delta, NEW to \in {"held", "out"},
         at[p] \in Adding, AddTo(p, delta, to)
  PROVE  ScanInv'
<1>1. /\ count' = IF ptr[p] = 0 THEN count ELSE [count EXCEPT ![addr[p]][ptr[p]] = @ + delta]
      /\ disturbed' = [q \in Conns |-> disturbed[q] \/ (at[q] = "scan" /\ ptr[p] # 0)]
      /\ at' = [at EXCEPT ![p] = to]
      /\ UNCHANGED <<backends, addr, low, scan>>
  BY DEF AddTo
<1>2. at \in [Conns -> {"out", "scan", "chosen", "acquiring", "held", "releasing", "again"}]
  BY DEF LCInv, LCTypeOK
<1>3. ASSUME NEW q \in Conns PROVE Scanned(q)'
  <2>1. disturbed'[q] <=> disturbed[q] \/ (at[q] = "scan" /\ ptr[p] # 0)
    BY <1>1
  <2>2. at'[q] = "scan" <=> at[q] = "scan"
    BY <1>1, <1>2 DEF Adding
  <2>3. CASE ptr[p] = 0
    <3>1. count' = count
      BY <1>1, <2>3
    <3>2. \A k, n : Best(k, n)' <=> Best(k, n)
      BY <1>1, <3>1 DEF Best, Value, Cell
    <3>3. \A a : Value(a)' = Value(a)
      BY <1>1, <3>1 DEF Value, Cell
    <3> QED BY <1>1, <2>1, <2>2, <2>3, <3>2, <3>3 DEF ScanInv, Scanned
  <2>4. CASE ptr[p] # 0
    BY <1>1, <2>1, <2>2, <2>4 DEF ScanInv, Scanned
  <2> QED BY <2>3, <2>4
<1> QED BY <1>3 DEF ScanInv

(* The list is not replaced during a loop. *)
LEMMA ScanReplace ==
  ASSUME LCInv, ScanInv, SetBackends
  PROVE  ScanInv'
BY DEF SetBackends, NoReaders, ScanInv, Scanned
=============================================================================
