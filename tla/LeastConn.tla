------------------------------ MODULE LeastConn ------------------------------
(***************************************************************************)
(* The least-connections balancer (internal/balancer/leastconn.go) as the  *)
(* connections of a gate use it.  The module has no behaviour of its own:  *)
(* TcpTunnel and HttpGate say when a connection calls which operation.     *)
(*                                                                         *)
(* Next and SetBackends hold lc.mu (a sync.RWMutex) from beginning to end; *)
(* Acquire and Release hold it only to look the counter up and add outside *)
(* the lock.  Every load and every add of a counter is a step of its own.  *)
(* lc.conns always has the addresses of lc.backends as its keys, so the    *)
(* map is represented by the counters made for each address: the last one  *)
(* is in the map as long as the address is in the list, and the earlier    *)
(* ones are still reachable from calls that looked them up.                *)
(* Local variables of a call return to their initial value when it ends.   *)
(***************************************************************************)
EXTENDS Backends, FiniteSets

CONSTANT Conns  \* client connections (each a goroutine of the gate)
ASSUME ConnsAssumption == IsFiniteSet(Conns)

VARIABLES backends,  \* lc.backends
          count,     \* the counters made for each address, oldest first
          pending,   \* the list a SetBackends call waits to install, or <<None>>
          sets,      \* calls of SetBackends so far
          removed,   \* history: the addresses that were ever taken out of the list
          at,        \* where each connection is in the balancer
          addr,      \* best / the address a connection got from Next
          low,       \* bestCount
          scan,      \* position of Next's loop
          ptr,       \* the counter Acquire or Release looked up (0 is nil)
          disturbed  \* history: a counter changed during the scan

lcVars == <<backends, count, pending, sets, removed, at, addr, low, scan, ptr, disturbed>>
NoList == <<None>>

(* lc.conns[a]: the number of a's counter that is in the map, 0 for nil. *)
Cell(a) == IF a \in Range(backends) THEN Len(count[a]) ELSE 0

LCInit ==
  /\ backends \in Lists
  /\ count = [a \in Addrs |-> IF a \in Range(backends) THEN <<0>> ELSE <<>>]
  /\ pending = NoList /\ sets = 0 /\ removed = {}
  /\ at = [p \in Conns |-> "out"]
  /\ addr = [p \in Conns |-> None]
  /\ low = [p \in Conns |-> 0]
  /\ scan = [p \in Conns |-> 1]
  /\ ptr = [p \in Conns |-> 0]
  /\ disturbed = [p \in Conns |-> FALSE]

-----------------------------------------------------------------------------
(* Wrong variant: readers overtake a waiting writer. *)
NextBeginBarging(p) ==
  /\ at[p] = "out"
  /\ at' = [at EXCEPT ![p] = "scan"]
  /\ addr' = [addr EXCEPT ![p] = None]
  /\ UNCHANGED <<backends, count, pending, sets, removed, low, scan, ptr, disturbed>>

(* Next.  A waiting writer keeps new readers out. *)
NextBegin(p) ==
  /\ at[p] = "out" /\ pending = NoList
  /\ at' = [at EXCEPT ![p] = "scan"]
  /\ addr' = [addr EXCEPT ![p] = None]
  /\ UNCHANGED <<backends, count, pending, sets, removed, low, scan, ptr, disturbed>>

(* Wrong variant: a tie goes to the later backend. *)
BetterOrEqual(c, lowest, i) == i = 1 \/ c <= lowest
Better(c, lowest, i) == i = 1 \/ c < lowest

(* One round of the loop: c := lc.count(addr); c < bestCount? *)
NextScan(p) ==
  /\ at[p] = "scan" /\ scan[p] <= Len(backends)
  /\ LET this == backends[scan[p]]
         c == count[this][Cell(this)]
     IN IF Better(c, low[p], scan[p])
          THEN addr' = [addr EXCEPT ![p] = this] /\ low' = [low EXCEPT ![p] = c]
          ELSE UNCHANGED <<addr, low>>
  /\ scan' = [scan EXCEPT ![p] = @ + 1]
  /\ UNCHANGED <<backends, count, pending, sets, removed, at, ptr, disturbed>>

NextReturn(p) ==
  /\ at[p] = "scan" /\ scan[p] > Len(backends)
  /\ at' = [at EXCEPT ![p] = "chosen"]
  /\ low' = [low EXCEPT ![p] = 0] /\ scan' = [scan EXCEPT ![p] = 1]
  /\ disturbed' = [disturbed EXCEPT ![p] = FALSE]
  /\ UNCHANGED <<backends, count, pending, sets, removed, addr, ptr>>

-----------------------------------------------------------------------------
(* Acquire and Release look the counter up under the read lock ... *)
LookUp(p, from, to) ==
  /\ at[p] = from /\ pending = NoList
  /\ at' = [at EXCEPT ![p] = to]
  /\ ptr' = [ptr EXCEPT ![p] = Cell(addr[p])]
  /\ UNCHANGED <<backends, count, pending, sets, removed, addr, low, scan, disturbed>>

(* ... and add to it, if there was one, after unlocking. *)
AddTo(p, delta, to) ==
  /\ count' = IF ptr[p] = 0 THEN count
              ELSE [count EXCEPT ![addr[p]][ptr[p]] = @ + delta]
  /\ disturbed' = [q \in Conns |-> disturbed[q] \/ (at[q] = "scan" /\ ptr[p] # 0)]
  /\ at' = [at EXCEPT ![p] = to]
  /\ ptr' = [ptr EXCEPT ![p] = 0]
  /\ UNCHANGED <<backends, pending, sets, removed, addr, low, scan>>

Acquire(p) == addr[p] # None /\ LookUp(p, "chosen", "acquiring")
AcquireAdd(p) == at[p] = "acquiring" /\ AddTo(p, 1, "held")
Release(p) == LookUp(p, "held", "releasing")
ReleaseAdd(p) == at[p] = "releasing" /\ AddTo(p, -1, "out")

-----------------------------------------------------------------------------
(* SetBackends: wait for the readers to leave ... *)
SetBackendsWait ==
  /\ pending = NoList /\ sets < MaxSets
  /\ pending' \in Lists
  /\ sets' = sets + 1
  /\ UNCHANGED <<backends, count, removed, at, addr, low, scan, ptr, disturbed>>

(* Wrong variant: every listed address gets a new counter. *)
FreshCounters(list, a) ==
  IF a \in Range(list) THEN Append(count[a], 0) ELSE count[a]

(* A counter for each new address; the others keep theirs. *)
NextCounters(list, a) ==
  IF a \in Range(list) /\ a \notin Range(backends) THEN Append(count[a], 0) ELSE count[a]

NoReaders == \A p \in Conns : at[p] # "scan"

(* ... and replace the list. *)
SetBackends ==
  /\ pending # NoList /\ NoReaders
  /\ count' = [a \in Addrs |-> NextCounters(pending, a)]
  /\ backends' = pending
  /\ removed' = removed \cup (Range(backends) \ Range(pending))
  /\ pending' = NoList
  /\ UNCHANGED <<sets, at, addr, low, scan, ptr, disturbed>>

-----------------------------------------------------------------------------
LCTypeOK ==
  /\ backends \in Lists
  /\ count \in [Addrs -> Seq(Int)]
  /\ \A a \in Range(backends) : count[a] # <<>>
  /\ pending \in Lists \cup {NoList}
  /\ sets \in 0..MaxSets
  /\ removed \subseteq Addrs
  /\ at \in [Conns -> {"out", "scan", "chosen", "acquiring", "held", "releasing", "again"}]
  /\ addr \in [Conns -> Addrs \cup {None}]
  /\ low \in [Conns -> Int]
  /\ scan \in [Conns -> Nat \ {0}]
  /\ ptr \in [Conns -> Nat]
  /\ \A p \in Conns : addr[p] \in Addrs => ptr[p] <= Len(count[addr[p]])
  /\ disturbed \in [Conns -> BOOLEAN]

(* The connections whose Acquire has added and whose Release has not. *)
Holders(a) == {p \in Conns : addr[p] = a /\ at[p] \in {"held", "releasing"}}

NeverRemoved(a) == a \in Range(backends) \ removed

(* The counter of a backend that was never taken out of the list is the      *)
(* number of connections on it, whatever lists were installed meanwhile and  *)
(* between whichever look-up and add.                                        *)
CountsHolders ==
  \A a \in Addrs : NeverRemoved(a) => count[a][Cell(a)] = Cardinality(Holders(a))

(* A call of Next returns a backend of the list it is asked of, and the      *)
(* empty string only for an empty list; if no counter changed during the     *)
(* call it is the first of the least-loaded backends.                        *)
LeastLoaded ==
  [][\A p \in Conns : at[p] = "scan" /\ at'[p] = "chosen" =>
       /\ addr[p] \in Answers(backends)
       /\ ~disturbed[p] /\ backends # <<>> =>
            \E i \in 1..Len(backends) :
              /\ addr[p] = backends[i]
              /\ \A j \in 1..Len(backends) :
                   LET mine == count[backends[i]][Cell(backends[i])]
                       other == count[backends[j]][Cell(backends[j])]
                   IN mine <= other /\ (j < i => mine < other)]_lcVars

(* A SetBackends call is never starved by readers that keep coming. *)
SetBackendsReturns == pending # NoList ~> pending = NoList

(* A counter named "active connection count" is not negative.  It becomes    *)
(* negative when a backend is dropped and put back while a connection it had *)
(* is still open: the new counter meets the old Release.                     *)
NonNegative == \A a \in Addrs : \A i \in 1..Len(count[a]) : count[a][i] >= 0
=============================================================================
