--------------------------- MODULE HttpGate_proofs ---------------------------
(***************************************************************************)
(* Theorems about an HTTP gate over the least-connections balancer, for    *)
(* any addresses, lists, requests, replacements of the list, panics and    *)
(* protocol switches.                                                      *)
(***************************************************************************)
EXTENDS HttpGate, LeastConn_proofs

(* The types of the gate's own variables but those the counting implies. *)
GateType ==
  /\ stage \in [Conns -> {"none", "direct", "body", "upgrade", "failed"}]
  /\ gauge \in Int /\ aborted \in 0..MaxAborts /\ upgrades \in 0..MaxUpgrades
  /\ over \in [Addrs -> Nat]
  /\ reply \in [Conns -> [noted : Statuses, told : Statuses, meant : Statuses]]

(* How the handler chain and the balancer go together. *)
Placed ==
  \A p \in Conns :
    /\ stage[p] = "none" => at[p] = "out"
    /\ stage[p] = "direct" => at[p] \in {"scan", "chosen", "acquiring", "held"}
    /\ stage[p] \in {"body", "upgrade"} => at[p] \in {"releasing", "out"}
    /\ stage[p] = "failed" => at[p] \in {"releasing", "out", "again"}

(* Every surplus is what second releases took too much. *)
Balanced ==
  /\ \A a \in Addrs : NeverRemoved(a) => Surplus(a) = 0 - over[a]
  /\ \A a \in Addrs : count[a] = <<>> => over[a] = 0

(* The protocol switches of address a whose second release is to come. *)
Due(a) == {p \in Conns : addr[p] = a /\ (stage[p] = "upgrade" \/ at[p] = "again")}
OverBound == \A a \in Addrs : over[a] + Cardinality(Due(a)) <= upgrades

(* What the wrappers noted decides what the client is told. *)
Noted ==
  \A p \in Conns :
    /\ reply[p].noted = "none" => reply[p] = NoReply
    /\ stage[p] \in {"body", "failed"} => reply[p].noted # "none"
    /\ reply[p].noted = "1xx" => reply[p].told \in {"none", "200"}
    /\ reply[p].noted \notin {"none", "1xx"} =>
         /\ reply[p].told = reply[p].noted /\ reply[p].meant = reply[p].noted
         /\ stage[p] \in {"body", "failed"}
    /\ stage[p] = "none" => reply[p] = NoReply

(* The gauge has been counted up for the requests in the chain and for those *)
(* whose body broke off.                                                     *)
GaugeInv == gauge = Cardinality(Active) + aborted

(* The inductive invariant. *)
IInv == LCInv /\ GateType /\ Placed /\ Balanced /\ OverBound /\ GaugeInv /\ Noted

USE BoundsAssumption, ConnsAssumption

-----------------------------------------------------------------------------
LEMMA IInvInit == Init => IInv
<1> SUFFICES ASSUME Init PROVE IInv
  OBVIOUS
<1>1. LCInit
  BY DEF Init
<1>2. LCInv /\ \A a \in Addrs : NeverRemoved(a) => Surplus(a) = 0
  BY <1>1, LCInitInv
<1>3. GateType /\ Placed
  BY DEF Init, LCInit, GateType, Placed, NoReply, Statuses
<1>4. Balanced
  BY <1>2 DEF Init, Balanced
<1>5. \A a \in Addrs : Due(a) = {}
  BY DEF Init, LCInit, Due
<1>6. OverBound
  BY <1>5, FS_EmptySet DEF Init, OverBound
<1>7. {p \in Conns : stage[p] # "none"} = {}
  BY DEF Init
<1>8. GaugeInv
  BY <1>7, FS_EmptySet DEF Init, GaugeInv, Active
<1>9. Noted
  BY DEF Init, Noted, NoReply
<1> QED BY <1>2, <1>3, <1>4, <1>6, <1>8, <1>9 DEF IInv

-----------------------------------------------------------------------------
(* Every step but the second release keeps the balance. *)
LEMMA BalanceKept ==
  ASSUME IInv, KeepsSurplus, over' = over, LCInv',
         \A a \in Addrs : count'[a] = <<>> => count[a] = <<>>
  PROVE  Balanced'
BY DEF IInv, KeepsSurplus, Balanced

LEMMA AgainKept ==
  ASSUME IInv, NEW p \in Conns, AgainDone(p)
  PROVE  LCInv' /\ Balanced'
<1>1. /\ at[p] = "again" /\ AddTo(p, -1, "out") /\ at' = [at EXCEPT ![p] = "out"] /\ addr' = addr
      /\ over' = IF ptr[p] = 0 THEN over ELSE [over EXCEPT ![addr[p]] = @ + 1]
  BY DEF AgainDone, AddTo
<1>2. /\ LCInv'
      /\ \A a \in Addrs : NeverRemoved(a)' =>
           NeverRemoved(a) /\ Value(a)' = IF a = addr[p] THEN Value(a) + (-1) ELSE Value(a)
      /\ \A a \in Addrs : count[a] = <<>> => a # addr[p] \/ ptr[p] = 0
  BY <1>1, AddToInv DEF Adding, IInv
<1>3. at \in [Conns -> {"out", "scan", "chosen", "acquiring", "held", "releasing", "again"}]
      /\ over \in [Addrs -> Nat]
  BY DEF IInv, LCInv, LCTypeOK, GateType
<1>4. \A a \in Addrs : count'[a] = <<>> => count[a] = <<>>
  BY <1>1, CountersStay DEF Adding, IInv
<1>5. ASSUME NEW a \in Addrs, NeverRemoved(a)' PROVE Surplus(a)' = 0 - over'[a]
  <2>1. NeverRemoved(a) /\ Value(a) \in Int /\ Cardinality(Holders(a)) \in Nat
    BY <1>2, <1>5, CellType, HoldersFinite DEF IInv, LCInv, NeverRemoved
  <2>2. Holders(a)' = Holders(a)
    BY <1>1, <1>3 DEF Holders
  <2>3. Value(a) - Cardinality(Holders(a)) = 0 - over[a]
    BY <2>1 DEF IInv, Balanced, Surplus
  <2>4. CASE a = addr[p]
    <3>1. ptr[p] # 0
      BY <1>1, <2>1, <2>4 DEF IInv, LCInv, Pointers, Adding
    <3>2. over'[a] = over[a] + 1
      BY <1>1, <1>3, <2>4, <3>1
    <3>3. Value(a)' = Value(a) - 1
      BY <1>2, <1>5, <2>1, <2>4
    <3> QED BY <1>3, <2>1, <2>2, <2>3, <3>2, <3>3 DEF Surplus
  <2>5. CASE a # addr[p]
    <3>1. over'[a] = over[a] /\ Value(a)' = Value(a)
      BY <1>1, <1>2, <1>3, <1>5, <2>5
    <3> QED BY <2>2, <2>3, <3>1 DEF Surplus
  <2> QED BY <2>4, <2>5
<1>6. ASSUME NEW a \in Addrs, count'[a] = <<>> PROVE over'[a] = 0
  <2>1. count[a] = <<>> /\ over[a] = 0
    BY <1>4, <1>6 DEF IInv, Balanced
  <2>2. over'[a] = over[a]
    BY <1>1, <1>2, <1>3, <2>1
  <2> QED BY <2>1, <2>2
<1> QED BY <1>2, <1>5, <1>6 DEF Balanced

(* Every step, seen from the balancer. *)
LEMMA BalancerKept ==
  ASSUME IInv, [Next]_vars
  PROVE  LCInv' /\ Balanced'
<1>1. LCInv
  BY DEF IInv
<1>2. ASSUME UNCHANGED lcVars, over' = over PROVE LCInv' /\ Balanced'
  <2>1. UNCHANGED <<backends, count, pending, sets, removed, at, addr, low, scan, ptr, disturbed>>
    BY <1>2 DEF lcVars
  <2>2. LCInv'
    BY <1>1, <2>1 DEF LCInv, LCTypeOK, Counters, Addresses, Pointers, NeverRemoved
  <2>3. \A a \in Addrs : Holders(a)' = Holders(a)
    BY <2>1 DEF Holders
  <2>4. KeepsSurplus
    BY <1>1, <2>1, <2>3, SameSurplus
  <2> QED BY <1>2, <2>1, <2>2, <2>4, BalanceKept
<1>3. CASE Pulse
  <2>1. over' = over
    BY <1>3 DEF Pulse, httpVars
  <2>2. CASE SetBackendsWait
    <3>1. count' = count
      BY <2>2 DEF SetBackendsWait
    <3> QED BY <1>1, <2>1, <2>2, <3>1, SetBackendsWaitInv, BalanceKept
  <2>3. CASE SetBackends
    <3>1. \A a \in Addrs : count'[a] = <<>> => count[a] = <<>>
      BY <1>1, <2>3, CountersStay
    <3> QED BY <1>1, <2>1, <2>3, <3>1, SetBackendsInv, BalanceKept
  <2> QED BY <1>3, <2>2, <2>3 DEF Pulse
<1>4. ASSUME NEW p \in Conns, Request(p) PROVE LCInv' /\ Balanced'
  <2>1. CASE Arrive(p)
    <3>1. NextBegin(p) /\ over' = over /\ count' = count
      BY <2>1 DEF Arrive, NextBegin
    <3> QED BY <1>1, <3>1, NextBeginInv, BalanceKept
  <2>2. CASE Choose(p)
    <3>1. over' = over /\ count' = count
      BY <2>2 DEF Choose, NextScan, NextReturn, httpVars
    <3> QED BY <1>1, <2>2, <3>1, NextScanInv, NextReturnInv, BalanceKept DEF Choose
  <2>3. CASE Direct(p) /\ Acquire(p)
    <3>1. LookUp(p, "chosen", "acquiring") /\ over' = over /\ count' = count
      BY <2>3 DEF Direct, Acquire, LookUp, httpVars
    <3> QED BY <1>1, <3>1, LookUpInv, BalanceKept
  <2>4. CASE Direct(p) /\ AcquireAdd(p)
    <3>1. over' = over /\ at[p] = "acquiring" /\ AddTo(p, 1, "held")
      BY <2>4 DEF Direct, AcquireAdd, httpVars
    <3>2. \A a \in Addrs : count'[a] = <<>> => count[a] = <<>>
      BY <1>1, <3>1, CountersStay DEF Adding
    <3> QED BY <1>1, <2>4, <3>1, <3>2, AcquireAddInv, BalanceKept
  <2>5. CASE NoBackend(p)
    <3>1. /\ at[p] = "chosen" /\ at' = [at EXCEPT ![p] = "out"] /\ over' = over
          /\ UNCHANGED <<backends, count, pending, sets, removed, addr, low, scan, ptr, disturbed>>
      BY <2>5 DEF NoBackend
    <3> QED BY <1>1, <3>1, LeaveInv, BalanceKept
  <2>6. CASE Headers(p) \/ Upgrade(p) \/ RoundTripFails(p)
    <3>1. LookUp(p, "held", "releasing") /\ over' = over /\ count' = count
      BY <2>6 DEF Headers, Upgrade, RoundTripFails, Release, LookUp
    <3> QED BY <1>1, <3>1, LookUpInv, BalanceKept
  <2>7. CASE UpgradeFails(p)
    <3>1. LookUp(p, "out", "again") /\ over' = over /\ count' = count
      BY <2>7 DEF UpgradeFails, LookUp
    <3> QED BY <1>1, <3>1, LookUpInv, BalanceKept
  <2>8. CASE ReleaseDone(p)
    <3>1. ReleaseAdd(p) /\ over' = over /\ at[p] = "releasing" /\ AddTo(p, -1, "out")
      BY <2>8 DEF ReleaseDone, ReleaseAdd, httpVars
    <3>2. \A a \in Addrs : count'[a] = <<>> => count[a] = <<>>
      BY <1>1, <3>1, CountersStay DEF Adding
    <3> QED BY <1>1, <3>1, <3>2, ReleaseAddInv, BalanceKept
  <2>9. CASE AgainDone(p)
    BY <2>9, AgainKept
  <2>10. CASE Hint(p) \/ StatusImplied(p) \/ Finish(p) \/ BodyBreaks(p)
    BY <1>2, <2>10 DEF Hint, StatusImplied, Finish, BodyBreaks, httpVars
  <2> QED BY <1>4, <2>1, <2>2, <2>3, <2>4, <2>5, <2>6, <2>7, <2>8, <2>9, <2>10 DEF Request, Direct
<1>5. CASE UNCHANGED vars
  BY <1>2, <1>5 DEF vars, httpVars
<1> QED BY <1>3, <1>4, <1>5 DEF Next

-----------------------------------------------------------------------------
(* The steps of the balancer as the gate sees them. *)
LEMMA AtTypes ==
  ASSUME IInv
  PROVE  /\ at \in [Conns -> {"out", "scan", "chosen", "acquiring", "held", "releasing", "again"}]
         /\ addr \in [Conns -> Addrs \cup {None}]
         /\ stage \in [Conns -> {"none", "direct", "body", "upgrade", "failed"}]
         /\ gauge \in Int /\ aborted \in 0..MaxAborts /\ upgrades \in 0..MaxUpgrades
         /\ over \in [Addrs -> Nat]
         /\ reply \in [Conns -> [noted : Statuses, told : Statuses, meant : Statuses]]
BY DEF IInv, LCInv, LCTypeOK, GateType

LEMMA WriteHeaderType ==
  ASSUME GateType, NEW p \in Conns, NEW code \in Statuses, WriteHeader(p, code)
  PROVE  reply' \in [Conns -> [noted : Statuses, told : Statuses, meant : Statuses]]
<1>1. Final(code) \in Statuses
  BY DEF Final, Statuses
<1> QED BY <1>1 DEF GateType, WriteHeader

LEMMA TypeKept ==
  ASSUME IInv, [Next]_vars
  PROVE  GateType'
<1> USE AtTypes DEF GateType
<1>1. CASE Pulse \/ UNCHANGED vars
  BY <1>1 DEF Pulse, vars, httpVars
<1>2. ASSUME NEW p \in Conns, Request(p) PROVE GateType'
  <2>1. CASE Choose(p) \/ Direct(p) \/ ReleaseDone(p)
    BY <2>1 DEF Choose, Direct, ReleaseDone, httpVars
  <2>2. CASE Arrive(p)
    BY <2>2 DEF Arrive, Goto
  <2>6. CASE NoBackend(p) \/ Headers(p) \/ UpgradeFails(p) \/ RoundTripFails(p)
    <3>1. \E code \in Statuses : WriteHeader(p, code)
      BY <2>6 DEF NoBackend, Headers, UpgradeFails, RoundTripFails, Statuses
    <3>2. reply' \in [Conns -> [noted : Statuses, told : Statuses, meant : Statuses]]
      BY <3>1, WriteHeaderType DEF IInv
    <3>3. stage' \in [Conns -> {"none", "direct", "body", "upgrade", "failed"}]
          /\ UNCHANGED <<gauge, aborted, upgrades, over>>
      BY <2>6 DEF NoBackend, Headers, UpgradeFails, RoundTripFails, Goto
    <3> QED BY <3>2, <3>3
  <2>7. CASE Hint(p)
    <3>1. WriteHeader(p, "1xx") /\ UNCHANGED httpVars /\ "1xx" \in Statuses
      BY <2>7 DEF Hint, Statuses
    <3> QED BY <3>1, WriteHeaderType DEF IInv, httpVars
  <2>8. CASE StatusImplied(p)
    <3>1. reply' = [reply EXCEPT ![p].told = "200"] /\ "200" \in Statuses
      BY <2>8 DEF StatusImplied, Statuses
    <3>2. reply' \in [Conns -> [noted : Statuses, told : Statuses, meant : Statuses]]
      BY <3>1
    <3> QED BY <2>8, <3>2 DEF StatusImplied, httpVars
  <2>9. CASE Finish(p)
    BY <2>9 DEF Finish, Goto, NoReply, Statuses
  <2>3. CASE Upgrade(p)
    BY <2>3 DEF Upgrade, Goto
  <2>4. CASE BodyBreaks(p)
    BY <2>4 DEF BodyBreaks, Goto, NoReply, Statuses
  <2>5. CASE AgainDone(p)
    <3>1. over' = IF ptr[p] = 0 THEN over ELSE [over EXCEPT ![addr[p]] = @ + 1]
      BY <2>5 DEF AgainDone
    <3>2. over' \in [Addrs -> Nat]
      <4>1. \A a \in Addrs : over[a] + 1 \in Nat
        OBVIOUS
      <4> QED BY <3>1, <4>1
    <3> QED BY <2>5, <3>2 DEF AgainDone
  <2> QED BY <1>2, <2>1, <2>2, <2>3, <2>4, <2>5, <2>6, <2>7, <2>8, <2>9 DEF Request
<1> QED BY <1>1, <1>2 DEF Next

(* Every step, seen from the handler chain and the loops of the balancer. *)
LEMMA PlacedKept ==
  ASSUME IInv, [Next]_vars
  PROVE  Placed'
<1> USE AtTypes DEF IInv, Placed
<1>1. CASE Pulse \/ UNCHANGED vars
  BY <1>1 DEF Pulse, vars, lcVars, httpVars, SetBackendsWait, SetBackends
<1>2. ASSUME NEW p \in Conns, Request(p) PROVE Placed'
  <2>1. CASE Arrive(p)
    BY <2>1 DEF Arrive, NextBegin, Goto
  <2>2. CASE Choose(p)
    BY <2>2 DEF Choose, NextScan, NextReturn, httpVars
  <2>3. CASE Direct(p)
    BY <2>3 DEF Direct, Acquire, AcquireAdd, LookUp, AddTo, httpVars
  <2>4. CASE NoBackend(p)
    BY <2>4 DEF NoBackend, Goto
  <2>5. CASE Headers(p) \/ Upgrade(p) \/ RoundTripFails(p)
    BY <2>5 DEF Headers, Upgrade, RoundTripFails, Release, LookUp, Goto
  <2>6. CASE UpgradeFails(p)
    BY <2>6 DEF UpgradeFails, LookUp, Goto
  <2>7. CASE ReleaseDone(p)
    BY <2>7 DEF ReleaseDone, ReleaseAdd, AddTo, httpVars
  <2>8. CASE AgainDone(p)
    BY <2>8 DEF AgainDone, AddTo
  <2>9. CASE Finish(p) \/ BodyBreaks(p)
    BY <2>9 DEF Finish, BodyBreaks, Goto, lcVars
  <2>10. CASE Hint(p) \/ StatusImplied(p)
    BY <2>10 DEF Hint, StatusImplied, lcVars, httpVars
  <2> QED BY <1>2, <2>1, <2>2, <2>3, <2>4, <2>5, <2>6, <2>7, <2>8, <2>9, <2>10 DEF Request
<1> QED BY <1>1, <1>2 DEF Next

-----------------------------------------------------------------------------
LEMMA DueFinite ==
  ASSUME NEW a PROVE IsFiniteSet(Due(a)) /\ Cardinality(Due(a)) \in Nat
<1>1. Due(a) \subseteq Conns
  BY DEF Due
<1> QED BY <1>1, FS_Subset, FS_CardinalityType

(* A second release is due once for every protocol switch, and made once. *)
LEMMA OverKept ==
  ASSUME IInv, [Next]_vars
  PROVE  OverBound'
<1> USE AtTypes
<1>1. ASSUME over' = over, upgrades' = upgrades, \A a \in Addrs : Due(a)' = Due(a)
      PROVE  OverBound'
  BY <1>1 DEF IInv, OverBound
<1>2. CASE Pulse \/ UNCHANGED vars
  <2>1. UNCHANGED <<over, upgrades, stage, at, addr>>
    BY <1>2 DEF Pulse, vars, lcVars, httpVars, SetBackendsWait, SetBackends
  <2>2. \A a \in Addrs : Due(a)' = Due(a)
    BY <2>1 DEF Due
  <2> QED BY <1>1, <2>1, <2>2
<1>3. ASSUME NEW p \in Conns, Request(p) PROVE OverBound'
  <2>1. CASE Arrive(p)
    <3>1. /\ stage[p] = "none" /\ stage' = [stage EXCEPT ![p] = "direct"]
          /\ at[p] = "out" /\ at' = [at EXCEPT ![p] = "scan"] /\ addr' = [addr EXCEPT ![p] = None]
          /\ UNCHANGED <<over, upgrades>>
      BY <2>1 DEF Arrive, NextBegin, Goto
    <3>2. \A a \in Addrs : Due(a)' = Due(a)
      BY <3>1 DEF Due
    <3> QED BY <1>1, <3>1, <3>2
  <2>2. CASE Choose(p)
    <3>1. /\ at[p] = "scan" /\ at'[p] # "again" /\ UNCHANGED <<stage, over, upgrades>>
          /\ \A q \in Conns \ {p} : at'[q] = at[q] /\ addr'[q] = addr[q]
      <4>1. CASE NextScan(p)
        BY <2>2, <4>1 DEF Choose, NextScan, httpVars
      <4>2. CASE NextReturn(p)
        BY <2>2, <4>2 DEF Choose, NextReturn, httpVars
      <4> QED BY <2>2, <4>1, <4>2 DEF Choose
    <3>2. stage[p] # "upgrade"
      BY <3>1 DEF IInv, Placed
    <3>3. \A a \in Addrs : Due(a)' = Due(a)
      BY <3>1, <3>2 DEF Due
    <3> QED BY <1>1, <3>1, <3>3
  <2>3. CASE Direct(p) \/ ReleaseDone(p)
    <3>1. /\ at[p] # "again" /\ at'[p] # "again" /\ UNCHANGED <<stage, addr, over, upgrades>>
          /\ \A q \in Conns \ {p} : at'[q] = at[q]
      BY <2>3 DEF Direct, ReleaseDone, Acquire, AcquireAdd, ReleaseAdd, LookUp, AddTo, httpVars
    <3>2. \A a \in Addrs : Due(a)' = Due(a)
      BY <3>1 DEF Due
    <3> QED BY <1>1, <3>1, <3>2
  <2>4. CASE NoBackend(p) \/ Headers(p) \/ RoundTripFails(p)
    <3>1. /\ stage[p] = "direct" /\ stage'[p] # "upgrade" /\ at[p] # "again" /\ at'[p] # "again"
          /\ UNCHANGED <<addr, over, upgrades>>
          /\ \A q \in Conns \ {p} : at'[q] = at[q] /\ stage'[q] = stage[q]
      BY <2>4 DEF NoBackend, Headers, RoundTripFails, Release, LookUp, Goto
    <3>2. \A a \in Addrs : Due(a)' = Due(a)
      BY <3>1 DEF Due
    <3> QED BY <1>1, <3>1, <3>2
  <2>5. CASE UpgradeFails(p)
    <3>1. /\ stage[p] = "upgrade" /\ at'[p] = "again" /\ UNCHANGED <<addr, over, upgrades>>
          /\ \A q \in Conns \ {p} : at'[q] = at[q] /\ stage'[q] = stage[q]
      BY <2>5 DEF UpgradeFails, LookUp, Goto
    <3>2. \A a \in Addrs : Due(a)' = Due(a)
      BY <3>1 DEF Due
    <3> QED BY <1>1, <3>1, <3>2
  <2>6. CASE Finish(p) \/ BodyBreaks(p)
    <3>1. /\ stage[p] # "upgrade" /\ stage'[p] = "none" /\ UNCHANGED <<at, addr, over, upgrades>>
          /\ \A q \in Conns \ {p} : stage'[q] = stage[q]
      BY <2>6 DEF Finish, BodyBreaks, Goto, lcVars
    <3>2. \A a \in Addrs : Due(a)' = Due(a)
      BY <3>1 DEF Due
    <3> QED BY <1>1, <3>1, <3>2
  <2>7. CASE Upgrade(p)
    <3>1. /\ stage[p] = "direct" /\ stage'[p] = "upgrade" /\ at[p] # "again"
          /\ upgrades' = upgrades + 1 /\ UNCHANGED <<addr, over>>
          /\ \A q \in Conns \ {p} : at'[q] = at[q] /\ stage'[q] = stage[q]
      BY <2>7 DEF Upgrade, Release, LookUp, Goto
    <3>2. ASSUME NEW a \in Addrs PROVE over'[a] + Cardinality(Due(a))' <= upgrades'
      <4>1. Due(a)' = Due(a) \/ Due(a)' = Due(a) \cup {p}
        BY <3>1 DEF Due
      <4>2. p \notin Due(a)
        BY <3>1 DEF Due
      <4>3. Cardinality(Due(a))' = Cardinality(Due(a)) \/ Cardinality(Due(a))' = Cardinality(Due(a)) + 1
        BY <4>1, <4>2, DueFinite, FS_AddElement
      <4>4. over[a] + Cardinality(Due(a)) <= upgrades
        BY DEF IInv, OverBound
      <4> QED BY <3>1, <4>3, <4>4, DueFinite
    <3> QED BY <3>2 DEF OverBound
  <2>8. CASE AgainDone(p)
    <3>1. /\ at[p] = "again" /\ at'[p] = "out" /\ UNCHANGED <<stage, addr, upgrades>>
          /\ \A q \in Conns \ {p} : at'[q] = at[q]
          /\ over' = IF ptr[p] = 0 THEN over ELSE [over EXCEPT ![addr[p]] = @ + 1]
      BY <2>8 DEF AgainDone, AddTo
    <3>2. stage[p] # "upgrade"
      BY <3>1 DEF IInv, Placed
    <3>3. ASSUME NEW a \in Addrs PROVE over'[a] + Cardinality(Due(a))' <= upgrades'
      <4>1. over[a] + Cardinality(Due(a)) <= upgrades
        BY DEF IInv, OverBound
      <4>2. CASE a = addr[p]
        <5>1. Due(a)' = Due(a) \ {p} /\ p \in Due(a)
          BY <3>1, <3>2, <4>2 DEF Due
        <5>2. Cardinality(Due(a))' = Cardinality(Due(a)) - 1
          BY <5>1, DueFinite, FS_RemoveElement
        <5>3. over'[a] = over[a] \/ over'[a] = over[a] + 1
          BY <3>1, <4>2
        <5> QED BY <3>1, <4>1, <5>2, <5>3, DueFinite
      <4>3. CASE a # addr[p]
        <5>1. Due(a)' = Due(a)
          BY <3>1, <4>3 DEF Due
        <5>2. over'[a] = over[a]
          BY <3>1, <4>3
        <5> QED BY <3>1, <4>1, <5>1, <5>2
      <4> QED BY <4>2, <4>3
    <3> QED BY <3>3 DEF OverBound
  <2>9. CASE Hint(p) \/ StatusImplied(p)
    <3>1. UNCHANGED <<over, upgrades, stage, at, addr>>
      BY <2>9 DEF Hint, StatusImplied, lcVars, httpVars
    <3>2. \A a \in Addrs : Due(a)' = Due(a)
      BY <3>1 DEF Due
    <3> QED BY <1>1, <3>1, <3>2
  <2> QED BY <1>3, <2>1, <2>2, <2>3, <2>4, <2>5, <2>6, <2>7, <2>8, <2>9 DEF Request
<1> QED BY <1>2, <1>3 DEF Next

-----------------------------------------------------------------------------
LEMMA ActiveFinite == IsFiniteSet(Active) /\ Cardinality(Active) \in Nat
<1>1. Active \subseteq Conns
  BY DEF Active
<1> QED BY <1>1, FS_Subset, FS_CardinalityType

(* The gauge goes up and down with the requests, but for the panics. *)
LEMMA GaugeKept ==
  ASSUME IInv, [Next]_vars
  PROVE  GaugeInv'
<1> USE AtTypes
<1>1. gauge = Cardinality(Active) + aborted
  BY DEF IInv, GaugeInv, Active
<1>2. SUFFICES gauge' = Cardinality(Active)' + aborted'
  BY DEF GaugeInv, Active
<1>3. ASSUME UNCHANGED <<gauge, aborted>>, Active' = Active PROVE gauge' = Cardinality(Active)' + aborted'
  BY <1>1, <1>3
<1>4. CASE Pulse \/ UNCHANGED vars
  <2>1. UNCHANGED <<gauge, aborted, stage>>
    BY <1>4 DEF Pulse, vars, httpVars
  <2> QED BY <1>3, <2>1 DEF Active
<1>5. ASSUME NEW p \in Conns, Request(p) PROVE gauge' = Cardinality(Active)' + aborted'
  <2>1. CASE Choose(p) \/ Direct(p) \/ ReleaseDone(p) \/ AgainDone(p) \/ Hint(p) \/ StatusImplied(p)
    <3>1. UNCHANGED <<gauge, aborted, stage>>
      BY <2>1 DEF Choose, Direct, ReleaseDone, AgainDone, Hint, StatusImplied, httpVars
    <3> QED BY <1>3, <3>1 DEF Active
  <2>2. CASE NoBackend(p) \/ Headers(p) \/ Upgrade(p) \/ UpgradeFails(p) \/ RoundTripFails(p)
    <3>1. /\ UNCHANGED <<gauge, aborted>> /\ stage[p] # "none" /\ stage'[p] # "none"
          /\ \A q \in Conns \ {p} : stage'[q] = stage[q]
      BY <2>2 DEF NoBackend, Headers, Upgrade, UpgradeFails, RoundTripFails, Goto
    <3>2. Active' = Active
      BY <3>1 DEF Active
    <3> QED BY <1>3, <3>1, <3>2
  <2>3. CASE Arrive(p)
    <3>1. /\ gauge' = gauge + 1 /\ aborted' = aborted /\ stage[p] = "none" /\ stage'[p] = "direct"
          /\ \A q \in Conns \ {p} : stage'[q] = stage[q]
      BY <2>3 DEF Arrive, Goto
    <3>2. Active' = Active \cup {p} /\ p \notin Active
      BY <3>1 DEF Active
    <3>3. Cardinality(Active)' = Cardinality(Active) + 1
      BY <3>2, ActiveFinite, FS_AddElement
    <3> QED BY <1>1, <3>1, <3>3, ActiveFinite
  <2>4. CASE Finish(p) \/ BodyBreaks(p)
    <3>1. /\ stage[p] # "none" /\ stage'[p] = "none"
          /\ \A q \in Conns \ {p} : stage'[q] = stage[q]
          /\ \/ gauge' = gauge - 1 /\ aborted' = aborted
             \/ gauge' = gauge /\ aborted' = aborted + 1
      BY <2>4 DEF Finish, BodyBreaks, Goto
    <3>2. Active' = Active \ {p} /\ p \in Active
      BY <3>1 DEF Active
    <3>3. Cardinality(Active)' = Cardinality(Active) - 1
      BY <3>2, ActiveFinite, FS_RemoveElement
    <3> QED BY <1>1, <3>1, <3>3, ActiveFinite
  <2> QED BY <1>5, <2>1, <2>2, <2>3, <2>4 DEF Request
<1> QED BY <1>4, <1>5 DEF Next

-----------------------------------------------------------------------------
(* A status is written while nothing final was noted yet. *)
LEMMA WriteHeaderNoted ==
  ASSUME IInv, NEW p \in Conns, NEW code \in Statuses \ {"none"}, WriteHeader(p, code),
         reply[p].noted \in {"none", "1xx"},
         code = "1xx" \/ stage'[p] \in {"body", "failed"}, stage'[p] # "none",
         \A q \in Conns \ {p} : stage'[q] = stage[q]
  PROVE  Noted'
<1> USE AtTypes
<1>1. ASSUME NEW q \in Conns, q # p PROVE reply'[q] = reply[q] /\ stage'[q] = stage[q]
  BY <1>1 DEF WriteHeader
<1>2. CASE reply[p].noted = "none"
  <2>1. reply'[p] = [noted |-> code, meant |-> code, told |-> Final(code)]
    BY <1>2 DEF WriteHeader
  <2> QED BY <1>1, <2>1 DEF IInv, Noted, Final
<1>3. CASE reply[p].noted = "1xx"
  <2>1. reply'[p] = [reply[p] EXCEPT !.meant = code]
    BY <1>3 DEF WriteHeader
  <2>2. reply[p] \in [noted : Statuses, told : Statuses, meant : Statuses]
    OBVIOUS
  <2>3. reply'[p].noted = "1xx" /\ reply'[p].told = reply[p].told
    BY <1>3, <2>1, <2>2
  <2> QED BY <1>1, <1>3, <2>3 DEF IInv, Noted
<1> QED BY <1>2, <1>3

LEMMA NotedKept ==
  ASSUME IInv, [Next]_vars
  PROVE  Noted'
<1> USE AtTypes
<1>1. CASE Pulse \/ UNCHANGED vars
  <2>1. UNCHANGED <<stage, reply>>
    BY <1>1 DEF Pulse, vars, httpVars
  <2> QED BY <2>1 DEF IInv, Noted
<1>2. ASSUME NEW p \in Conns, Request(p) PROVE Noted'
  <2>1. CASE Choose(p) \/ Direct(p) \/ ReleaseDone(p) \/ AgainDone(p)
    <3>1. UNCHANGED <<stage, reply>>
      BY <2>1 DEF Choose, Direct, ReleaseDone, AgainDone, httpVars
    <3> QED BY <3>1 DEF IInv, Noted
  <2>2. CASE Arrive(p) \/ Upgrade(p)
    <3>1. /\ stage[p] \in {"none", "direct"} /\ stage'[p] \in {"direct", "upgrade"} /\ reply' = reply
          /\ \A q \in Conns \ {p} : stage'[q] = stage[q]
      BY <2>2 DEF Arrive, Upgrade, Goto
    <3>2. reply[p].noted \in {"none", "1xx"}
      BY <3>1 DEF IInv, Noted
    <3> QED BY <3>1, <3>2 DEF IInv, Noted
  <2>3. CASE NoBackend(p) \/ Headers(p) \/ UpgradeFails(p) \/ RoundTripFails(p)
    <3>1. \E code \in Statuses \ {"none"} : WriteHeader(p, code)
      BY <2>3 DEF NoBackend, Headers, UpgradeFails, RoundTripFails, Statuses
    <3>2. /\ stage[p] \in {"direct", "upgrade"} /\ stage'[p] \in {"body", "failed"}
          /\ \A q \in Conns \ {p} : stage'[q] = stage[q]
      BY <2>3 DEF NoBackend, Headers, UpgradeFails, RoundTripFails, Goto
    <3>3. reply[p].noted \in {"none", "1xx"}
      BY <3>2 DEF IInv, Noted
    <3> QED BY <3>1, <3>2, <3>3, WriteHeaderNoted
  <2>4. CASE Hint(p)
    <3>1. /\ stage[p] = "direct" /\ stage' = stage
          /\ WriteHeader(p, "1xx") /\ "1xx" \in Statuses \ {"none"}
      BY <2>4 DEF Hint, httpVars, Statuses
    <3>2. reply[p].noted \in {"none", "1xx"}
      BY <3>1 DEF IInv, Noted
    <3> QED BY <3>1, <3>2, WriteHeaderNoted
  <2>5. CASE StatusImplied(p)
    <3>1. /\ reply[p].told = "none" /\ reply' = [reply EXCEPT ![p].told = "200"] /\ stage' = stage
          /\ stage[p] \in {"body", "failed"}
      BY <2>5 DEF StatusImplied, httpVars
    <3> QED BY <3>1 DEF IInv, Noted, NoReply
  <2>6. CASE Finish(p) \/ BodyBreaks(p)
    <3>1. /\ reply' = [reply EXCEPT ![p] = NoReply] /\ stage' = [stage EXCEPT ![p] = "none"]
      BY <2>6 DEF Finish, BodyBreaks, Goto
    <3> QED BY <3>1 DEF IInv, Noted, NoReply
  <2> QED BY <1>2, <2>1, <2>2, <2>3, <2>4, <2>5, <2>6 DEF Request
<1> QED BY <1>1, <1>2 DEF Next

-----------------------------------------------------------------------------
LEMMA IInvInductive == IInv /\ [Next]_vars => IInv'
<1> SUFFICES ASSUME IInv, [Next]_vars PROVE IInv'
  OBVIOUS
<1> QED BY BalancerKept, TypeKept, PlacedKept, OverKept, GaugeKept, NotedKept DEF IInv

LEMMA IInvAlways == Spec => []IInv
BY IInvInit, IInvInductive, PTL DEF Spec

(* Every reachable state is well typed: in particular the gauge is never     *)
(* negative, and there are no more second releases than protocol switches.   *)
THEOREM TypeCorrect == Spec => []TypeOK
<1>1. ASSUME IInv PROVE gauge \in Nat
  <2>1. gauge = Cardinality(Active) + aborted
    BY <1>1 DEF IInv, GaugeInv, Active
  <2> QED BY <1>1, <2>1, ActiveFinite, AtTypes
<1>2. ASSUME IInv PROVE over \in [Addrs -> 0..MaxUpgrades]
  <2>1. ASSUME NEW a \in Addrs PROVE over[a] \in 0..MaxUpgrades
    <3>1. over[a] + Cardinality(Due(a)) <= upgrades
      BY <1>2 DEF IInv, OverBound
    <3> QED BY <1>2, <3>1, DueFinite, AtTypes
  <2> QED BY <1>2, <2>1, AtTypes
<1>3. IInv => TypeOK
  BY <1>1, <1>2 DEF IInv, LCInv, GateType, TypeOK
<1> QED BY <1>3, IInvAlways, PTL

(* The counter of a backend that was never taken out of the list is the      *)
(* number of requests that wait for its headers, less the second releases    *)
(* (proxy.go's hooks over leastconn.go).                                     *)
THEOREM CountsCorrect == Spec => []CountsAwaited
<1>1. ASSUME IInv, NEW a \in Addrs, NeverRemoved(a)
      PROVE  count[a][Cell(a)] = Cardinality(Holders(a)) - over[a]
  <2>1. Value(a) \in Int /\ Cardinality(Holders(a)) \in Nat /\ over[a] \in Nat
    BY <1>1, CellType, HoldersFinite, AtTypes DEF IInv, LCInv, NeverRemoved
  <2>2. Value(a) - Cardinality(Holders(a)) = 0 - over[a]
    BY <1>1 DEF IInv, Balanced, Surplus
  <2>3. Value(a) = Cardinality(Holders(a)) - over[a]
    BY <2>1, <2>2
  <2> QED BY <2>3 DEF Value
<1>2. IInv => CountsAwaited
  BY <1>1 DEF CountsAwaited
<1> QED BY <1>2, IInvAlways, PTL

(* Nothing but a body that breaks off makes the gauge of active connections  *)
(* differ from the requests in flight (middleware.go has no deferred Dec):   *)
(* failed round trips and failed protocol switches count down as they should.*)
THEOREM GaugeCorrect == Spec => [](aborted = 0 => GaugeIsInFlight)
<1>1. IInv => (aborted = 0 => GaugeIsInFlight)
  BY ActiveFinite DEF IInv, GaugeInv, GaugeIsInFlight
<1> QED BY <1>1, IInvAlways, PTL

(* Nothing but an informational response makes the status that the wrappers  *)
(* of middleware.go and stellar.go note differ from the one the proxy wrote  *)
(* last and its client is told.                                              *)
THEOREM StatusCorrect == Spec => [](\A p \in Conns : reply[p].noted # "1xx" => RightStatus(p))
<1>1. IInv => \A p \in Conns : reply[p].noted # "1xx" => RightStatus(p)
  BY DEF IInv, Noted, RightStatus, NoReply
<1> QED BY <1>1, IInvAlways, PTL

-----------------------------------------------------------------------------
(* The loop of Next among the steps of the gate. *)
LEMMA ScanKept ==
  ASSUME IInv, ScanInv, [Next]_vars
  PROVE  ScanInv'
<1>1. LCInv
  BY DEF IInv
<1>2. at \in [Conns -> {"out", "scan", "chosen", "acquiring", "held", "releasing", "again"}]
  BY AtTypes
<1>3. ASSUME UNCHANGED lcVars PROVE ScanInv'
  <2>1. UNCHANGED <<backends, count, at, addr, low, scan, disturbed>>
    BY <1>3 DEF lcVars
  <2> QED BY <1>1, <2>1, ScanQuiet
<1>4. CASE Pulse
  <2>1. CASE SetBackendsWait
    BY <1>1, <2>1, ScanQuiet DEF SetBackendsWait
  <2>2. CASE SetBackends
    BY <1>1, <2>2, ScanReplace
  <2> QED BY <1>4, <2>1, <2>2 DEF Pulse
<1>5. ASSUME NEW p \in Conns, Request(p) PROVE ScanInv'
  <2>1. CASE Arrive(p)
    BY <1>1, <2>1, ScanBegin DEF Arrive
  <2>2. CASE Choose(p)
    BY <1>1, <2>2, ScanRound, ScanReturn DEF Choose
  <2>3. CASE Direct(p) /\ Acquire(p)
    BY <1>1, <2>3, ScanLookUp DEF Acquire
  <2>4. CASE Direct(p) /\ AcquireAdd(p)
    BY <1>1, <2>4, ScanAdd DEF AcquireAdd, Adding
  <2>5. CASE NoBackend(p)
    <3>1. /\ at[p] = "chosen" /\ at' = [at EXCEPT ![p] = "out"]
          /\ UNCHANGED <<backends, count, addr, low, scan, disturbed>>
      BY <2>5 DEF NoBackend
    <3>2. \A q \in Conns : at'[q] = "scan" <=> at[q] = "scan"
      BY <1>2, <3>1
    <3> QED BY <1>1, <3>1, <3>2, ScanQuiet
  <2>6. CASE Headers(p) \/ Upgrade(p) \/ RoundTripFails(p)
    <3>1. LookUp(p, "held", "releasing")
      BY <2>6 DEF Headers, Upgrade, RoundTripFails, Release
    <3> QED BY <1>1, <3>1, ScanLookUp
  <2>7. CASE UpgradeFails(p)
    BY <1>1, <2>7, ScanLookUp DEF UpgradeFails
  <2>8. CASE ReleaseDone(p)
    BY <1>1, <2>8, ScanAdd DEF ReleaseDone, ReleaseAdd, Adding
  <2>9. CASE AgainDone(p)
    BY <1>1, <2>9, ScanAdd DEF AgainDone, Adding
  <2>10. CASE Hint(p) \/ StatusImplied(p) \/ Finish(p) \/ BodyBreaks(p)
    BY <1>3, <2>10 DEF Hint, StatusImplied, Finish, BodyBreaks
  <2> QED BY <1>5, <2>1, <2>2, <2>3, <2>4, <2>5, <2>6, <2>7, <2>8, <2>9, <2>10 DEF Request, Direct
<1>6. CASE UNCHANGED vars
  BY <1>3, <1>6 DEF vars
<1> QED BY <1>4, <1>5, <1>6 DEF Next

(* Only the end of its loop makes a request have a backend. *)
LEMMA ChosenByReturn ==
  ASSUME IInv, [Next]_vars, NEW p \in Conns, at[p] = "scan", at'[p] = "chosen"
  PROVE  NextReturn(p)
<1>1. at \in [Conns -> {"out", "scan", "chosen", "acquiring", "held", "releasing", "again"}]
  BY AtTypes
<1>2. at'[p] # at[p]
  OBVIOUS
<1>3. CASE Pulse
  BY <1>2, <1>3 DEF Pulse, SetBackendsWait, SetBackends
<1>4. ASSUME NEW q \in Conns, Request(q) PROVE NextReturn(p)
  <2>1. CASE Arrive(q)
    BY <1>1, <2>1 DEF Arrive, NextBegin
  <2>2. CASE Choose(q)
    BY <1>1, <2>2 DEF Choose, NextScan, NextReturn
  <2>3. CASE NoBackend(q)
    BY <1>1, <2>3 DEF NoBackend
  <2>4. CASE Direct(q) \/ ReleaseDone(q) \/ AgainDone(q)
    BY <1>1, <2>4 DEF Direct, ReleaseDone, AgainDone, Acquire, AcquireAdd, ReleaseAdd, LookUp, AddTo
  <2>5. CASE Headers(q) \/ Upgrade(q) \/ RoundTripFails(q) \/ UpgradeFails(q)
    BY <1>1, <2>5 DEF Headers, Upgrade, RoundTripFails, UpgradeFails, Release, LookUp
  <2>6. CASE Hint(q) \/ StatusImplied(q) \/ Finish(q) \/ BodyBreaks(q)
    BY <1>2, <2>6 DEF Hint, StatusImplied, Finish, BodyBreaks, lcVars
  <2> QED BY <1>4, <2>1, <2>2, <2>3, <2>4, <2>5, <2>6 DEF Request
<1>5. CASE UNCHANGED vars
  BY <1>2, <1>5 DEF vars, lcVars
<1> QED BY <1>3, <1>4, <1>5 DEF Next

(* The director's call of Next (proxy.go) answers from the list as the one   *)
(* of a tunnel does, failed protocol switches included.                      *)
THEOREM AnswerLeastLoaded == Spec => LeastLoaded
<1> DEFINE Answer(p) ==
      /\ addr[p] \in Answers(backends)
      /\ ~disturbed[p] /\ backends # <<>> =>
           \E i \in 1..Len(backends) :
             /\ addr[p] = backends[i]
             /\ \A j \in 1..Len(backends) :
                  LET mine == count[backends[i]][Cell(backends[i])]
                      other == count[backends[j]][Cell(backends[j])]
                  IN mine <= other /\ (j < i => mine < other)
<1>1. ASSUME IInv, ScanInv, NEW p \in Conns, NextReturn(p) PROVE Answer(p)
  <2>1. /\ addr[p] \in Answers(backends)
        /\ ~disturbed[p] /\ backends # <<>> =>
             \E i \in 1..Len(backends) : addr[p] = backends[i] /\ Best(i, Len(backends))
    BY <1>1, NextAnswer DEF IInv
  <2> QED BY <2>1 DEF Best, Value
<1>2. IInv /\ ScanInv /\ [Next]_vars =>
        [\A p \in Conns : at[p] = "scan" /\ at'[p] = "chosen" => Answer(p)]_lcVars
  BY <1>1, ChosenByReturn
<1>3. Init => ScanInv
  BY ScanInit DEF Init
<1>4. IInv /\ ScanInv /\ [Next]_vars => ScanInv'
  BY ScanKept
<1> QED BY <1>2, <1>3, <1>4, IInvAlways, PTL DEF Spec, LeastLoaded
=============================================================================
