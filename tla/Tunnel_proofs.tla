----------------------------- MODULE Tunnel_proofs -----------------------------
(***************************************************************************)
(* Theorems about the two gates of internal/tunnel.  The first part is     *)
(* about a TCP gate over the least-connections balancer, for any           *)
(* addresses, lists, connections and number of replacements of the list;   *)
(* the second about a UDP gate, for any clients and any datagrams.         *)
(***************************************************************************)
EXTENDS TcpTunnel, UdpTunnel, LeastConn_proofs

(* The types of the tunnel's own variables, and how handle and the balancer  *)
(* go together.                                                              *)
TunnelType ==
  /\ tun \in [Conns -> {"none", "choose", "pipe", "close"}]
  /\ peer \in [Conns -> [Sides -> {"open", "fin", "reset"}]]
  /\ copy \in [Conns -> [Sides -> {"off", "run", "done"}]]
  /\ told \in [Conns -> [Sides -> BOOLEAN]]

InBalancer == \A p \in Conns : at[p] = "out" <=> tun[p] = "none"

(* A copy that is over was able to stop, and what let it stop stays.         *)
CopyInv == \A p \in Conns, s \in Sides : copy[p][s] = "done" => CanStopCopy(p, s)

NoSurplus == \A a \in Addrs : NeverRemoved(a) => Surplus(a) = 0

(* The inductive invariant. *)
IInv == LCInv /\ ScanInv /\ NoSurplus /\ TunnelType /\ InBalancer /\ CopyInv

-----------------------------------------------------------------------------
LEMMA IInvInit == Init => IInv
<1> SUFFICES ASSUME Init PROVE IInv
  OBVIOUS
<1>1. LCInit
  BY DEF Init
<1>2. LCInv /\ NoSurplus /\ ScanInv
  BY <1>1, LCInitInv, ScanInit DEF NoSurplus
<1>3. TunnelType
  BY DEF Init, TunnelType
<1>4. InBalancer /\ CopyInv
  BY DEF Init, LCInit, InBalancer, CopyInv
<1> QED BY <1>2, <1>3, <1>4 DEF IInv

(* A step of the balancer that keeps every surplus keeps them at zero. *)
LEMMA SurplusStaysZero == NoSurplus /\ KeepsSurplus => NoSurplus'
BY DEF NoSurplus, KeepsSurplus

(* Every step, seen from the balancer. *)
LEMMA BalancerKept ==
  ASSUME IInv, [Next]_vars
  PROVE  LCInv' /\ ScanInv' /\ NoSurplus'
<1> USE DEF IInv
<1>1. ASSUME UNCHANGED lcVars PROVE LCInv' /\ KeepsSurplus /\ ScanInv'
  <2>1. UNCHANGED <<backends, count, pending, sets, removed, at, addr, low, scan, ptr, disturbed>>
    BY <1>1 DEF lcVars
  <2>2. LCInv'
    BY <2>1 DEF LCInv, LCTypeOK, Counters, Addresses, Pointers, NeverRemoved
  <2>3. ScanInv'
    BY <2>1, ScanQuiet
  <2>4. \A a \in Addrs : Holders(a)' = Holders(a)
    BY <2>1 DEF Holders
  <2> QED BY <2>1, <2>2, <2>3, <2>4, SameSurplus
<1>2. CASE Pulse
  <2>1. CASE SetBackendsWait
    <3>1. ScanInv'
      BY <2>1, ScanQuiet DEF SetBackendsWait
    <3> QED BY <2>1, <3>1, SetBackendsWaitInv, SurplusStaysZero
  <2>2. CASE SetBackends
    BY <2>2, SetBackendsInv, ScanReplace, SurplusStaysZero
  <2> QED BY <1>2, <2>1, <2>2 DEF Pulse
<1>3. ASSUME NEW p \in Conns, Accept(p) PROVE LCInv' /\ ScanInv' /\ NoSurplus'
  BY <1>3, NextBeginInv, ScanBegin, SurplusStaysZero DEF Accept
<1>4. ASSUME NEW p \in Conns, Handle(p) PROVE LCInv' /\ ScanInv' /\ NoSurplus'
  <2>1. CASE NextScan(p)
    BY <2>1, NextScanInv, ScanRound, SurplusStaysZero
  <2>2. CASE NextReturn(p)
    BY <2>2, NextReturnInv, ScanReturn, SurplusStaysZero
  <2>3. CASE Drop(p)
    <3>1. /\ at[p] = "chosen" /\ at' = [at EXCEPT ![p] = "out"]
          /\ UNCHANGED <<backends, count, pending, sets, removed, addr, low, scan, ptr, disturbed>>
      BY <2>3 DEF Drop
    <3>2. \A q \in Conns : at'[q] = "scan" <=> at[q] = "scan"
      BY <3>1 DEF LCInv, LCTypeOK
    <3>3. ScanInv'
      BY <3>1, <3>2, ScanQuiet
    <3> QED BY <3>1, <3>3, LeaveInv, SurplusStaysZero
  <2>4. CASE Acquire(p)
    <3>1. LookUp(p, "chosen", "acquiring")
      BY <2>4 DEF Acquire
    <3>2. LCInv' /\ KeepsSurplus
      BY <3>1, LookUpInv
    <3>3. ScanInv'
      BY <3>1, ScanLookUp
    <3> QED BY <3>2, <3>3, SurplusStaysZero
  <2>5. CASE AcquireAdd(p)
    <3>1. ScanInv'
      BY <2>5, ScanAdd DEF AcquireAdd, Adding
    <3> QED BY <2>5, <3>1, AcquireAddInv, SurplusStaysZero
  <2>6. CASE Release(p)
    <3>1. LookUp(p, "held", "releasing")
      BY <2>6 DEF Release
    <3>2. LCInv' /\ KeepsSurplus
      BY <3>1, LookUpInv
    <3>3. ScanInv'
      BY <3>1, ScanLookUp
    <3> QED BY <3>2, <3>3, SurplusStaysZero
  <2>7. CASE ReleaseAdd(p)
    <3>1. ScanInv'
      BY <2>7, ScanAdd DEF ReleaseAdd, Adding
    <3> QED BY <2>7, <3>1, ReleaseAddInv, SurplusStaysZero
  <2>8. CASE DialOk(p) \/ DialFail(p) \/ Done(p)
    BY <1>1, <2>8, SurplusStaysZero DEF DialOk, DialFail, Done
  <2> QED BY <1>4, <2>1, <2>2, <2>3, <2>4, <2>5, <2>6, <2>7, <2>8
          DEF Handle, Choose, Count, Uncount, Close
<1>5. ASSUME NEW p \in Conns, NEW s \in Sides, PeerEnds(p, s) \/ PeerResets(p, s) \/ StopCopy(p, s)
      PROVE  LCInv' /\ ScanInv' /\ NoSurplus'
  BY <1>1, <1>5, SurplusStaysZero DEF PeerEnds, PeerResets, StopCopy
<1>6. CASE UNCHANGED vars
  BY <1>1, <1>6, SurplusStaysZero DEF vars
<1> QED BY <1>2, <1>3, <1>4, <1>5, <1>6 DEF Next, Peers

-----------------------------------------------------------------------------
(* Every step, seen from the tunnel. *)
LEMMA TypeKept ==
  ASSUME IInv, [Next]_vars
  PROVE  TunnelType'
<1> USE DEF IInv, TunnelType
<1>1. CASE Pulse
  BY <1>1 DEF Pulse, tcpVars
<1>2. ASSUME NEW p \in Conns, Accept(p) PROVE TunnelType'
  BY <1>2 DEF Accept
<1>3. ASSUME NEW p \in Conns, Handle(p) PROVE TunnelType'
  <2>1. CASE Choose(p) \/ Count(p) \/ Uncount(p)
    BY <2>1 DEF Choose, Count, Uncount, tcpVars
  <2>2. CASE Drop(p) \/ DialFail(p) \/ Close(p)
    BY <2>2 DEF Drop, DialFail, Close
  <2>3. CASE DialOk(p)
    <3>1. [s \in Sides |-> "run"] \in [Sides -> {"off", "run", "done"}]
      OBVIOUS
    <3> QED BY <2>3, <3>1 DEF DialOk
  <2>4. CASE Done(p)
    <3>1. /\ [s \in Sides |-> "open"] \in [Sides -> {"open", "fin", "reset"}]
          /\ [s \in Sides |-> "off"] \in [Sides -> {"off", "run", "done"}]
          /\ [s \in Sides |-> FALSE] \in [Sides -> BOOLEAN]
      OBVIOUS
    <3> QED BY <2>4, <3>1 DEF Done
  <2> QED BY <1>3, <2>1, <2>2, <2>3, <2>4 DEF Handle
<1>4. ASSUME NEW p \in Conns, NEW s \in Sides, PeerEnds(p, s) \/ PeerResets(p, s) \/ StopCopy(p, s)
      PROVE  TunnelType'
  <2>1. CASE PeerEnds(p, s)
    BY <2>1 DEF PeerEnds
  <2>2. CASE PeerResets(p, s)
    BY <2>2 DEF PeerResets
  <2>3. CASE StopCopy(p, s)
    <3>1. Other(s) \in Sides
      BY DEF Other, Sides
    <3> QED BY <2>3, <3>1 DEF StopCopy
  <2> QED BY <1>4, <2>1, <2>2, <2>3
<1>5. CASE UNCHANGED vars
  BY <1>5 DEF vars, tcpVars
<1> QED BY <1>1, <1>2, <1>3, <1>4, <1>5 DEF Next, Peers

(* handle is in the balancer from Next to the end of Release. *)
LEMMA InBalancerKept ==
  ASSUME IInv, [Next]_vars
  PROVE  InBalancer'
<1> USE DEF IInv, InBalancer
<1>1. /\ at \in [Conns -> {"out", "scan", "chosen", "acquiring", "held", "releasing", "again"}]
      /\ tun \in [Conns -> {"none", "choose", "pipe", "close"}]
  BY DEF LCInv, LCTypeOK, TunnelType
<1>2. CASE Pulse
  BY <1>2 DEF Pulse, SetBackendsWait, SetBackends, tcpVars
<1>3. ASSUME NEW p \in Conns, Accept(p) PROVE InBalancer'
  BY <1>1, <1>3 DEF Accept, NextBegin
<1>4. ASSUME NEW p \in Conns, Handle(p) PROVE InBalancer'
  <2>1. CASE Choose(p)
    BY <1>1, <2>1 DEF Choose, NextScan, NextReturn, tcpVars
  <2>2. CASE Drop(p)
    BY <1>1, <2>2 DEF Drop
  <2>3. CASE Count(p)
    BY <1>1, <2>3 DEF Count, Acquire, AcquireAdd, LookUp, AddTo, tcpVars
  <2>4. CASE DialOk(p) \/ DialFail(p) \/ Done(p)
    BY <1>1, <2>4 DEF DialOk, DialFail, Done, lcVars
  <2>5. CASE Uncount(p)
    BY <1>1, <2>5 DEF Uncount, Release, LookUp, tcpVars
  <2>6. CASE Close(p)
    BY <1>1, <2>6 DEF Close, ReleaseAdd, AddTo
  <2> QED BY <1>4, <2>1, <2>2, <2>3, <2>4, <2>5, <2>6 DEF Handle
<1>5. ASSUME NEW p \in Conns, NEW s \in Sides, PeerEnds(p, s) \/ PeerResets(p, s) \/ StopCopy(p, s)
      PROVE  InBalancer'
  BY <1>5 DEF PeerEnds, PeerResets, StopCopy, lcVars
<1>6. CASE UNCHANGED vars
  BY <1>6 DEF vars, lcVars, tcpVars
<1> QED BY <1>2, <1>3, <1>4, <1>5, <1>6 DEF Next, Peers

LEMMA CopyKept ==
  ASSUME IInv, [Next]_vars
  PROVE  CopyInv'
<1> USE DEF IInv, CopyInv, CanStopCopy
<1>1. /\ peer \in [Conns -> [Sides -> {"open", "fin", "reset"}]]
      /\ copy \in [Conns -> [Sides -> {"off", "run", "done"}]]
      /\ \A s \in Sides : Other(s) \in Sides
  BY DEF TunnelType, Other, Sides
<1>2. CASE UNCHANGED <<peer, copy>>
  BY <1>2
<1>3. ASSUME NEW p \in Conns, DialOk(p) PROVE CopyInv'
  BY <1>1, <1>3 DEF DialOk
<1>4. ASSUME NEW p \in Conns, Done(p) PROVE CopyInv'
  BY <1>1, <1>4 DEF Done
<1>5. ASSUME NEW p \in Conns, NEW s \in Sides, PeerEnds(p, s) PROVE CopyInv'
  BY <1>1, <1>5 DEF PeerEnds
<1>6. ASSUME NEW p \in Conns, NEW s \in Sides, PeerResets(p, s) PROVE CopyInv'
  BY <1>1, <1>6 DEF PeerResets
<1>7. ASSUME NEW p \in Conns, NEW s \in Sides, StopCopy(p, s) PROVE CopyInv'
  BY <1>1, <1>7 DEF StopCopy
<1>8. ASSUME NEW p \in Conns, Handle(p) PROVE DialOk(p) \/ Done(p) \/ UNCHANGED <<peer, copy>>
  BY <1>8 DEF Handle, Choose, Drop, Count, DialFail, Uncount, Close, tcpVars
<1>9. Pulse \/ UNCHANGED vars => UNCHANGED <<peer, copy>>
  BY DEF Pulse, vars, tcpVars
<1>10. \A p \in Conns : Accept(p) => UNCHANGED <<peer, copy>>
  BY DEF Accept
<1> QED BY <1>2, <1>3, <1>4, <1>5, <1>6, <1>7, <1>8, <1>9, <1>10 DEF Next, Peers

LEMMA IInvInductive == IInv /\ [Next]_vars => IInv'
<1> SUFFICES ASSUME IInv, [Next]_vars PROVE IInv'
  OBVIOUS
<1> QED BY BalancerKept, TypeKept, InBalancerKept, CopyKept DEF IInv

LEMMA IInvAlways == Spec => []IInv
BY IInvInit, IInvInductive, PTL DEF Spec

-----------------------------------------------------------------------------
(* Every reachable state is well typed: in particular no counter is looked   *)
(* up that was never made, whatever lists PulseScan pushes.                  *)
THEOREM TypeCorrect == Spec => []TypeOK
<1>1. IInv => TypeOK
  BY DEF IInv, LCInv, TunnelType, InBalancer, TypeOK
<1> QED BY <1>1, IInvAlways, PTL

(* The counter of a backend that was never taken out of the list is the      *)
(* number of connections on it (leastconn.go's Acquire and Release under     *)
(* any interleaving with each other and with SetBackends).                   *)
THEOREM CountsCorrect == Spec => []CountsHolders
<1>1. ASSUME IInv, NEW a \in Addrs, NeverRemoved(a) PROVE count[a][Cell(a)] = Cardinality(Holders(a))
  <2>1. Value(a) \in Int
    BY <1>1, CellType DEF IInv, LCInv, NeverRemoved
  <2>2. Cardinality(Holders(a)) \in Nat
    BY HoldersFinite
  <2>3. Value(a) - Cardinality(Holders(a)) = 0
    BY <1>1 DEF IInv, NoSurplus, Surplus
  <2>4. Value(a) = Cardinality(Holders(a))
    BY <2>1, <2>2, <2>3
  <2> QED BY <2>4 DEF Value
<1>2. IInv => CountsHolders
  BY <1>1 DEF CountsHolders
<1> QED BY <1>2, IInvAlways, PTL

(* Whatever Acquire and Release do meanwhile, Next answers from the list,    *)
(* and a call that none of them meets returns the first of the least-loaded  *)
(* backends (leastconn.go's Next).                                           *)
THEOREM AnswerLeastLoaded == Spec => LeastLoaded
<1> DEFINE Answer(p) ==
      /\ addr[p] \in Answers(backends)
      /\ ~disturbed[p] /\ backends # <<>> =>
           \E i \in 1..Len(backends) :
             /\ addr[p] = backends[i]
             /\ \A j \in 1..Len(backends) :
                  LET mine == count[backends[i]][Cell(backends[i])]
                      other == count[backends[j]][Cell(backends[j])]
                  IN mine <= other /\ (j < i => mine < other)
<1>1. ASSUME IInv, [Next]_vars, NEW p \in Conns, at[p] = "scan", at'[p] = "chosen"
      PROVE  NextReturn(p)
  <2>1. at \in [Conns -> {"out", "scan", "chosen", "acquiring", "held", "releasing", "again"}]
    BY <1>1 DEF IInv, LCInv, LCTypeOK
  <2>2. at'[p] # at[p]
    BY <1>1
  <2>3. CASE Pulse
    BY <2>2, <2>3 DEF Pulse, SetBackendsWait, SetBackends
  <2>4. ASSUME NEW q \in Conns, Accept(q) PROVE NextReturn(p)
    BY <1>1, <2>1, <2>4 DEF Accept, NextBegin
  <2>5. ASSUME NEW q \in Conns, Handle(q) PROVE NextReturn(p)
    <3>1. CASE Choose(q)
      BY <1>1, <2>1, <3>1 DEF Choose, NextScan, NextReturn
    <3>2. CASE Drop(q)
      BY <1>1, <2>1, <3>2 DEF Drop
    <3>3. CASE Count(q) \/ Uncount(q) \/ Close(q)
      BY <1>1, <2>1, <3>3 DEF Count, Uncount, Close, Acquire, AcquireAdd, Release, ReleaseAdd, LookUp, AddTo
    <3>4. CASE DialOk(q) \/ DialFail(q) \/ Done(q)
      BY <2>2, <3>4 DEF DialOk, DialFail, Done, lcVars
    <3> QED BY <2>5, <3>1, <3>2, <3>3, <3>4 DEF Handle
  <2>6. ASSUME NEW q \in Conns, NEW s \in Sides, PeerEnds(q, s) \/ PeerResets(q, s) \/ StopCopy(q, s)
        PROVE  NextReturn(p)
    BY <2>2, <2>6 DEF PeerEnds, PeerResets, StopCopy, lcVars
  <2>7. CASE UNCHANGED vars
    BY <2>2, <2>7 DEF vars, lcVars
  <2> QED BY <1>1, <2>3, <2>4, <2>5, <2>6, <2>7 DEF Next, Peers
<1>2. ASSUME IInv, NEW p \in Conns, NextReturn(p) PROVE Answer(p)
  <2>1. /\ addr[p] \in Answers(backends)
        /\ ~disturbed[p] /\ backends # <<>> =>
             \E i \in 1..Len(backends) : addr[p] = backends[i] /\ Best(i, Len(backends))
    BY <1>2, NextAnswer DEF IInv
  <2> QED BY <2>1 DEF Best, Value
<1>3. IInv /\ [Next]_vars => [\A p \in Conns : at[p] = "scan" /\ at'[p] = "chosen" => Answer(p)]_lcVars
  BY <1>1, <1>2
<1> QED BY <1>3, IInvAlways, PTL DEF Spec, LeastLoaded

(* A tunnel that carried data closes only when neither direction can carry   *)
(* more (tunnel.go waits for both copies).                                   *)
THEOREM NoEarlyCloseCorrect == Spec => NoEarlyClose
<1>1. ASSUME IInv, [Next]_vars, NEW p \in Conns, tun[p] = "pipe", tun'[p] = "close"
      PROVE  Done(p)
  <2>1. tun \in [Conns -> {"none", "choose", "pipe", "close"}] /\ tun'[p] # tun[p]
    BY <1>1 DEF IInv, TunnelType
  <2>2. CASE Pulse
    BY <2>1, <2>2 DEF Pulse, tcpVars
  <2>3. ASSUME NEW q \in Conns, Accept(q) PROVE Done(p)
    BY <1>1, <2>1, <2>3 DEF Accept
  <2>4. ASSUME NEW q \in Conns, Handle(q) PROVE Done(p)
    BY <1>1, <2>1, <2>4
       DEF Handle, Choose, Drop, Count, DialOk, DialFail, Done, Uncount, Close, tcpVars
  <2>5. ASSUME NEW q \in Conns, NEW s \in Sides, PeerEnds(q, s) \/ PeerResets(q, s) \/ StopCopy(q, s)
        PROVE  Done(p)
    BY <2>1, <2>5 DEF PeerEnds, PeerResets, StopCopy
  <2>6. CASE UNCHANGED vars
    BY <2>1, <2>6 DEF vars, tcpVars
  <2> QED BY <1>1, <2>2, <2>3, <2>4, <2>5, <2>6 DEF Next, Peers
<1>2. ASSUME IInv, NEW p \in Conns, Done(p), NEW s \in Sides
      PROVE  peer[p][s] # "open" \/ peer[p][Other(s)] = "reset"
  BY <1>2 DEF IInv, CopyInv, CanStopCopy, Done, CopiesDone
<1>3. IInv /\ [Next]_vars =>
        [\A p \in Conns : tun[p] = "pipe" /\ tun'[p] = "close" =>
           \A s \in Sides : peer[p][s] # "open" \/ peer[p][Other(s)] = "reset"]_vars
  BY <1>1, <1>2
<1> QED BY <1>3, IInvAlways, PTL DEF Spec, NoEarlyClose

-----------------------------------------------------------------------------
(* The UDP gate. *)

(* The goroutine of datagram s has been through LoadOrStore. *)
Stored(s) == pc[s] \in {"touch", "write", "done"} /\ conn[s] # "none"

(* A session in the map is a stored one of that client. *)
MapInv ==
  \A c \in Clients : sessions[c] # NoSession => From[sessions[c]] = c /\ Stored(sessions[c])

(* The session a datagram goes through is a stored one of its client. *)
CurInv ==
  \A d \in Dgrams : cur[d] # NoSession => From[cur[d]] = From[d] /\ Stored(cur[d])

(* A goroutine has a socket exactly from Dial on, and a pump only from       *)
(* LoadOrStore on.                                                           *)
DialInv ==
  \A d \in Dgrams : /\ pc[d] \in {"new", "dial"} => conn[d] = "none"
                    /\ pc[d] = "store" => conn[d] = "open"
                    /\ pc[d] \in {"new", "dial", "store"} => pump[d] = "none"

(* The session evict works on is in the map until evict deletes it. *)
EvictInv ==
  /\ evPc \in {"close", "delete"} => sessions[From[evSess]] = evSess
  /\ evPc = "delete" => conn[evSess] = "closed"

(* The inductive invariant behind NoSocketLeak and Sticky. *)
UdpInv == UdpTypeOK /\ MapInv /\ CurInv /\ DialInv /\ EvictInv /\ NoSocketLeak

USE FromAssumption, NoSessionAssumption

-----------------------------------------------------------------------------
LEMMA UdpInvInit == UdpInit => UdpInv
<1> SUFFICES ASSUME UdpInit PROVE UdpInv
  OBVIOUS
<1>1. UdpTypeOK
  BY DEF UdpInit, UdpTypeOK
<1>2. MapInv /\ CurInv /\ DialInv /\ EvictInv /\ NoSocketLeak
  BY DEF UdpInit, MapInv, CurInv, DialInv, EvictInv, NoSocketLeak
<1> QED BY <1>1, <1>2 DEF UdpInv

(* forward preserves the types. *)
LEMMA ForwardType ==
  ASSUME UdpTypeOK, NEW d \in Dgrams, Forward(d)
  PROVE  UdpTypeOK'
<1>1. CASE Load(d)
  BY <1>1 DEF Load, Goto, UdpTypeOK, sockVars, evVars
<1>2. CASE DropDatagram(d)
  BY <1>2 DEF DropDatagram, Ends, Goto, UdpTypeOK, sockVars, evVars
<1>3. CASE Dial(d)
  BY <1>3 DEF Dial, Goto, UdpTypeOK, evVars
<1>4. CASE Store(d)
  <2>1. Actual(d) \in Dgrams
    BY DEF Actual, UdpTypeOK
  <2> QED BY <1>4, <2>1 DEF Store, ExtraClosed, Goto, UdpTypeOK, evVars
<1>5. CASE Touch(d)
  BY <1>5 DEF Touch, Goto, UdpTypeOK, sockVars, evVars
<1>6. CASE Write(d)
  <2>1. cur[d] \in Dgrams
    BY <1>6 DEF Write, UdpTypeOK
  <2>2. icmp' \in [Dgrams -> BOOLEAN]
    <3>1. PICK v \in BOOLEAN : icmp' = [icmp EXCEPT ![cur[d]] = v]
      BY <1>6 DEF Write
    <3> QED BY <2>1, <3>1 DEF UdpTypeOK
  <2>3. pc' = [pc EXCEPT ![d] = "done"] /\ cur' = [cur EXCEPT ![d] = NoSession]
    BY <1>6 DEF Write, Ends, Goto
  <2>4. fate' = [fate EXCEPT ![d] = "sent"] \/ fate' = [fate EXCEPT ![d] = "lost"]
    BY <1>6 DEF Write, Ends
  <2>5. UNCHANGED <<sessions, conn, pump, idle, evVars, evOld>>
    BY <1>6 DEF Write
  <2> QED BY <2>2, <2>3, <2>4, <2>5 DEF UdpTypeOK, evVars
<1> QED BY <1>1, <1>2, <1>3, <1>4, <1>5, <1>6 DEF Forward

(* evict preserves the types. *)
LEMMA EvictType ==
  ASSUME UdpTypeOK, Evict
  PROVE  UdpTypeOK'
<1>1. CASE Tick
  BY <1>1 DEF Tick, UdpTypeOK, sockVars, fwdVars
<1>2. ASSUME NEW c \in Clients, Visit(c) PROVE UdpTypeOK'
  <2>1. evPc' = "close" => evSess' \in Dgrams
    BY <1>2 DEF Visit, UdpTypeOK
  <2> QED BY <1>2, <2>1 DEF Visit, UdpTypeOK, sockVars, fwdVars
<1>3. CASE CloseSession
  BY <1>3 DEF CloseSession, UdpTypeOK, fwdVars
<1>4. CASE Delete
  BY <1>4 DEF Delete, UdpTypeOK, sockVars, fwdVars
<1>5. CASE RoundEnds
  BY <1>5 DEF RoundEnds, UdpTypeOK, sockVars, fwdVars
<1> QED BY <1>1, <1>2, <1>3, <1>4, <1>5 DEF Evict

LEMMA UdpTypeInductive == UdpTypeOK /\ [UdpNext]_udpVars => UdpTypeOK'
<1> SUFFICES ASSUME UdpTypeOK, [UdpNext]_udpVars PROVE UdpTypeOK'
  OBVIOUS
<1>1. CASE Evict
  BY <1>1, EvictType
<1>2. ASSUME NEW d \in Dgrams, Age(d) PROVE UdpTypeOK'
  BY <1>2 DEF Age, UdpTypeOK, sockVars, fwdVars, evVars
<1>3. ASSUME NEW d \in Dgrams, Forward(d) PROVE UdpTypeOK'
  BY <1>3, ForwardType
<1>4. ASSUME NEW d \in Dgrams, Pump(d) PROVE UdpTypeOK'
  <2>1. pump' \in [Dgrams -> {"none", "running", "reply", "done"}]
    <3>1. PICK l \in {"running", "reply", "done"} : pump' = [pump EXCEPT ![d] = l]
      BY <1>4 DEF Pump, Reply, PassOn, PumpEnds
    <3> QED BY <3>1 DEF UdpTypeOK
  <2>2. icmp' \in [Dgrams -> BOOLEAN]
    BY <1>4 DEF Pump, Reply, PassOn, PumpEnds, UdpTypeOK
  <2>3. UNCHANGED <<sessions, conn, idle, fwdVars, evVars, evOld>>
    BY <1>4 DEF Pump, Reply, PassOn, PumpEnds
  <2> QED BY <2>1, <2>2, <2>3 DEF UdpTypeOK, fwdVars, evVars
<1>5. CASE UNCHANGED udpVars
  BY <1>5 DEF udpVars, sockVars, fwdVars, evVars, UdpTypeOK
<1> QED BY <1>1, <1>2, <1>3, <1>4, <1>5 DEF UdpNext

-----------------------------------------------------------------------------
(* Steps that touch neither the map, nor a socket, nor a goroutine's place.  *)
LEMMA Untouched ==
  ASSUME UdpInv, UdpTypeOK', UNCHANGED <<sessions, conn, pc, cur, evPc, evSess>>,
         \A d \in Dgrams : pump'[d] = "none" <=> pump[d] = "none"
  PROVE  UdpInv'
BY DEF UdpInv, MapInv, CurInv, DialInv, EvictInv, NoSocketLeak, Stored

(* forward preserves the invariant. *)
LEMMA ForwardKept ==
  ASSUME UdpInv, UdpTypeOK', NEW d \in Dgrams, Forward(d)
  PROVE  UdpInv'
<1> USE DEF UdpInv
<1>1. CASE Load(d)
  BY <1>1 DEF Load, Goto, sockVars, evVars, UdpTypeOK, MapInv, CurInv, DialInv, EvictInv, NoSocketLeak, Stored
<1>2. CASE DropDatagram(d)
  BY <1>2 DEF DropDatagram, Ends, Goto, sockVars, evVars, UdpTypeOK, MapInv, CurInv, DialInv, EvictInv, NoSocketLeak, Stored
<1>3. CASE Dial(d)
  BY <1>3 DEF Dial, Goto, evVars, UdpTypeOK, MapInv, CurInv, DialInv, EvictInv, NoSocketLeak, Stored
<1>4. CASE Store(d)
  BY <1>4 DEF Store, Actual, ExtraClosed, Goto, evVars, UdpTypeOK, MapInv, CurInv, DialInv, EvictInv, NoSocketLeak, Stored
<1>5. CASE Touch(d)
  BY <1>5 DEF Touch, Goto, sockVars, evVars, UdpTypeOK, MapInv, CurInv, DialInv, EvictInv, NoSocketLeak, Stored
<1>6. CASE Write(d)
  <2>1. pc[d] = "write" /\ pc' = [pc EXCEPT ![d] = "done"] /\ cur' = [cur EXCEPT ![d] = NoSession]
    BY <1>6 DEF Write, Ends, Goto
  <2>2. UNCHANGED <<sessions, conn, pump, evPc, evSess>>
    BY <1>6 DEF Write, evVars
  <2> QED BY <2>1, <2>2 DEF UdpTypeOK, MapInv, CurInv, DialInv, EvictInv, NoSocketLeak, Stored
<1> QED BY <1>1, <1>2, <1>3, <1>4, <1>5, <1>6 DEF Forward

(* evict preserves the invariant. *)
LEMMA EvictKept ==
  ASSUME UdpInv, UdpTypeOK', Evict
  PROVE  UdpInv'
<1> USE DEF UdpInv
<1>1. CASE Tick
  BY <1>1 DEF Tick, sockVars, fwdVars, UdpTypeOK, MapInv, CurInv, DialInv, EvictInv, NoSocketLeak, Stored
<1>2. ASSUME NEW c \in Clients, Visit(c) PROVE UdpInv'
  BY <1>2 DEF Visit, sockVars, fwdVars, UdpTypeOK, MapInv, CurInv, DialInv, EvictInv, NoSocketLeak, Stored
<1>3. CASE CloseSession
  BY <1>3 DEF CloseSession, fwdVars, UdpTypeOK, MapInv, CurInv, DialInv, EvictInv, NoSocketLeak, Stored
<1>4. CASE Delete
  BY <1>4 DEF Delete, sockVars, fwdVars, UdpTypeOK, MapInv, CurInv, DialInv, EvictInv, NoSocketLeak, Stored
<1>5. CASE RoundEnds
  BY <1>5 DEF RoundEnds, sockVars, fwdVars, UdpTypeOK, MapInv, CurInv, DialInv, EvictInv, NoSocketLeak, Stored
<1> QED BY <1>1, <1>2, <1>3, <1>4, <1>5 DEF Evict

LEMMA UdpInvInductive == UdpInv /\ [UdpNext]_udpVars => UdpInv'
<1> SUFFICES ASSUME UdpInv, [UdpNext]_udpVars PROVE UdpInv'
  OBVIOUS
<1>1. UdpTypeOK'
  BY UdpTypeInductive DEF UdpInv
<1>2. CASE Evict
  BY <1>1, <1>2, EvictKept
<1>3. ASSUME NEW d \in Dgrams, Forward(d) PROVE UdpInv'
  BY <1>1, <1>3, ForwardKept
<1>4. ASSUME NEW d \in Dgrams, Age(d) \/ Pump(d) PROVE UdpInv'
  <2>1. UNCHANGED <<sessions, conn, pc, cur, evPc, evSess>>
    BY <1>4 DEF Age, Pump, Reply, PassOn, PumpEnds, sockVars, fwdVars, evVars
  <2>2. pump \in [Dgrams -> {"none", "running", "reply", "done"}]
    BY DEF UdpInv, UdpTypeOK
  <2>3. \A e \in Dgrams : pump'[e] = "none" <=> pump[e] = "none"
    BY <1>4, <2>2 DEF Age, Pump, Reply, PassOn, PumpEnds, sockVars
  <2> QED BY <1>1, <2>1, <2>3, Untouched
<1>5. CASE UNCHANGED udpVars
  <2>1. UNCHANGED <<sessions, conn, pc, cur, evPc, evSess>>
    BY <1>5 DEF udpVars, sockVars, fwdVars, evVars
  <2>2. UNCHANGED pump
    BY <1>5 DEF udpVars, sockVars
  <2> QED BY <1>1, <2>1, <2>2, Untouched
<1> QED BY <1>2, <1>3, <1>4, <1>5 DEF UdpNext

(* A datagram is sent through the socket of its client's current session:    *)
(* the socket is open, and NoSocketLeak says who owns an open one.           *)
LEMMA SendIsSticky ==
  ASSUME UdpInv, [UdpNext]_udpVars, NEW d \in Dgrams, fate[d] = "none", fate'[d] = "sent"
  PROVE  sessions[From[d]] = cur[d]
<1>1. Write(d)
  <2>1. fate' # fate
    OBVIOUS
  <2>2. PICK e \in Dgrams : DropDatagram(e) \/ Write(e)
    BY <2>1 DEF UdpNext, udpVars, fwdVars, Evict, Tick, Visit, CloseSession, Delete, RoundEnds, Age,
                Pump, Reply, PassOn, PumpEnds, Forward, Load, Dial, Store, Touch
  <2>3. fate' = [fate EXCEPT ![e] = "lost"] => fate'[d] # "sent"
    BY DEF UdpInv, UdpTypeOK
  <2>4. Write(e)
    BY <2>2, <2>3 DEF DropDatagram, Ends
  <2>5. fate' = [fate EXCEPT ![e] = "sent"] \/ fate' = [fate EXCEPT ![e] = "lost"]
    BY <2>4 DEF Write, Ends
  <2>6. e = d
    BY <2>5 DEF UdpInv, UdpTypeOK
  <2> QED BY <2>4, <2>6
<1>2. cur[d] # NoSession /\ cur[d] \in Dgrams
  BY <1>1 DEF Write, UdpInv, UdpTypeOK
<1>3. conn[cur[d]] # "closed"
  <2>1. CASE conn[cur[d]] = "closed"
    <3>1. fate' = [fate EXCEPT ![d] = "lost"]
      BY <1>1, <2>1 DEF Write, Ends
    <3> QED BY <3>1 DEF UdpInv, UdpTypeOK
  <2> QED BY <2>1
<1>4. conn[cur[d]] = "open" /\ pc[cur[d]] # "store" /\ From[cur[d]] = From[d]
  BY <1>2, <1>3 DEF UdpInv, UdpTypeOK, CurInv, Stored
<1> QED BY <1>2, <1>4 DEF UdpInv, NoSocketLeak

(* A reply is taken through the socket of its client's current session.      *)
LEMMA ReplyIsSticky ==
  ASSUME UdpInv, [UdpNext]_udpVars, NEW d \in Dgrams, pump[d] = "running", pump'[d] = "reply"
  PROVE  sessions[From[d]] = d
<1>1. pump \in [Dgrams -> {"none", "running", "reply", "done"}] /\ pump'[d] # pump[d]
  BY DEF UdpInv, UdpTypeOK
<1>2. Reply(d)
  <2>1. PICK e \in Dgrams : Store(e) \/ Pump(e)
    BY <1>1 DEF UdpNext, udpVars, sockVars, Evict, Tick, Visit, CloseSession, Delete, RoundEnds, Age,
                Forward, Load, Dial, DropDatagram, Touch, Write
  <2>2. ~Store(e)
    BY <1>1 DEF Store
  <2> QED BY <1>1, <2>1, <2>2 DEF Pump, Reply, PassOn, PumpEnds
<1>3. conn[d] = "open" /\ pc[d] # "store"
  BY <1>2 DEF Reply, UdpInv, DialInv
<1> QED BY <1>3 DEF UdpInv, NoSocketLeak

-----------------------------------------------------------------------------
(* Every reachable state is well typed: a datagram that is about to be       *)
(* written has a session, whoever won the race of LoadOrStore.               *)
THEOREM UdpTypeCorrect == UdpSpec => []UdpTypeOK
<1>1. UdpInv => UdpTypeOK
  BY DEF UdpInv
<1> QED BY <1>1, UdpInvInit, UdpInvInductive, PTL DEF UdpSpec

(* No open backend socket is ever without an owner: the session in the map,  *)
(* or a goroutine that is about to store it.                                 *)
THEOREM SocketsOwned == UdpSpec => []NoSocketLeak
<1>1. UdpInv => NoSocketLeak
  BY DEF UdpInv
<1> QED BY <1>1, UdpInvInit, UdpInvInductive, PTL DEF UdpSpec

(* A datagram leaves the gate, and a reply is taken, only through the        *)
(* client's current session.                                                 *)
THEOREM StickyCorrect == UdpSpec => Sticky
<1>1. UdpInv /\ [UdpNext]_udpVars =>
        [\A d \in Dgrams :
           /\ fate[d] = "none" /\ fate'[d] = "sent" => sessions[From[d]] = cur[d]
           /\ pump[d] = "running" /\ pump'[d] = "reply" => sessions[From[d]] = d]_udpVars
  BY SendIsSticky, ReplyIsSticky
<1> QED BY <1>1, UdpInvInit, UdpInvInductive, PTL DEF UdpSpec, Sticky
=============================================================================
