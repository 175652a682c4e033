------------------------------ MODULE TcpTunnel ------------------------------
(***************************************************************************)
(* A TCP gate (internal/tunnel/tunnel.go) over the least-connections       *)
(* balancer.  Each connection runs handle: choose a backend, count it,     *)
(* dial, copy both directions in two goroutines, wait for both, and undo   *)
(* everything in the deferred calls.  The two peers may end their own      *)
(* direction (FIN) or reset the connection at any time.                    *)
(***************************************************************************)
EXTENDS LeastConn

VARIABLES tun,   \* where handle is
          peer,  \* what the client ("c") and the backend ("b") have done
          copy,  \* the copy goroutine reading from each peer
          told   \* the tunnel has shut down its write side towards each peer

tcpVars == <<tun, peer, copy, told>>
vars == <<lcVars, tcpVars>>

Sides == {"c", "b"}
Other(s) == IF s = "c" THEN "b" ELSE "c"

Init ==
  /\ LCInit
  /\ tun = [p \in Conns |-> "none"]
  /\ peer = [p \in Conns |-> [s \in Sides |-> "open"]]
  /\ copy = [p \in Conns |-> [s \in Sides |-> "off"]]
  /\ told = [p \in Conns |-> [s \in Sides |-> FALSE]]

-----------------------------------------------------------------------------
(* Accept: handle starts and calls Next. *)
Accept(p) ==
  /\ tun[p] = "none" /\ NextBegin(p)
  /\ tun' = [tun EXCEPT ![p] = "choose"]
  /\ UNCHANGED <<peer, copy, told>>

Choose(p) == (NextScan(p) \/ NextReturn(p)) /\ UNCHANGED tcpVars

(* Next returned "": drop the client. *)
Drop(p) ==
  /\ tun[p] = "choose" /\ at[p] = "chosen" /\ addr[p] = None
  /\ at' = [at EXCEPT ![p] = "out"]
  /\ tun' = [tun EXCEPT ![p] = "none"]
  /\ UNCHANGED <<backends, count, pending, sets, removed, addr, low, scan, ptr, disturbed, peer, copy, told>>

Count(p) == tun[p] = "choose" /\ (Acquire(p) \/ AcquireAdd(p)) /\ UNCHANGED tcpVars

(* net.Dial: both copies start, or the deferred Release runs at once. *)
DialOk(p) ==
  /\ tun[p] = "choose" /\ at[p] = "held"
  /\ tun' = [tun EXCEPT ![p] = "pipe"]
  /\ copy' = [copy EXCEPT ![p] = [s \in Sides |-> "run"]]
  /\ UNCHANGED <<lcVars, peer, told>>

(* Wrong variant: Release is not deferred. *)
DialFailForgets(p) ==
  /\ tun[p] = "choose" /\ at[p] = "held"
  /\ tun' = [tun EXCEPT ![p] = "none"]
  /\ UNCHANGED <<lcVars, peer, copy, told>>

DialFail(p) ==
  /\ tun[p] = "choose" /\ at[p] = "held"
  /\ tun' = [tun EXCEPT ![p] = "close"]
  /\ UNCHANGED <<lcVars, peer, copy, told>>

-----------------------------------------------------------------------------
(* A peer ends its direction or resets the connection. *)
PeerEnds(p, s) ==
  /\ tun[p] = "pipe" /\ peer[p][s] = "open"
  /\ peer' = [peer EXCEPT ![p][s] = "fin"]
  /\ UNCHANGED <<lcVars, tun, copy, told>>

PeerResets(p, s) ==
  /\ tun[p] = "pipe" /\ peer[p][s] # "reset"
  /\ peer' = [peer EXCEPT ![p][s] = "reset"]
  /\ UNCHANGED <<lcVars, tun, copy, told>>

(* io.Copy from s returns: end of file, a read error or a write error. *)
CanStopCopy(p, s) == peer[p][s] # "open" \/ peer[p][Other(s)] = "reset"

(* Wrong variant: the end is not passed on. *)
StopCopyWithoutCloseWrite(p, s) ==
  /\ copy[p][s] = "run" /\ CanStopCopy(p, s)
  /\ copy' = [copy EXCEPT ![p][s] = "done"]
  /\ UNCHANGED <<lcVars, tun, peer, told>>

(* Wrong variant: returns on an error without wg.Done. *)
StopCopyReturns(p, s) ==
  /\ copy[p][s] = "run" /\ CanStopCopy(p, s)
  /\ copy' = [copy EXCEPT ![p][s] = IF peer[p][s] = "reset" THEN "off" ELSE "done"]
  /\ told' = [told EXCEPT ![p][Other(s)] = TRUE]
  /\ UNCHANGED <<lcVars, tun, peer>>

(* The copy from s is over, and CloseWrite tells the other side. *)
StopCopy(p, s) ==
  /\ copy[p][s] = "run" /\ CanStopCopy(p, s)
  /\ copy' = [copy EXCEPT ![p][s] = "done"]
  /\ told' = [told EXCEPT ![p][Other(s)] = TRUE]
  /\ UNCHANGED <<lcVars, tun, peer>>

(* Wrong variant: waits for one direction only. *)
OneCopyDone(p) == \E s \in Sides : copy[p][s] = "done"
CopiesDone(p) == \A s \in Sides : copy[p][s] = "done"

(* wg.Wait returns; the deferred Close of the backend. *)
Done(p) ==
  /\ tun[p] = "pipe" /\ CopiesDone(p)
  /\ tun' = [tun EXCEPT ![p] = "close"]
  /\ peer' = [peer EXCEPT ![p] = [s \in Sides |-> "open"]]
  /\ copy' = [copy EXCEPT ![p] = [s \in Sides |-> "off"]]
  /\ told' = [told EXCEPT ![p] = [s \in Sides |-> FALSE]]
  /\ UNCHANGED lcVars

(* The deferred Release ... *)
Uncount(p) == tun[p] = "close" /\ at[p] = "held" /\ Release(p) /\ UNCHANGED tcpVars

(* ... and the deferred Close of the client. *)
Close(p) ==
  /\ tun[p] = "close" /\ ReleaseAdd(p)
  /\ tun' = [tun EXCEPT ![p] = "none"]
  /\ UNCHANGED <<peer, copy, told>>

-----------------------------------------------------------------------------
Handle(p) == \/ Choose(p) \/ Drop(p) \/ Count(p) \/ DialOk(p) \/ DialFail(p)
             \/ Done(p) \/ Uncount(p) \/ Close(p)
Peers(p) == \E s \in Sides : PeerEnds(p, s) \/ PeerResets(p, s)
Pulse == (SetBackendsWait \/ SetBackends) /\ UNCHANGED tcpVars

Next == Pulse \/ \E p \in Conns : Accept(p) \/ Handle(p) \/ Peers(p)
                                  \/ \E s \in Sides : StopCopy(p, s)

Spec == Init /\ [][Next]_vars

(* The scheduler runs every goroutine that can run.  The peers owe nothing,  *)
(* and a copy that waits for a silent peer does not learn of a reset of the  *)
(* other one.                                                                *)
FairSpec ==
  /\ Spec
  /\ WF_vars(SetBackends /\ UNCHANGED tcpVars)
  /\ \A p \in Conns : WF_vars(Handle(p))
  /\ \A p \in Conns, s \in Sides : WF_vars(peer[p][s] # "open" /\ StopCopy(p, s))

-----------------------------------------------------------------------------
TypeOK ==
  /\ LCTypeOK
  /\ tun \in [Conns -> {"none", "choose", "pipe", "close"}]
  /\ peer \in [Conns -> [Sides -> {"open", "fin", "reset"}]]
  /\ copy \in [Conns -> [Sides -> {"off", "run", "done"}]]
  /\ told \in [Conns -> [Sides -> BOOLEAN]]
  /\ \A p \in Conns : at[p] = "out" <=> tun[p] = "none"

(* A tunnel that carried data closes only when neither direction can carry   *)
(* more: a peer that ended its own direction still receives the rest of the  *)
(* other one.                                                                *)
NoEarlyClose ==
  [][\A p \in Conns : tun[p] = "pipe" /\ tun'[p] = "close" =>
       \A s \in Sides : peer[p][s] # "open" \/ peer[p][Other(s)] = "reset"]_vars

(* One end is enough.  When one side of a connection has ended or reset it,  *)
(* and peers that are told of an end (CloseWrite) answer it sooner or later  *)
(* with their own, the connection leaves the count and is closed: the end of *)
(* one side reaches the other, which may never have ended by itself.         *)
Unanswered(p, s) == told[p][s] /\ peer[p][s] = "open"

EndPassedOn ==
  \A p \in Conns :
    []<>(\A s \in Sides : ~Unanswered(p, s)) =>
      ((tun[p] = "pipe" /\ \E s \in Sides : peer[p][s] # "open") ~> tun[p] = "none")

(* A connection both of whose peers are finished leaves the count again.     *)
EventuallyReleased ==
  \A p \in Conns :
    (tun[p] = "pipe" /\ \A s \in Sides : peer[p][s] # "open") ~> tun[p] = "none"
=============================================================================
