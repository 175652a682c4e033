------------------------------ MODULE HttpGate ------------------------------
(***************************************************************************)
(* An HTTP gate (internal/proxy/proxy.go) over the least-connections       *)
(* balancer, behind the metrics middleware (internal/metrics/middleware.go *)
(* and the wrappers of internal/logger/stellar.go).  net/http runs one     *)
(* goroutine per request; httputil.ReverseProxy calls the proxy's hooks:   *)
(*   director        before the round trip (Next, then Acquire);           *)
(*   ModifyResponse  when the response headers have arrived;               *)
(*   ErrorHandler    when the round trip failed, or when a 101 response    *)
(*                   cannot be served because no wrapper of the response   *)
(*                   writer can be hijacked.                               *)
(* A body that cannot be copied to the end makes ReverseProxy panic with   *)
(* http.ErrAbortHandler, past the rest of the middleware.                  *)
(***************************************************************************)
EXTENDS LeastConn

CONSTANTS MaxAborts,    \* bound: bodies that break off
          MaxUpgrades   \* bound: responses that switch protocols

ASSUME BoundsAssumption == MaxAborts \in Nat /\ MaxUpgrades \in Nat

VARIABLES stage,    \* where each request is in the handler chain
          gauge,    \* centauri_active_connections
          aborted,  \* history: requests that ended in a panic
          upgrades, \* protocol switches so far
          over,     \* history: second releases of each address that reached a counter
          reply     \* of each request the status its wrappers noted, the one its client
                    \* is told, and (history) the last one the proxy wrote

httpVars == <<stage, gauge, aborted, upgrades, over>>
vars == <<lcVars, httpVars, reply>>

NoReply == [noted |-> "none", told |-> "none", meant |-> "none"]

Init ==
  /\ LCInit
  /\ stage = [p \in Conns |-> "none"]
  /\ gauge = 0 /\ aborted = 0 /\ upgrades = 0
  /\ over = [a \in Addrs |-> 0]
  /\ reply = [p \in Conns |-> NoReply]

Goto(p, s) == stage' = [stage EXCEPT ![p] = s]

(* Only the last status line of an answer is its status: net/http passes     *)
(* informational ones on and waits.                                          *)
Final(code) == IF code = "1xx" THEN "none" ELSE code

(* WriteHeader of the two wrappers of the response writer, which are alike:  *)
(* the first status is noted and passed on, whichever it is.                 *)
WriteHeader(p, code) ==
  reply' = [reply EXCEPT ![p] =
              IF @.noted = "none" THEN [noted |-> code, meant |-> code, told |-> Final(code)]
              ELSE [@ EXCEPT !.meant = code]]

-----------------------------------------------------------------------------
(* Wrong variant: the gauge is not incremented. *)
ArriveUncounted(p) ==
  /\ stage[p] = "none" /\ NextBegin(p)
  /\ Goto(p, "direct")
  /\ UNCHANGED <<gauge, aborted, upgrades, over, reply>>

(* The metrics middleware increments the gauge; the proxy calls Next. *)
Arrive(p) ==
  /\ stage[p] = "none" /\ NextBegin(p)
  /\ Goto(p, "direct")
  /\ gauge' = gauge + 1
  /\ UNCHANGED <<aborted, upgrades, over, reply>>

Choose(p) == (NextScan(p) \/ NextReturn(p)) /\ UNCHANGED <<httpVars, reply>>

(* director: Acquire the address Next returned. *)
Direct(p) ==
  stage[p] = "direct" /\ (Acquire(p) \/ AcquireAdd(p)) /\ UNCHANGED <<httpVars, reply>>

(* No backend: the sentinel URL fails, and ErrorHandler answers 503 without a *)
(* Release.                                                                  *)
NoBackend(p) ==
  /\ stage[p] = "direct" /\ at[p] = "chosen" /\ addr[p] = None
  /\ at' = [at EXCEPT ![p] = "out"]
  /\ Goto(p, "failed")
  /\ WriteHeader(p, "5xx")
  /\ UNCHANGED <<backends, count, pending, sets, removed, addr, low, scan, ptr, disturbed,
                 gauge, aborted, upgrades, over>>

-----------------------------------------------------------------------------
(* The backend sends an informational response, which ReverseProxy relays.   *)
Hint(p) ==
  /\ stage[p] = "direct" /\ at[p] = "held"
  /\ WriteHeader(p, "1xx")
  /\ UNCHANGED <<lcVars, httpVars>>

(* The response headers arrive: ModifyResponse calls Release, and the status *)
(* is written.                                                               *)
Headers(p) ==
  /\ stage[p] = "direct" /\ Release(p)
  /\ Goto(p, "body")
  /\ \E code \in {"200", "404"} : WriteHeader(p, code)
  /\ UNCHANGED <<gauge, aborted, upgrades, over>>

(* A 101 response: ModifyResponse calls Release too ... *)
Upgrade(p) ==
  /\ stage[p] = "direct" /\ upgrades < MaxUpgrades /\ Release(p)
  /\ Goto(p, "upgrade")
  /\ upgrades' = upgrades + 1
  /\ UNCHANGED <<gauge, aborted, over, reply>>

(* ... then the connection cannot be hijacked, and ErrorHandler releases the *)
(* same address again.                                                       *)
UpgradeFails(p) ==
  /\ stage[p] = "upgrade" /\ LookUp(p, "out", "again")
  /\ Goto(p, "failed")
  /\ WriteHeader(p, "5xx")
  /\ UNCHANGED <<gauge, aborted, upgrades, over>>

(* The round trip fails, as it does when director could not parse the address *)
(* it had acquired: ErrorHandler calls Release and answers 502.              *)
RoundTripFails(p) ==
  /\ stage[p] = "direct" /\ Release(p)
  /\ Goto(p, "failed")
  /\ WriteHeader(p, "5xx")
  /\ UNCHANGED <<gauge, aborted, upgrades, over>>

ReleaseDone(p) == ReleaseAdd(p) /\ UNCHANGED <<httpVars, reply>>

AgainDone(p) ==
  /\ at[p] = "again" /\ AddTo(p, -1, "out")
  /\ over' = IF ptr[p] = 0 THEN over ELSE [over EXCEPT ![addr[p]] = @ + 1]
  /\ UNCHANGED <<stage, gauge, aborted, upgrades, reply>>

(* The first byte of the body, or the end of an answer without one: net/http *)
(* writes a status of 200 if no final one was passed on to it.               *)
StatusImplied(p) ==
  /\ stage[p] \in {"body", "failed"} /\ at[p] = "out" /\ reply[p].told = "none"
  /\ reply' = [reply EXCEPT ![p].told = "200"]
  /\ UNCHANGED <<lcVars, httpVars>>

-----------------------------------------------------------------------------
(* The handler chain returns: the middlewares record the request with the    *)
(* status they noted.                                                        *)
Finish(p) ==
  /\ stage[p] \in {"body", "failed"} /\ at[p] = "out" /\ reply[p].told # "none"
  /\ Goto(p, "none")
  /\ reply' = [reply EXCEPT ![p] = NoReply]
  /\ gauge' = gauge - 1
  /\ UNCHANGED <<lcVars, aborted, upgrades, over>>

(* The body breaks off: the panic skips the middlewares' last lines. *)
BodyBreaks(p) ==
  /\ stage[p] = "body" /\ at[p] = "out" /\ aborted < MaxAborts
  /\ Goto(p, "none")
  /\ aborted' = aborted + 1
  /\ reply' = [reply EXCEPT ![p] = NoReply]
  /\ UNCHANGED <<lcVars, gauge, upgrades, over>>

-----------------------------------------------------------------------------
Request(p) == \/ Arrive(p) \/ Choose(p) \/ Direct(p) \/ NoBackend(p) \/ Hint(p) \/ Headers(p)
              \/ Upgrade(p) \/ UpgradeFails(p) \/ RoundTripFails(p) \/ ReleaseDone(p)
              \/ AgainDone(p) \/ StatusImplied(p) \/ Finish(p) \/ BodyBreaks(p)
Pulse == (SetBackendsWait \/ SetBackends) /\ UNCHANGED <<httpVars, reply>>

Next == Pulse \/ \E p \in Conns : Request(p)

Spec == Init /\ [][Next]_vars

-----------------------------------------------------------------------------
Statuses == {"none", "1xx", "200", "404", "5xx"}

TypeOK ==
  /\ LCTypeOK
  /\ stage \in [Conns -> {"none", "direct", "body", "upgrade", "failed"}]
  /\ gauge \in Nat /\ aborted \in 0..MaxAborts /\ upgrades \in 0..MaxUpgrades
  /\ over \in [Addrs -> 0..MaxUpgrades]
  /\ reply \in [Conns -> [noted : Statuses, told : Statuses, meant : Statuses]]

(* The counter of a backend never taken out of the list is the number of     *)
(* requests whose headers are still awaited, minus one for every protocol    *)
(* switch the gate could not serve: that is the only way the hooks of the    *)
(* proxy unbalance Acquire and Release.                                      *)
CountsAwaited ==
  \A a \in Addrs : NeverRemoved(a) => count[a][Cell(a)] = Cardinality(Holders(a)) - over[a]

InFlight(a) == {p \in Conns : addr[p] = a /\ (p \in Holders(a) \/ stage[p] \in {"body", "upgrade"})}

(* Release is documented to be called when the request is complete, so that  *)
(* the balancer sees the requests in flight.  It is called when the headers  *)
(* arrive: a backend that streams many bodies counts as idle.                *)
CountsInFlight ==
  \A a \in Addrs : NeverRemoved(a) /\ over[a] = 0 => count[a][Cell(a)] = Cardinality(InFlight(a))

(* The gauge is documented as the number of requests in flight.  A body that *)
(* breaks off leaves it one too high for ever.                               *)
Active == {p \in Conns : stage[p] # "none"}
GaugeIsInFlight == gauge = Cardinality(Active)

(* The status in the metrics and in the log is documented as the one of the  *)
(* response, the one its client is told, and the client should be told what  *)
(* the proxy wrote last.  After an informational response the wrappers keep  *)
(* the first status and drop the real one.                                   *)
RightStatus(p) ==
  reply[p].told # "none" => reply[p].noted = reply[p].told /\ reply[p].told = reply[p].meant
StatusRecorded == \A p \in Conns : RightStatus(p)
=============================================================================
