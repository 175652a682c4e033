------------------------------- MODULE MCGate -------------------------------
(***************************************************************************)
(* What a request meets in an HTTP gate, on small instances: the rate      *)
(* limiter, the round-robin or weighted balancer, and the proxy over the   *)
(* least-connections balancer.  The three modules share no variable, so    *)
(* their interleavings show nothing: each behaviour runs one of them, and  *)
(* the others stay in one initial state.                                   *)
(***************************************************************************)
EXTENDS FluxShield, Router, HttpGate

CONSTANTS a, b, d

VARIABLE part

gateVars == <<vars, routerVars, shieldVars, part>>

(* Lists keep the order of the configuration, as those of PulseScan do. *)
MCLists == {<<a, b, d>>, <<a, b>>, <<b>>, <<>>}
MCWeightings == [Addrs -> 0..4]

(* The proxy has two backends, one of which comes and goes, and its list is  *)
(* replaced twice at most.                                                   *)
ProxyLists == {<<a, b>>, <<b>>, <<>>}
ProxySets == 2

MCInit ==
  /\ part \in {"limiter", "balancer", "proxy"}
  /\ ShieldInit /\ RouterInit /\ Init
  /\ part # "balancer" => /\ algorithm = "round_robin" /\ installed = <<>>
                          /\ \A x \in Addrs : weights[x] = 0
  /\ backends \in IF part = "proxy" THEN ProxyLists ELSE {<<>>}

Limiter == part = "limiter" /\ ShieldNext /\ UNCHANGED <<vars, routerVars, part>>
Chosen == part = "balancer" /\ RouterNext /\ UNCHANGED <<vars, shieldVars, part>>
Proxy ==
  /\ part = "proxy" /\ Next /\ sets' <= ProxySets /\ pending' \in ProxyLists \cup {NoList}
  /\ UNCHANGED <<routerVars, shieldVars, part>>

MCSpec == MCInit /\ [][Limiter \/ Chosen \/ Proxy]_gateVars
=============================================================================
