-------------------------------- MODULE Router --------------------------------
(***************************************************************************)
(* The balancer of one gate, chosen by name (NewFromConfig), and its two   *)
(* users: the gate, which calls Next, and PulseScan, which calls           *)
(* SetBackends.  "least_connections" is the subject of LeastConn.          *)
(***************************************************************************)
EXTENDS RoundRobin, Weighted

VARIABLES algorithm,
          answer,    \* what the last call of Next returned
          installed, \* history: the list given last, to NewFromConfig or SetBackends
          replaced   \* calls of SetBackends so far

routerVars == <<rrVars, wVars, algorithm, answer, installed, replaced>>

(* NewFromConfig: any other name means round robin.  The balancer not chosen *)
(* is not built; its variables hold those of an empty one.                   *)
RouterInit ==
  /\ algorithm \in {"round_robin", "weighted"}
  /\ installed \in Lists
  /\ IF algorithm = "weighted" THEN WInit(installed) /\ RRInit(<<>>)
                               ELSE RRInit(installed) /\ WInit(<<>>)
  /\ answer = None /\ replaced = 0

Pick ==
  /\ IF algorithm = "weighted" THEN WNext /\ answer' = WAnswer /\ UNCHANGED rrVars
                               ELSE RRNext /\ answer' = RRAnswer /\ UNCHANGED wVars
  /\ UNCHANGED <<algorithm, installed, replaced>>

Replace ==
  /\ replaced < MaxSets /\ replaced' = replaced + 1
  /\ installed' \in Lists
  /\ IF algorithm = "weighted" THEN WSetBackends(installed') /\ UNCHANGED rrVars
                               ELSE RRSetBackends(installed') /\ UNCHANGED wVars
  /\ UNCHANGED <<algorithm, answer>>

RouterNext == Pick \/ Replace

RouterSpec == RouterInit /\ [][RouterNext]_routerVars

-----------------------------------------------------------------------------
RouterTypeOK ==
  /\ algorithm \in {"round_robin", "weighted"}
  /\ RRTypeOK /\ WTypeOK
  /\ answer \in Addrs \cup {None} /\ installed \in Lists
  /\ replaced \in 0..MaxSets

(* Either algorithm implements the interface: Next answers from the list that *)
(* was given last, after any calls and lists before it.                      *)
Interface == INSTANCE Balancer WITH list <- installed
ImplementsBalancer == Interface!Spec

(* Round robin: between two replacements of the list (or wraps of the        *)
(* counter) no backend gets two calls more than another.                     *)
EvenSpread == RREven

(* Weighted: the tally of each backend is its distance from its share. *)
TalliesAreDeviations == WTallies

(* Weighted: how far a backend can be ahead of and behind its share. *)
Smooth == WSmooth

(* Weighted: within `total` calls everybody got exactly its share. *)
Cycle == WCycle

(* Weighted: a backend that never left the list keeps its configured weight. *)
LoyalWeights == WLoyalWeights

(* Weighted: the comment of the struct says this of every configured backend. *)
ConfiguredWeightKept == WKnownWeights
=============================================================================
