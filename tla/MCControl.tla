------------------------------ MODULE MCControl ------------------------------
(***************************************************************************)
(* What goes on beside the requests, on small instances: the watcher of    *)
(* centauri.yml, and the Oracle.  The modules share no variable, so their  *)
(* interleavings show nothing: each behaviour runs one of them, and the    *)
(* other stays in one initial state.                                       *)
(***************************************************************************)
EXTENDS ConfigWatcher, Oracle

CONSTANTS a, b, web, dns

VARIABLE part

controlVars == <<watcherVars, oracleVars, part>>

(* Two gates: a version that names both, one that drops a gate, and one with *)
(* an empty list; a half-written file may lack a backend.                    *)
MCGateLists == {<<>>, <<a>>, <<a, b>>}
Both == [g \in GateNames |-> IF g = web THEN <<a, b>> ELSE <<a>>]
MCVersions == {Both, [g \in {web} |-> <<a>>], [g \in {web} |-> <<>>]}
MCHalves == {Broken, [Both EXCEPT ![web] = <<a>>]}

(* A slow request breaches the threshold until twenty faster ones outweigh   *)
(* it.                                                                       *)
MCBounds == <<400, 1000>>
MCLoads == {<<2, 20>>, <<3, 1>>}

MCInit ==
  /\ part \in {"file", "oracle"}
  /\ WatcherInit /\ OracleInit
  /\ part = "oracle" => disk = Absent

File(A) == part = "file" /\ A /\ UNCHANGED <<oracleVars, part>>
Advice(A) == part = "oracle" /\ A /\ UNCHANGED <<watcherVars, part>>

MCNext == File(WatcherNext) \/ Advice(OracleNext)

(* The fairness of the two modules. *)
MCSpec ==
  /\ MCInit /\ [][MCNext]_controlVars
  /\ WF_controlVars(File(Main)) /\ WF_controlVars(File(Watcher))
  /\ WF_controlVars(Advice(Flush \/ Check \/ Analyze("flush")))
  /\ WF_controlVars(Advice(Wake \/ Analyze("ticker")))
=============================================================================
