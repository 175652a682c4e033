----------------------------- MODULE MCOracle -----------------------------
(* The Oracle with one HTTP gate and one gate that has no series.  A slow   *)
(* request breaches the threshold until twenty faster ones outweigh it.     *)
EXTENDS Oracle

MCBounds == <<400, 1000>>
MCLoads == {<<2, 20>>, <<3, 1>>}
===========================================================================
