---------------------------- MODULE MCPulseScan ----------------------------
(* PulseScan on two backends: lists that shrink, grow and are replaced. *)
EXTENDS PulseScan

CONSTANTS a, b

MCLists == {<<a>>, <<a, b>>, <<b>>}
=============================================================================
