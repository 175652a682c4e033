----------------------------- MODULE MCHttpGate -----------------------------
(* HttpGate with two connections over two backends, one of which comes and *)
(* goes.                                                                   *)
EXTENDS HttpGate

CONSTANTS a, b

MCLists == {<<a, b>>, <<b>>, <<>>}
=============================================================================
