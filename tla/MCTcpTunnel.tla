---------------------------- MODULE MCTcpTunnel ----------------------------
(* TcpTunnel with two connections over two backends, one of which comes and *)
(* goes.                                                                    *)
EXTENDS TcpTunnel

CONSTANTS a, b

MCLists == {<<a, b>>, <<b>>, <<>>}
=============================================================================
