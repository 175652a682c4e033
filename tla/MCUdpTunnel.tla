---------------------------- MODULE MCUdpTunnel ----------------------------
(* UdpTunnel with three datagrams of one client: a session can be made, be *)
(* evicted and be replaced while the second datagram is on its way.        *)
EXTENDS UdpTunnel

CONSTANTS x

MCFrom == [d \in Dgrams |-> x]
=============================================================================
