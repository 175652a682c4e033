------------------------------ MODULE MCRouter ------------------------------
(* Router on three backends with every weight up to 4.   *)
EXTENDS Router

CONSTANTS a, b, c

MCLists == {<<a, b, c>>, <<b, a>>, <<c>>, <<>>}
MCWeightings == [Addrs -> 0..4]
=============================================================================
