----------------------------- MODULE MCNetwork ------------------------------
(* The bootstrap node and a second node, with or without a foreign peer.   *)
EXTENDS Network

MCNone == {}
MCOneBehind == [n \in Nodes |-> IF n = Bootstrap THEN <<1>> ELSE <<>>]
=============================================================================
