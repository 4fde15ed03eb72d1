---------------------------- MODULE MCSessions ----------------------------
(* A small instance of Sessions: a calls b, and each pings the other.     *)
EXTENDS Sessions

CONSTANTS a, b, c, i1, i2

TwoPeers == {a, b}
OneCall  == {c}
TwoPings == {i1, i2}
MCCaller == [x \in Call |-> a]
MCPinger == [x \in Ping |-> IF x = i1 THEN a ELSE b]

===========================================================================
