--------------------------- MODULE MCConnections ---------------------------
(* A small instance of Connections: one other peer, with its server and   *)
(* an address from which it connects.                                     *)
EXTENDS Connections

CONSTANTS p, sp, ep

OnePeer  == {p}
TwoAddrs == {sp, ep}
Servers  == {sp}
MCOwner  == [a \in Addr |-> p]

===========================================================================
