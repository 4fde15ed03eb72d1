------------------------------ MODULE MCRelay ------------------------------
(* A small instance of Relay: three peers on a line, two packets from    *)
(* one end to the other and one back, routes that may lead anywhere      *)
(* along the line.                                                       *)
EXTENDS Relay

CONSTANTS a, b, c, p1, p2, p3

Three        == {a, b, c}
Line         == {{a, b}, {b, c}}
ThreePackets == {p1, p2, p3}

MCSource == [p \in Packet |-> IF p = p3 THEN c ELSE a]
MCTarget == [p \in Packet |-> IF p = p3 THEN a ELSE c]

===========================================================================
