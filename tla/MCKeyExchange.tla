--------------------------- MODULE MCKeyExchange ---------------------------
(* A small instance of KeyExchange: two peers, one of which can generate *)
(* a second key pair.                                                    *)
EXTENDS KeyExchange

CONSTANTS a, b, k1, k2, k3

TwoPeers  == {a, b}
ThreeKeys == {k1, k2, k3}

===========================================================================
