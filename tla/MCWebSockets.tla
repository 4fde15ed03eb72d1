---------------------------- MODULE MCWebSockets ----------------------------
(* Instances of WebSockets for TLC.                                       *)
EXTENDS WebSockets

CONSTANTS c1, c2, c3, e1, e2

ThreeClients == {c1, c2, c3}
TwoEvents    == {e1, e2}

=============================================================================
