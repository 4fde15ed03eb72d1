--------------------------- MODULE MCBackpressure ---------------------------
(* Instances of Backpressure for TLC.                                     *)
EXTENDS Backpressure

CONSTANTS a, b

TwoPeers == {a, b}

=============================================================================
