----------------------------- MODULE MCIdentity -----------------------------
(* Instances of Identity for TLC.                                         *)
EXTENDS Identity, TLC

CONSTANTS h1, h2, h3, i1, i2, i3

ThreeHosts == {h1, h2, h3}
ThreeIds == {i1, i2, i3}

\* Hosts, and peer_ids, are alike.
Alike == Permutations(ThreeHosts) \cup Permutations(ThreeIds)

=============================================================================
