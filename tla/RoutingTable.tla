--------------------------- MODULE RoutingTable ---------------------------
(* The distance-vector table one peer keeps: class Routing of            *)
(* app/network/routing.py, as functions from the table before a call to  *)
(* the table after it.                                                   *)
(*                                                                       *)
(* A table maps each known destination to its row [gateway, hops]. A     *)
(* row's name is display only, and its ip and port are the address its   *)
(* gateway announced, so the gateway stands for all three.               *)
EXTENDS Naturals, Functions

CONSTANTS
  Node,         \* the peers, by peer_id
  MaxDistance   \* _MAX_DISTANCE: rows this long or longer are unreachable

ASSUME MaxDistanceAssumption == MaxDistance \in Nat /\ MaxDistance >= 2

Hops == 1..(MaxDistance - 1)
Row  == [gateway : Node, hops : Hops]

IsTable(t) == DOMAIN t \subseteq Node /\ t \in [DOMAIN t -> Row]

\* What a PEER_INFO carries: destinations with their hops.
IsAdvert(r) == DOMAIN r \subseteq Node /\ r \in [DOMAIN r -> Hops]

EmptyTable == [d \in {} |-> d]

\* Fault: a neighbour is no hop away.
DirectAtZero(m) == [gateway |-> m, hops |-> 0]

Direct(m) == [gateway |-> m, hops |-> 1]

\* get_route: a row, unless its metric says unreachable.
HasRoute(t, d) == d \in DOMAIN t /\ t[d].hops < MaxDistance

\* get_next_hop_addr looks the row of the row's gateway up, and answers
\* the address in it, which is the address of that row's own gateway.
HasNextHop(t, d) == HasRoute(t, d) /\ t[d].gateway \in DOMAIN t
NextHop(t, d)    == t[t[d].gateway].gateway

\* add_neighbor overwrites whatever row the peer had.
AddNeighbor(t, m) ==
  [d \in DOMAIN t \cup {m} |-> IF d = m THEN Direct(m) ELSE t[d]]

\* Fault: only the neighbour's own row goes.
RemoveRouteTo(t, g) == Restrict(t, DOMAIN t \ {g})

\* remove_routes_via
RemoveRoutesVia(t, g) == Restrict(t, {d \in DOMAIN t : t[d].gateway # g})

\* get_advertisement: every reachable row, except those whose traffic goes
\* through the peer it is meant for.
Advertised(t, m)    == {d \in DOMAIN t : t[d].hops < MaxDistance /\ t[d].gateway # m}
Advertisement(t, m) == [d \in Advertised(t, m) |-> t[d].hops]

\* update_from_advertisement, first half: the rows gateway g improves.
\* A longer metric from the current gateway does not replace the row.
Improved(t, g, adv) ==
  {d \in DOMAIN adv \ {g} : /\ adv[d] + 1 < MaxDistance
                            /\ d \in DOMAIN t => adv[d] + 1 < t[d].hops}

\* Fault: the hop to the gateway is not counted.
MergedUncounted(t, g, adv) ==
  [d \in DOMAIN t \cup Improved(t, g, adv) |->
     IF d \in Improved(t, g, adv) THEN [gateway |-> g, hops |-> adv[d]] ELSE t[d]]

Merged(t, g, adv) ==
  [d \in DOMAIN t \cup Improved(t, g, adv) |->
     IF d \in Improved(t, g, adv)
     THEN [gateway |-> g, hops |-> adv[d] + 1]
     ELSE t[d]]

\* Fault: whatever g does not advertise counts as stale.
StaleOfAny(t, g, adv) == {d \in DOMAIN t : d # g /\ d \notin DOMAIN adv \ {g}}

\* second half: the rows through g that g no longer advertises. The row of
\* g itself stays, since no peer advertises itself.
Stale(t, g, adv) ==
  {d \in DOMAIN t : t[d].gateway = g /\ d # g /\ d \notin DOMAIN adv \ {g}}

\* Fault: what is no longer advertised stays.
UpdateWithoutRemoval(t, g, adv) == Merged(t, g, adv)

UpdateFromAdvertisement(t, g, adv) ==
  LET merged == Merged(t, g, adv)
  IN  Restrict(merged, DOMAIN merged \ Stale(merged, g, adv))

\* What a PEER_INFO of g that offers adv makes of the table.
AfterPeerInfo(t, g, adv) == UpdateFromAdvertisement(AddNeighbor(t, g), g, adv)

===========================================================================
