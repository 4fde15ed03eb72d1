-------------------------- MODULE RoutingProtocol --------------------------
(* The peers of a local network exchanging PEER_INFO: how every peer's   *)
(* routing table evolves with announcements, connections that close,     *)
(* links that fail and come back, and peers that restart.                *)
(*                                                                       *)
(* Two neighbours share up to two TCP connections, one opened by each    *)
(* side, and both carry PEER_INFO, so announcements from one peer to     *)
(* another are a set: they can be handled out of order.                  *)
EXTENDS RoutingTable, FiniteSets

CONSTANTS
  Networks,     \* networks, each the set of pairs {n, m} that can reach each other
  Dist,         \* Dist[L]: any lower bound of the hop distance over links L
  HopsOver,     \* HopsOver[U]: the hop distances over links U
  MaxQueued,    \* bound: unhandled PEER_INFO from one peer to another
  MaxInFlight,  \* MaxInFlight[L]: bound: unhandled PEER_INFO in network L
  MaxFaults     \* MaxFaults[L]: bound: link failures and restarts in network L

ASSUME LinksAssumption ==
  \A L \in Networks : \A l \in L : \E n, m \in Node : n # m /\ l = {n, m}

ASSUME DistAssumption ==
  \A L \in Networks :
    /\ Dist[L] \in [Node -> [Node -> Nat]]
    /\ \A n \in Node : Dist[L][n][n] = 0
    /\ \A n, m \in Node : {n, m} \in L =>
         Dist[L][n][m] <= 1 /\ \A d \in Node : Dist[L][n][d] <= Dist[L][m][d] + 1

ASSUME BoundsAssumption ==
  /\ MaxQueued \in Nat
  /\ MaxInFlight \in [Networks -> Nat] /\ MaxFaults \in [Networks -> Nat]

VARIABLES
  links,     \* the network the peers are in; it stays the same
  table,     \* table[n]: the routing table of peer n
  up,        \* the links that carry traffic now
  closing,   \* closing[n]: peers whose broken connection n has not noticed yet
  inflight,  \* PEER_INFO written to a connection and not handled yet
  faults     \* how many faults have happened

vars == <<links, table, up, closing, inflight, faults>>

IsPeerInfo(p) ==
  /\ p = [from |-> p.from, to |-> p.to, routes |-> p.routes, live |-> p.live]
  /\ p.from \in Node /\ p.to \in Node /\ p.live \in BOOLEAN
  /\ IsAdvert(p.routes)

TypeOK ==
  /\ DOMAIN table = Node /\ \A n \in Node : IsTable(table[n])
  /\ links \in Networks /\ up \subseteq links
  /\ closing \in [Node -> SUBSET Node]
  /\ \A p \in inflight : IsPeerInfo(p)
  /\ faults \in Nat

Between(n, m) == {p \in inflight : p.from = n /\ p.to = m}

Init ==
  /\ table = [n \in Node |-> EmptyTable]
  /\ links \in Networks /\ up = links
  /\ closing = [n \in Node |-> {}]
  /\ inflight = {}
  /\ faults = 0

---------------------------------------------------------------------------
(* Announcements                                                         *)

\* Write PEER_INFO with the routes n offers m to a connection with m.
SendPeerInfo(n, m) ==
  /\ {n, m} \in up
  /\ Cardinality(Between(n, m)) < MaxQueued
  /\ Cardinality(inflight) < MaxInFlight[links]
  /\ inflight' = inflight \cup
       {[from |-> n, to |-> m, routes |-> Advertisement(table[n], m), live |-> TRUE]}
  /\ UNCHANGED <<links, table, up, closing, faults>>

\* n hears the HELLO broadcast of m and announces itself over TCP. The
\* HELLO itself changes no table.
HandleHello(n, m) == SendPeerInfo(n, m)

\* n refreshes an open connection with a direct neighbour.
Keepalive(n, m) ==
  /\ HasRoute(table[n], m)
  /\ table[n][m].hops = 1
  /\ SendPeerInfo(n, m)

Announce(n, m) == HandleHello(n, m) \/ Keepalive(n, m)

\* The sender becomes a neighbour, then its routes are merged.
HandlePeerInfo(p) ==
  /\ table' = [table EXCEPT ![p.to] = AfterPeerInfo(@, p.from, p.routes)]
  /\ inflight' = inflight \ {p}
  /\ UNCHANGED <<links, up, closing, faults>>

Deliver(n, m) == \E p \in Between(n, m) : HandlePeerInfo(p)

---------------------------------------------------------------------------
(* Connections that end                                                  *)

\* Fault: the connection's address was not bound to m, so no row goes.
CloseUnbound(n, m) ==
  /\ m \in closing[n]
  /\ closing' = [closing EXCEPT ![n] = @ \ {m}]
  /\ inflight' = inflight \ {p \in Between(m, n) : ~p.live}
  /\ UNCHANGED <<links, table, up, faults>>

\* n's read loop with m ends (end of stream, reset, read timeout) or the
\* idle loop drops the connection. What was not read yet is gone.
CloseConnection(n, m) ==
  /\ m \in closing[n]
  /\ table' = [table EXCEPT ![n] = RemoveRoutesVia(@, m)]
  /\ closing' = [closing EXCEPT ![n] = @ \ {m}]
  /\ inflight' = inflight \ {p \in Between(m, n) : ~p.live}
  /\ UNCHANGED <<links, up, faults>>

\* The network between two peers fails. Each side notices in its own time.
LinkDown(n, m) ==
  /\ {n, m} \in up
  /\ faults < MaxFaults[links]
  /\ up' = up \ {{n, m}}
  /\ closing' = [closing EXCEPT ![n] = @ \cup {m}, ![m] = @ \cup {n}]
  /\ inflight' = {[p EXCEPT !.live = @ /\ {p.from, p.to} # {n, m}] : p \in inflight}
  /\ faults' = faults + 1
  /\ UNCHANGED <<links, table>>

LinkUp(n, m) ==
  /\ {n, m} \in links \ up
  /\ up' = up \cup {{n, m}}
  /\ UNCHANGED <<links, table, closing, inflight, faults>>

\* The process of n dies and starts again with an empty table; the peers
\* it was connected to see their connections with it end.
Restart(n) ==
  /\ faults < MaxFaults[links]
  /\ table' = [table EXCEPT ![n] = EmptyTable]
  /\ closing' = [m \in Node |->
       IF m = n THEN {} ELSE IF {n, m} \in up THEN closing[m] \cup {n} ELSE closing[m]]
  /\ inflight' = {[p EXCEPT !.live = @ /\ p.from # n] : p \in {q \in inflight : q.to # n}}
  /\ faults' = faults + 1
  /\ UNCHANGED <<links, up>>

---------------------------------------------------------------------------
Next ==
  \/ \E n, m \in Node : \/ HandleHello(n, m)
                        \/ Keepalive(n, m)
                        \/ Deliver(n, m)
                        \/ CloseConnection(n, m)
                        \/ LinkDown(n, m)
                        \/ LinkUp(n, m)
  \/ \E n \in Node : Restart(n)

Spec == Init /\ [][Next]_vars

\* The broadcast and keepalive loops never stop, every read loop keeps
\* handling what it reads, and a read timeout closes every broken
\* connection. Announcing is strongly fair because the bounds, which the
\* program does not have, may not silence a peer. Faults and repairs are
\* not scheduled by the program.
Fairness ==
  \A n, m \in Node : {n, m} \in UNION Networks =>
    /\ SF_vars(Announce(n, m))
    /\ WF_vars(Deliver(n, m))
    /\ WF_vars(CloseConnection(n, m))

FairSpec == Spec /\ Fairness

---------------------------------------------------------------------------
(* Properties                                                            *)

\* A row's gateway is always a direct neighbour with a row of its own, so
\* that get_next_hop_addr finds its address for every known destination.
GatewayIsNeighbour ==
  \A n \in Node : \A d \in DOMAIN table[n] :
    LET g == table[n][d].gateway
    IN  g \in DOMAIN table[n] /\ table[n][g] = Direct(g)

\* A direct neighbour is attached: its link carries traffic, or the
\* program has still to notice that their connection broke. Late or
\* reordered PEER_INFO never leave a neighbour that nothing would remove.
NeighbourIsAttached ==
  \A n \in Node : \A m \in DOMAIN table[n] :
    table[n][m].gateway = m => {n, m} \in up \/ m \in closing[n]

\* No row and no announcement claims a destination to be nearer than the
\* network allows, whatever fails, restarts or is reordered.
MetricIsSound ==
  /\ \A n \in Node : \A d \in DOMAIN table[n] : Dist[links][n][d] <= table[n][d].hops
  /\ \A p \in inflight : \A d \in DOMAIN p.routes : Dist[links][p.from][d] <= p.routes[d]

\* A direct neighbour leaves the table only when a connection with it
\* ends or the peer restarts: no announcement, of the neighbour itself or
\* of another peer, removes it or replaces it by a longer route.
NeighbourLostOnlyByClose ==
  [][\A n, m \in Node :
       (m \in DOMAIN table[n] /\ table[n][m] = Direct(m)
         /\ ~(m \in DOMAIN table'[n] /\ table'[n][m] = Direct(m)))
       => CloseConnection(n, m) \/ Restart(n)]_vars

\* The tables are exactly the shortest paths over the links that work: no
\* unreachable destination, no row for the peer itself, no way round.
Converged ==
  \A n \in Node :
    /\ DOMAIN table[n] = {d \in Node \ {n} : HopsOver[up][n][d] < MaxDistance}
    /\ \A d \in DOMAIN table[n] : table[n][d].hops = HopsOver[up][n][d]

\* Once links stop failing and coming back, the announcements lead every
\* table to the shortest paths over the links that work. In particular a
\* peer that is cut off is forgotten by all ("an inactive peer is considered
\* offline and removed from the list of peers", app/core/settings.py).
EventuallyConverged == <>[][UNCHANGED up]_vars => <>[]Converged

Isolated(d) == \A l \in up : d \notin l

\* Nothing is under way, and no announcement would change any table.
Settled ==
  /\ inflight = {}
  /\ \A n \in Node : closing[n] = {}
  /\ \A n, m \in Node : {n, m} \in up =>
       AfterPeerInfo(table[m], n, Advertisement(table[n], m)) = table[m]

\* Once the tables have settled, no peer keeps a route to a peer that is
\* cut off. Such a route would stay for ever, since the announcements
\* that peers repeat change nothing any more.
SettledForgetsDeparted ==
  Settled => \A n \in Node : \A d \in DOMAIN table[n] : ~Isolated(d)

===========================================================================
