--------------------------- MODULE RoutingProofs ---------------------------
(* Safety of RoutingProtocol for any set of peers, any network and any   *)
(* number of announcements under way: type correctness, the two facts    *)
(* packet forwarding relies on, and the soundness of the metric.         *)
EXTENDS RoutingProtocol, WellFoundedInduction, TLAPS

---------------------------------------------------------------------------
(* The routing table                                                     *)

\* A table that is well typed, whose gateways are all direct neighbours,
\* and in which only direct neighbours have metric 1.
SoundTable(t) ==
  /\ IsTable(t)
  /\ \A d \in DOMAIN t :
       /\ t[d].hops = 1 => t[d].gateway = d
       /\ t[d].gateway \in DOMAIN t
       /\ t[t[d].gateway] = Direct(t[d].gateway)

\* A freshly started Routing has no rows.
LEMMA EmptyTableSound == SoundTable(EmptyTable)
  BY DEF SoundTable, IsTable, EmptyTable

\* A direct row is a row.
LEMMA DirectIsRow == \A m \in Node : Direct(m) \in Row
  BY MaxDistanceAssumption DEF Direct, Row, Hops

\* add_neighbor keeps a table sound and makes the peer a direct neighbour.
LEMMA AddNeighborSound ==
  ASSUME NEW t, NEW m \in Node, SoundTable(t)
  PROVE  /\ SoundTable(AddNeighbor(t, m))
         /\ DOMAIN AddNeighbor(t, m) = DOMAIN t \cup {m}
         /\ AddNeighbor(t, m)[m] = Direct(m)
         /\ \A d \in DOMAIN t : d # m => AddNeighbor(t, m)[d] = t[d]
<1> DEFINE u == AddNeighbor(t, m)
<1>1. /\ DOMAIN u = DOMAIN t \cup {m}
      /\ u[m] = Direct(m)
      /\ \A d \in DOMAIN t : d # m => u[d] = t[d]
  BY DEF AddNeighbor
<1>2. IsTable(u)
  BY <1>1, DirectIsRow DEF AddNeighbor, IsTable, SoundTable
<1>3. Direct(m).gateway = m /\ Direct(m).hops = 1
  BY DEF Direct
<1>4. ASSUME NEW d \in DOMAIN u
      PROVE  /\ u[d].hops = 1 => u[d].gateway = d
             /\ u[d].gateway \in DOMAIN u
             /\ u[u[d].gateway] = Direct(u[d].gateway)
  <2>1. CASE d = m
    BY <2>1, <1>1, <1>3
  <2>2. CASE d # m
    BY <2>2, <1>1 DEF SoundTable
  <2> QED BY <2>1, <2>2
<1> QED BY <1>1, <1>2, <1>4 DEF SoundTable

\* remove_routes_via keeps a table sound: a row that stays does not use
\* the lost gateway, so the row of its own gateway stays too.
LEMMA RemoveRoutesViaSound ==
  ASSUME NEW t, NEW g, SoundTable(t)
  PROVE  SoundTable(RemoveRoutesVia(t, g))
<1> DEFINE u == RemoveRoutesVia(t, g)
<1>1. /\ DOMAIN u = {d \in DOMAIN t : t[d].gateway # g}
      /\ \A d \in DOMAIN u : u[d] = t[d]
  BY DEF RemoveRoutesVia, Restrict
<1>2. IsTable(u)
  BY DEF RemoveRoutesVia, Restrict, IsTable, SoundTable
<1>3. ASSUME NEW d \in DOMAIN u
      PROVE  /\ u[d].hops = 1 => u[d].gateway = d
             /\ u[d].gateway \in DOMAIN u
             /\ u[u[d].gateway] = Direct(u[d].gateway)
  <2>1. d \in DOMAIN t /\ u[d] = t[d] /\ t[d].gateway # g
    BY <1>1
  <2> DEFINE h == t[d].gateway
  <2>2. h \in DOMAIN t /\ t[h] = Direct(h)
    BY <2>1 DEF SoundTable
  <2>3. t[h].gateway # g
    BY <2>1, <2>2 DEF Direct
  <2>4. h \in DOMAIN u /\ u[h] = t[h]
    BY <1>1, <2>2, <2>3
  <2> QED BY <2>1, <2>2, <2>4 DEF SoundTable
<1> QED BY <1>1, <1>2, <1>3 DEF SoundTable

\* The rows update_from_advertisement leaves: each is an old row, or a row
\* through g one hop longer than advertised. It replaces no direct row.
LEMMA UpdateRows ==
  ASSUME NEW t, NEW g \in Node, NEW adv, SoundTable(t), IsAdvert(adv),
         NEW d \in DOMAIN UpdateFromAdvertisement(t, g, adv)
  PROVE  LET u == UpdateFromAdvertisement(t, g, adv)
         IN  \/ d \in DOMAIN t /\ u[d] = t[d]
             \/ /\ d \in DOMAIN adv /\ d # g /\ d \in Node
                /\ adv[d] + 1 \in Hops /\ adv[d] + 1 # 1
                /\ u[d] = [gateway |-> g, hops |-> adv[d] + 1]
<1> DEFINE merged == Merged(t, g, adv)
<1>1. /\ d \in DOMAIN merged
      /\ UpdateFromAdvertisement(t, g, adv)[d] = merged[d]
  BY DEF UpdateFromAdvertisement, Restrict
<1>2. CASE d \in Improved(t, g, adv)
  <2>1. d \in DOMAIN adv /\ d # g /\ adv[d] + 1 < MaxDistance
    BY <1>2 DEF Improved
  <2>2. d \in Node /\ adv[d] \in Hops
    BY <2>1 DEF IsAdvert
  <2>3. adv[d] + 1 \in Hops /\ adv[d] + 1 # 1
    BY <2>1, <2>2, MaxDistanceAssumption DEF Hops
  <2>4. merged[d] = [gateway |-> g, hops |-> adv[d] + 1]
    BY <1>2 DEF Merged
  <2> QED BY <1>1, <2>1, <2>2, <2>3, <2>4
<1>3. CASE d \notin Improved(t, g, adv)
  BY <1>1, <1>3 DEF Merged
<1> QED BY <1>2, <1>3

\* A direct row survives update_from_advertisement.
LEMMA UpdateKeepsDirect ==
  ASSUME NEW t, NEW g \in Node, NEW adv, SoundTable(t), IsAdvert(adv),
         NEW m \in DOMAIN t, t[m] = Direct(m)
  PROVE  /\ m \in DOMAIN UpdateFromAdvertisement(t, g, adv)
         /\ UpdateFromAdvertisement(t, g, adv)[m] = Direct(m)
<1> DEFINE merged == Merged(t, g, adv)
<1>1. t[m].hops = 1 /\ t[m].gateway = m
  BY DEF Direct
<1>2. m \notin Improved(t, g, adv)
  BY <1>1 DEF Improved, IsAdvert, Hops
<1>3. m \in DOMAIN merged /\ merged[m] = Direct(m)
  BY <1>2 DEF Merged
<1>4. m \notin Stale(merged, g, adv)
  BY <1>1, <1>3 DEF Stale
<1> QED BY <1>3, <1>4 DEF UpdateFromAdvertisement, Restrict

\* update_from_advertisement keeps a table sound when the gateway is
\* already a direct neighbour, which the PEER_INFO handler sees to.
LEMMA UpdateSound ==
  ASSUME NEW t, NEW g \in Node, NEW adv, SoundTable(t), IsAdvert(adv),
         g \in DOMAIN t, t[g] = Direct(g)
  PROVE  SoundTable(UpdateFromAdvertisement(t, g, adv))
<1> DEFINE u == UpdateFromAdvertisement(t, g, adv)
<1>1. ASSUME NEW d \in DOMAIN u
      PROVE  /\ d \in Node /\ u[d] \in Row
             /\ u[d].hops = 1 => u[d].gateway = d
             /\ u[d].gateway \in DOMAIN u
             /\ u[u[d].gateway] = Direct(u[d].gateway)
  <2>1. CASE d \in DOMAIN t /\ u[d] = t[d]
    <3> DEFINE h == t[d].gateway
    <3>1. h \in DOMAIN t /\ t[h] = Direct(h)
      BY <2>1 DEF SoundTable
    <3>2. h \in DOMAIN u /\ u[h] = Direct(h)
      BY <3>1, UpdateKeepsDirect
    <3>3. d \in Node /\ u[d] \in Row
      BY <2>1 DEF SoundTable, IsTable
    <3> HIDE DEF u
    <3> QED BY <2>1, <3>2, <3>3 DEF SoundTable
  <2>2. CASE /\ d \in Node /\ adv[d] + 1 \in Hops /\ adv[d] + 1 # 1
             /\ u[d] = [gateway |-> g, hops |-> adv[d] + 1]
    <3>1. g \in DOMAIN u /\ u[g] = Direct(g)
      BY UpdateKeepsDirect
    <3> HIDE DEF u
    <3>2. u[d].gateway = g /\ u[d].hops # 1 /\ u[d] \in Row
      BY <2>2 DEF Row
    <3> QED BY <2>2, <3>1, <3>2
  <2> QED BY <2>1, <2>2, UpdateRows
<1>2. u \in [DOMAIN u -> Row]
  <2>1. u = [d \in DOMAIN u |-> u[d]]
    BY DEF UpdateFromAdvertisement, Restrict
  <2> HIDE DEF u
  <2> QED BY <2>1, <1>1
<1> HIDE DEF u
<1>3. IsTable(u)
  BY <1>1, <1>2 DEF IsTable
<1>4. SoundTable(u)
  BY <1>1, <1>3 DEF SoundTable
<1> QED BY <1>4 DEF u

\* The PEER_INFO handler as a whole.
LEMMA AfterPeerInfoSound ==
  ASSUME NEW t, NEW g \in Node, NEW adv, SoundTable(t), IsAdvert(adv)
  PROVE  /\ SoundTable(AfterPeerInfo(t, g, adv))
         /\ \A m \in DOMAIN t : t[m] = Direct(m) =>
              /\ m \in DOMAIN AfterPeerInfo(t, g, adv)
              /\ AfterPeerInfo(t, g, adv)[m] = Direct(m)
<1> DEFINE s == AddNeighbor(t, g)
<1>1. SoundTable(s) /\ g \in DOMAIN s /\ s[g] = Direct(g)
  BY AddNeighborSound
<1>2. SoundTable(UpdateFromAdvertisement(s, g, adv))
  <2> HIDE DEF s
  <2> QED BY <1>1, UpdateSound
<1>3. ASSUME NEW m \in DOMAIN t, t[m] = Direct(m)
      PROVE  /\ m \in DOMAIN UpdateFromAdvertisement(s, g, adv)
             /\ UpdateFromAdvertisement(s, g, adv)[m] = Direct(m)
  <2>1. m \in DOMAIN s /\ s[m] = Direct(m)
    <3>1. CASE m = g
      BY <1>1, <3>1
    <3>2. CASE m # g
      BY <1>3, <3>2 DEF AddNeighbor
    <3> QED BY <3>1, <3>2
  <2> HIDE DEF s
  <2> QED BY <1>1, <2>1, UpdateKeepsDirect
<1> QED BY <1>2, <1>3 DEF AfterPeerInfo

\* What a peer announces is well typed.
LEMMA AdvertisementIsAdvert ==
  ASSUME NEW t, NEW m, SoundTable(t)
  PROVE  /\ IsAdvert(Advertisement(t, m))
         /\ \A d \in DOMAIN Advertisement(t, m) :
              d \in DOMAIN t /\ Advertisement(t, m)[d] = t[d].hops
  BY DEF IsAdvert, Advertisement, Advertised, SoundTable, IsTable, Row

---------------------------------------------------------------------------
(* The inductive invariant                                               *)

\* Every table is sound, and every PEER_INFO travels between peers of the
\* network.
Sound ==
  /\ TypeOK
  /\ \A n \in Node : SoundTable(table[n])
  /\ \A p \in inflight : {p.from, p.to} \in links

\* Whoever could still make a peer a neighbour, or is the gateway of a row,
\* is attached or about to be noticed as gone.
Attached ==
  /\ \A n \in Node : \A d \in DOMAIN table[n] :
       LET g == table[n][d].gateway IN {n, g} \in up \/ g \in closing[n]
  /\ \A p \in inflight : IF p.live THEN {p.from, p.to} \in up
                                   ELSE p.from \in closing[p.to]

IInv == Sound /\ Attached /\ MetricIsSound

\* The initial state satisfies the invariant.
LEMMA InitIInv == Init => IInv
<1> SUFFICES ASSUME Init PROVE IInv
  OBVIOUS
<1>1. TypeOK
  BY EmptyTableSound DEF Init, TypeOK, SoundTable
<1>2. \A n \in Node : SoundTable(table[n]) /\ DOMAIN table[n] = {}
  BY EmptyTableSound DEF Init, EmptyTable
<1> QED BY <1>1, <1>2 DEF Init, IInv, Sound, Attached, MetricIsSound

\* A PEER_INFO of the network, as the steps below see it.
LEMMA SentPeerInfo ==
  ASSUME Sound, NEW n \in Node, NEW m \in Node, {n, m} \in up
  PROVE  LET q == [from |-> n, to |-> m,
                   routes |-> Advertisement(table[n], m), live |-> TRUE]
         IN  IsPeerInfo(q) /\ {q.from, q.to} \in links
  BY AdvertisementIsAdvert DEF Sound, TypeOK, IsPeerInfo

\* The network stays the same.
LEMMA LinksStay == [Next]_vars => links' = links
  BY DEF Next, vars, HandleHello, Keepalive, SendPeerInfo, Deliver, HandlePeerInfo,
         CloseConnection, LinkDown, LinkUp, Restart

\* Every step keeps the tables sound and the messages well typed.
LEMMA SoundStep == Sound /\ [Next]_vars => Sound'
<1> SUFFICES ASSUME Sound, [Next]_vars PROVE Sound'
  OBVIOUS
<1>0. links' = links
  BY LinksStay
<1> USE <1>0 DEF Sound, TypeOK
<1>1. ASSUME NEW n \in Node, NEW m \in Node, SendPeerInfo(n, m) PROVE Sound'
  <2> DEFINE q == [from |-> n, to |-> m,
                   routes |-> Advertisement(table[n], m), live |-> TRUE]
  <2>1. IsPeerInfo(q) /\ {q.from, q.to} \in links
    BY <1>1, SentPeerInfo DEF SendPeerInfo
  <2>2. inflight' = inflight \cup {q}
    BY <1>1 DEF SendPeerInfo
  <2> HIDE DEF q
  <2> QED BY <1>1, <2>1, <2>2 DEF SendPeerInfo
<1>2. ASSUME NEW p \in inflight, HandlePeerInfo(p) PROVE Sound'
  <2>1. /\ p.to \in Node /\ p.from \in Node /\ IsAdvert(p.routes)
        /\ SoundTable(table[p.to])
    BY DEF IsPeerInfo
  <2>2. SoundTable(AfterPeerInfo(table[p.to], p.from, p.routes))
    BY <2>1, AfterPeerInfoSound
  <2>3. \A n \in Node : SoundTable(table'[n])
    BY <1>2, <2>1, <2>2 DEF HandlePeerInfo
  <2>4. DOMAIN table' = Node /\ \A n \in Node : IsTable(table'[n])
    BY <1>2, <2>3 DEF HandlePeerInfo, SoundTable
  <2> QED BY <1>2, <2>3, <2>4 DEF HandlePeerInfo
<1>3. ASSUME NEW n \in Node, NEW m \in Node, CloseConnection(n, m) PROVE Sound'
  <2>1. SoundTable(RemoveRoutesVia(table[n], m))
    BY RemoveRoutesViaSound
  <2>2. \A k \in Node : SoundTable(table'[k])
    BY <1>3, <2>1 DEF CloseConnection
  <2>3. DOMAIN table' = Node /\ \A k \in Node : IsTable(table'[k])
    BY <1>3, <2>2 DEF CloseConnection, SoundTable
  <2>4. inflight' \subseteq inflight
    BY <1>3 DEF CloseConnection
  <2>5. closing' \in [Node -> SUBSET Node] /\ up' = up /\ faults' = faults
    BY <1>3 DEF CloseConnection
  <2> QED BY <2>2, <2>3, <2>4, <2>5
<1>4. ASSUME NEW n \in Node, NEW m \in Node, LinkDown(n, m) PROVE Sound'
  <2>1. ASSUME NEW q \in inflight'
        PROVE  IsPeerInfo(q) /\ {q.from, q.to} \in links
    <3>1. PICK p \in inflight :
            q = [p EXCEPT !.live = @ /\ {p.from, p.to} # {n, m}]
      BY <1>4, <2>1 DEF LinkDown
    <3>2. /\ q.from = p.from /\ q.to = p.to /\ q.routes = p.routes
          /\ q.live \in BOOLEAN
          /\ q = [from |-> q.from, to |-> q.to, routes |-> q.routes, live |-> q.live]
      BY <3>1 DEF IsPeerInfo
    <3> QED BY <3>2 DEF IsPeerInfo
  <2>2. closing' \in [Node -> SUBSET Node] /\ up' \subseteq links /\ faults' \in Nat
    BY <1>4 DEF LinkDown
  <2> QED BY <1>4, <2>1, <2>2 DEF LinkDown
<1>5. ASSUME NEW n \in Node, NEW m \in Node, LinkUp(n, m) PROVE Sound'
  BY <1>5 DEF LinkUp
<1>6. ASSUME NEW n \in Node, Restart(n) PROVE Sound'
  <2>1. \A k \in Node : SoundTable(table'[k])
    BY <1>6, EmptyTableSound DEF Restart
  <2>2. DOMAIN table' = Node /\ \A k \in Node : IsTable(table'[k])
    BY <1>6, <2>1 DEF Restart, SoundTable
  <2>3. ASSUME NEW q \in inflight'
        PROVE  IsPeerInfo(q) /\ {q.from, q.to} \in links
    <3>1. PICK p \in inflight : q = [p EXCEPT !.live = @ /\ p.from # n]
      BY <1>6, <2>3 DEF Restart
    <3>2. /\ q.from = p.from /\ q.to = p.to /\ q.routes = p.routes
          /\ q.live \in BOOLEAN
          /\ q = [from |-> q.from, to |-> q.to, routes |-> q.routes, live |-> q.live]
      BY <3>1 DEF IsPeerInfo
    <3> QED BY <3>2 DEF IsPeerInfo
  <2>4. closing' \in [Node -> SUBSET Node] /\ up' = up /\ faults' \in Nat
    BY <1>6 DEF Restart
  <2> QED BY <2>1, <2>2, <2>3, <2>4
<1>7. CASE UNCHANGED vars
  BY <1>7 DEF vars
<1> QED
  BY <1>1, <1>2, <1>3, <1>4, <1>5, <1>6, <1>7
  DEF Next, HandleHello, Keepalive, Deliver, Between

\* The gateway of every row after a PEER_INFO of g is g or was a gateway.
LEMMA AfterPeerInfoGateway ==
  ASSUME NEW t, NEW g \in Node, NEW adv, SoundTable(t), IsAdvert(adv),
         NEW d \in DOMAIN AfterPeerInfo(t, g, adv)
  PROVE  LET u == AfterPeerInfo(t, g, adv)
         IN  u[d].gateway = g \/ (d \in DOMAIN t /\ u[d] = t[d])
<1> DEFINE s == AddNeighbor(t, g)
           u == UpdateFromAdvertisement(s, g, adv)
<1>1. SoundTable(s)
  BY AddNeighborSound
<1>2. d \in DOMAIN u
  BY DEF AfterPeerInfo
<1>3. (d \in DOMAIN s /\ u[d] = s[d]) \/ u[d].gateway = g
  <2> HIDE DEF s
  <2>1. \/ d \in DOMAIN s /\ u[d] = s[d]
        \/ u[d] = [gateway |-> g, hops |-> adv[d] + 1]
    BY <1>1, <1>2, UpdateRows
  <2> HIDE DEF u
  <2> QED BY <2>1
<1>4. ASSUME d \in DOMAIN s
      PROVE  s[d].gateway = g \/ (d \in DOMAIN t /\ s[d] = t[d])
  BY <1>4 DEF AddNeighbor, Direct
<1> HIDE DEF s, u
<1>5. u[d].gateway = g \/ (d \in DOMAIN t /\ u[d] = t[d])
  BY <1>3, <1>4
<1> QED BY <1>5 DEF u, s, AfterPeerInfo

\* Every step keeps gateways attached: a late PEER_INFO of a broken
\* connection can only make a neighbour of a peer that is still to be
\* removed, and the removal discards what that connection still carried.
LEMMA AttachedStep == Sound /\ Attached /\ [Next]_vars => Attached'
<1> SUFFICES ASSUME Sound, Attached, [Next]_vars PROVE Attached'
  OBVIOUS
<1> USE DEF Sound, TypeOK, Attached
<1>0. \A p \in inflight : p.from \in Node /\ p.to \in Node /\ p.live \in BOOLEAN
  BY DEF IsPeerInfo
<1>1. ASSUME NEW n \in Node, NEW m \in Node, SendPeerInfo(n, m) PROVE Attached'
  <2> DEFINE q == [from |-> n, to |-> m,
                   routes |-> Advertisement(table[n], m), live |-> TRUE]
  <2>1. q.live /\ {q.from, q.to} \in up
    BY <1>1 DEF SendPeerInfo
  <2>2. inflight' = inflight \cup {q} /\ UNCHANGED <<table, up, closing>>
    BY <1>1 DEF SendPeerInfo
  <2> HIDE DEF q
  <2> QED BY <2>1, <2>2
<1>2. ASSUME NEW p \in inflight, HandlePeerInfo(p) PROVE Attached'
  <2>1. ASSUME NEW n \in Node, NEW d \in DOMAIN table'[n]
        PROVE  LET g == table'[n][d].gateway IN {n, g} \in up \/ g \in closing[n]
    <3>1. CASE n = p.to
      <4>1. table'[n] = AfterPeerInfo(table[n], p.from, p.routes)
        BY <1>2, <3>1 DEF HandlePeerInfo
      <4>2. \/ table'[n][d].gateway = p.from
            \/ d \in DOMAIN table[n] /\ table'[n][d] = table[n][d]
        BY <4>1, <1>0, AfterPeerInfoGateway DEF IsPeerInfo
      <4>3. {n, p.from} \in up \/ p.from \in closing[n]
        BY <3>1, <1>0
      <4> QED BY <4>2, <4>3
    <3>2. CASE n # p.to
      BY <1>2, <3>2, <1>0 DEF HandlePeerInfo
    <3> QED BY <3>1, <3>2
  <2> QED BY <1>2, <2>1 DEF HandlePeerInfo
<1>3. ASSUME NEW n \in Node, NEW m \in Node, CloseConnection(n, m) PROVE Attached'
  <2>1. /\ \A k \in Node : k # n => table'[k] = table[k] /\ closing'[k] = closing[k]
        /\ table'[n] = RemoveRoutesVia(table[n], m)
        /\ closing'[n] = closing[n] \ {m}
        /\ up' = up
    BY <1>3 DEF CloseConnection
  <2>0. \A x \in DOMAIN table'[n] :
          x \in DOMAIN table[n] /\ table'[n][x] = table[n][x] /\ table[n][x].gateway # m
    BY <2>1 DEF RemoveRoutesVia, Restrict
  <2>2. ASSUME NEW k \in Node, NEW d \in DOMAIN table'[k]
        PROVE  LET g == table'[k][d].gateway IN {k, g} \in up \/ g \in closing'[k]
    <3>1. CASE k = n
      <4>1. /\ d \in DOMAIN table[n] /\ table'[n][d] = table[n][d]
            /\ table[n][d].gateway # m
        BY <2>0, <3>1
      <4> QED BY <2>1, <3>1, <4>1
    <3>2. CASE k # n
      BY <2>1, <3>2
    <3> QED BY <3>1, <3>2
  <2>3. ASSUME NEW q \in inflight'
        PROVE  IF q.live THEN {q.from, q.to} \in up ELSE q.from \in closing'[q.to]
    <3>1. q \in inflight /\ (q.live \/ q.from # m \/ q.to # n)
      BY <1>3 DEF CloseConnection, Between
    <3> QED BY <3>1, <2>1, <1>0
  <2> QED BY <2>1, <2>2, <2>3
<1>4. ASSUME NEW n \in Node, NEW m \in Node, LinkDown(n, m) PROVE Attached'
  <2>1. /\ table' = table
        /\ up' = up \ {{n, m}}
        /\ \A k \in Node : closing[k] \subseteq closing'[k]
        /\ m \in closing'[n] /\ n \in closing'[m]
    BY <1>4 DEF LinkDown
  <2>2. \A k, g \in Node :
          ({k, g} \in up \/ g \in closing[k]) => ({k, g} \in up' \/ g \in closing'[k])
    <3>1. \A k, g \in Node : {k, g} = {n, m} => g \in closing'[k]
      BY <2>1
    <3> SUFFICES ASSUME NEW k \in Node, NEW g \in Node,
                        {k, g} \in up \/ g \in closing[k]
                 PROVE  {k, g} \in up' \/ g \in closing'[k]
      OBVIOUS
    <3>2. CASE {k, g} = {n, m}
      BY <3>1, <3>2
    <3>3. CASE {k, g} # {n, m}
      <4> HIDE DEF Attached, Sound, TypeOK
      <4> QED BY <2>1, <3>3
    <3> QED BY <3>2, <3>3
  <2>3. \A k \in Node : \A d \in DOMAIN table[k] : table[k][d].gateway \in Node
    BY DEF SoundTable, IsTable
  <2>4. ASSUME NEW q \in inflight'
        PROVE  IF q.live THEN {q.from, q.to} \in up' ELSE q.from \in closing'[q.to]
    <3>1. PICK p \in inflight :
            q = [p EXCEPT !.live = @ /\ {p.from, p.to} # {n, m}]
      BY <1>4, <2>4 DEF LinkDown
    <3>2. /\ q.from = p.from /\ q.to = p.to
          /\ q.live = (p.live /\ {p.from, p.to} # {n, m})
      BY <3>1 DEF IsPeerInfo
    <3>3. p.from \in Node /\ p.to \in Node
      BY <1>0
    <3>4. CASE p.live /\ {p.from, p.to} # {n, m}
      BY <2>1, <3>2, <3>4
    <3>5. CASE p.live /\ {p.from, p.to} = {n, m}
      <4>1. (p.from = n /\ p.to = m) \/ (p.from = m /\ p.to = n)
        BY <3>5
      <4> QED BY <2>1, <3>2, <3>5, <4>1
    <3>6. CASE ~p.live
      BY <2>1, <3>2, <3>3, <3>6
    <3> QED BY <3>4, <3>5, <3>6
  <2> QED BY <2>1, <2>2, <2>3, <2>4
<1>5. ASSUME NEW n \in Node, NEW m \in Node, LinkUp(n, m) PROVE Attached'
  BY <1>5 DEF LinkUp
<1>6. ASSUME NEW n \in Node, Restart(n) PROVE Attached'
  <2>1. /\ table'[n] = EmptyTable
        /\ \A k \in Node : k # n => table'[k] = table[k] /\ closing[k] \subseteq closing'[k]
        /\ \A k \in Node : k # n /\ {n, k} \in up => n \in closing'[k]
        /\ up' = up
    BY <1>6 DEF Restart
  <2>2. \A k \in Node : \A d \in DOMAIN table'[k] :
          LET g == table'[k][d].gateway IN {k, g} \in up' \/ g \in closing'[k]
    BY <2>1 DEF EmptyTable
  <2>3. ASSUME NEW q \in inflight'
        PROVE  IF q.live THEN {q.from, q.to} \in up' ELSE q.from \in closing'[q.to]
    <3>1. PICK p \in inflight : p.to # n /\ q = [p EXCEPT !.live = @ /\ p.from # n]
      BY <1>6, <2>3 DEF Restart
    <3>2. q.from = p.from /\ q.to = p.to /\ q.live = (p.live /\ p.from # n)
      BY <3>1 DEF IsPeerInfo
    <3>3. p.from \in Node /\ p.to \in Node
      BY <1>0
    <3>4. CASE p.live /\ p.from # n
      BY <2>1, <3>2, <3>4
    <3>5. CASE p.live /\ p.from = n
      BY <2>1, <3>1, <3>2, <3>3, <3>5
    <3>6. CASE ~p.live
      BY <2>1, <3>1, <3>2, <3>3, <3>6
    <3> QED BY <3>4, <3>5, <3>6
  <2> QED BY <2>2, <2>3
<1>7. CASE UNCHANGED vars
  BY <1>7 DEF vars
<1> QED
  BY <1>1, <1>2, <1>3, <1>4, <1>5, <1>6, <1>7
  DEF Next, HandleHello, Keepalive, Deliver, Between

\* Handling a PEER_INFO of a neighbour g of n keeps n's metrics sound when
\* the announced ones are sound for g.
LEMMA AfterPeerInfoMetric ==
  ASSUME NEW L \in Networks, NEW t, NEW n \in Node, NEW g \in Node, NEW adv,
         SoundTable(t), IsAdvert(adv), {n, g} \in L,
         \A d \in DOMAIN t : Dist[L][n][d] <= t[d].hops,
         \A d \in DOMAIN adv : Dist[L][g][d] <= adv[d],
         NEW e \in DOMAIN AfterPeerInfo(t, g, adv)
  PROVE  Dist[L][n][e] <= AfterPeerInfo(t, g, adv)[e].hops
<1> DEFINE s == AddNeighbor(t, g)
           u == UpdateFromAdvertisement(s, g, adv)
<1>0. /\ Dist[L][n][g] <= 1
      /\ \A d \in Node : /\ Dist[L][n][d] \in Nat /\ Dist[L][g][d] \in Nat
                         /\ Dist[L][n][d] <= Dist[L][g][d] + 1
  BY DistAssumption
<1>1. SoundTable(s) /\ \A d \in DOMAIN s : Dist[L][n][d] <= s[d].hops
  <2>1. \A d \in DOMAIN s : Dist[L][n][d] <= s[d].hops
    BY <1>0 DEF AddNeighbor, Direct
  <2> QED BY <2>1, AddNeighborSound
<1>2. e \in DOMAIN u
  BY DEF AfterPeerInfo
<1> HIDE DEF s
<1>3. \/ e \in DOMAIN s /\ u[e] = s[e]
      \/ /\ e \in DOMAIN adv /\ e \in Node
         /\ u[e] = [gateway |-> g, hops |-> adv[e] + 1]
  BY <1>1, <1>2, UpdateRows
<1> HIDE DEF u
<1>4. CASE e \in DOMAIN s /\ u[e] = s[e]
  <2>1. Dist[L][n][e] <= u[e].hops
    BY <1>1, <1>4
  <2> QED BY <2>1 DEF u, s, AfterPeerInfo
<1>5. CASE /\ e \in DOMAIN adv /\ e \in Node
           /\ u[e] = [gateway |-> g, hops |-> adv[e] + 1]
  <2>1. adv[e] \in Nat
    BY <1>5 DEF IsAdvert, Hops
  <2>2. Dist[L][n][e] <= adv[e] + 1
    BY <1>0, <1>5, <2>1
  <2>3. Dist[L][n][e] <= u[e].hops
    BY <1>5, <2>2
  <2> QED BY <2>3 DEF u, s, AfterPeerInfo
<1> QED BY <1>3, <1>4, <1>5

\* Every step keeps the metrics above the distances of the network.
LEMMA MetricStep == Sound /\ MetricIsSound /\ [Next]_vars => MetricIsSound'
<1> SUFFICES ASSUME Sound, MetricIsSound, [Next]_vars PROVE MetricIsSound'
  OBVIOUS
<1> DEFINE Near(t, n)   == \A d \in DOMAIN t : Dist[links][n][d] <= t[d].hops
           NearInfo(p)  == \A d \in DOMAIN p.routes : Dist[links][p.from][d] <= p.routes[d]
<1>1. (\A n \in Node : Near(table[n], n)) /\ (\A p \in inflight : NearInfo(p))
  BY DEF MetricIsSound
<1>2. SUFFICES /\ \A n \in Node : Near(table'[n], n)
               /\ \A p \in inflight' : NearInfo(p)
  BY LinksStay DEF MetricIsSound
<1>3. ASSUME NEW n \in Node, NEW m \in Node, SendPeerInfo(n, m)
      PROVE  /\ \A k \in Node : Near(table'[k], k)
             /\ \A p \in inflight' : NearInfo(p)
  <2> DEFINE q == [from |-> n, to |-> m,
                   routes |-> Advertisement(table[n], m), live |-> TRUE]
  <2>1. NearInfo(q)
    BY <1>1, AdvertisementIsAdvert DEF Sound
  <2>2. inflight' = inflight \cup {q} /\ table' = table
    BY <1>3 DEF SendPeerInfo
  <2> HIDE DEF q
  <2> QED BY <2>1, <2>2, <1>1
<1>4. ASSUME NEW p \in inflight, HandlePeerInfo(p)
      PROVE  /\ \A k \in Node : Near(table'[k], k)
             /\ \A q \in inflight' : NearInfo(q)
  <2>1. /\ p.to \in Node /\ p.from \in Node /\ IsAdvert(p.routes)
        /\ {p.to, p.from} \in links /\ SoundTable(table[p.to])
        /\ DOMAIN table = Node /\ links \in Networks
    BY DEF Sound, TypeOK, IsPeerInfo
  <2>2. Near(AfterPeerInfo(table[p.to], p.from, p.routes), p.to)
    <3> DEFINE t == table[p.to]
    <3>1. Near(t, p.to) /\ NearInfo(p)
      BY <1>1, <2>1
    <3> QED BY <2>1, <3>1, AfterPeerInfoMetric
  <2>3. ASSUME NEW k \in Node PROVE Near(table'[k], k)
    <3>1. CASE k = p.to
      <4>1. table'[k] = AfterPeerInfo(table[p.to], p.from, p.routes)
        BY <1>4, <2>1, <3>1 DEF HandlePeerInfo
      <4> HIDE DEF Near
      <4> QED BY <2>2, <3>1, <4>1
    <3>2. CASE k # p.to
      BY <1>1, <1>4, <2>1, <3>2 DEF HandlePeerInfo
    <3> QED BY <3>1, <3>2
  <2> QED BY <1>1, <1>4, <2>3 DEF HandlePeerInfo
<1>5. ASSUME NEW n \in Node, NEW m \in Node, CloseConnection(n, m)
      PROVE  /\ \A k \in Node : Near(table'[k], k)
             /\ \A q \in inflight' : NearInfo(q)
  <2>1. Near(RemoveRoutesVia(table[n], m), n)
    BY <1>1 DEF RemoveRoutesVia, Restrict
  <2>2. \A k \in Node : table'[k] = IF k = n THEN RemoveRoutesVia(table[n], m) ELSE table[k]
    BY <1>5 DEF CloseConnection, Sound, TypeOK
  <2>3. inflight' \subseteq inflight
    BY <1>5 DEF CloseConnection
  <2> HIDE DEF Near, NearInfo
  <2> QED BY <1>1, <2>1, <2>2, <2>3
<1>6. ASSUME NEW n \in Node, NEW m \in Node, LinkDown(n, m)
      PROVE  /\ \A k \in Node : Near(table'[k], k)
             /\ \A q \in inflight' : NearInfo(q)
  <2>1. ASSUME NEW q \in inflight' PROVE NearInfo(q)
    <3>1. PICK p \in inflight :
            q = [p EXCEPT !.live = @ /\ {p.from, p.to} # {n, m}]
      BY <1>6, <2>1 DEF LinkDown
    <3>2. q.from = p.from /\ q.routes = p.routes
      BY <3>1 DEF Sound, TypeOK, IsPeerInfo
    <3> QED BY <1>1, <3>2
  <2> QED BY <1>1, <1>6, <2>1 DEF LinkDown
<1>7. ASSUME NEW n \in Node, Restart(n)
      PROVE  /\ \A k \in Node : Near(table'[k], k)
             /\ \A q \in inflight' : NearInfo(q)
  <2>1. ASSUME NEW q \in inflight' PROVE NearInfo(q)
    <3>1. PICK p \in inflight : q = [p EXCEPT !.live = @ /\ p.from # n]
      BY <1>7, <2>1 DEF Restart
    <3>2. q.from = p.from /\ q.routes = p.routes
      BY <3>1 DEF Sound, TypeOK, IsPeerInfo
    <3> QED BY <1>1, <3>2
  <2>2. \A k \in Node : table'[k] = IF k = n THEN EmptyTable ELSE table[k]
    BY <1>7 DEF Restart, Sound, TypeOK
  <2>3. Near(EmptyTable, n)
    BY DEF EmptyTable
  <2> HIDE DEF Near, NearInfo
  <2> QED BY <1>1, <2>1, <2>2, <2>3
<1>8. CASE UNCHANGED <<table, inflight>>
  BY <1>1, <1>8
<1> QED
  BY <1>3, <1>4, <1>5, <1>6, <1>7, <1>8
  DEF Next, HandleHello, Keepalive, Deliver, Between, LinkUp, vars

---------------------------------------------------------------------------
(* Theorems                                                              *)

\* The conjunction is inductive.
THEOREM Invariant == Spec => []IInv
<1>1. IInv /\ [Next]_vars => IInv'
  BY SoundStep, AttachedStep, MetricStep DEF IInv
<1> QED BY <1>1, InitIInv, PTL DEF Spec

\* Tables, announcements and the bookkeeping of connections stay well
\* typed, whatever the network does.
THEOREM TypeCorrect == Spec => []TypeOK
<1>1. IInv => TypeOK
  BY DEF IInv, Sound
<1> QED BY <1>1, Invariant, PTL

\* The gateway of a row is always a direct neighbour with a row of its own
\* (the comment in get_next_hop_addr says as much).
THEOREM GatewayAlwaysNeighbour == Spec => []GatewayIsNeighbour
<1>1. IInv => GatewayIsNeighbour
  BY DEF IInv, Sound, SoundTable, GatewayIsNeighbour
<1> QED BY <1>1, Invariant, PTL

\* Every row is a route, and its packets go to the gateway it names.
RoutesAreUsable ==
  \A n \in Node : \A d \in DOMAIN table[n] :
    HasNextHop(table[n], d) /\ NextHop(table[n], d) = table[n][d].gateway

\* send_to_peer finds an address for every peer get_route knows.
THEOREM RoutesUsable == Spec => []RoutesAreUsable
<1>1. TypeOK /\ GatewayIsNeighbour => RoutesAreUsable
  <2> SUFFICES ASSUME TypeOK, GatewayIsNeighbour, NEW n \in Node, NEW d \in DOMAIN table[n]
               PROVE  HasNextHop(table[n], d) /\ NextHop(table[n], d) = table[n][d].gateway
    BY DEF RoutesAreUsable
  <2>1. table[n][d].hops \in Hops
    BY DEF TypeOK, IsTable, Row
  <2>2. HasRoute(table[n], d)
    BY <2>1, MaxDistanceAssumption DEF HasRoute, Hops
  <2>3. LET g == table[n][d].gateway IN g \in DOMAIN table[n] /\ table[n][g] = Direct(g)
    BY DEF GatewayIsNeighbour
  <2> QED BY <2>2, <2>3 DEF HasNextHop, NextHop, Direct
<1> QED BY <1>1, TypeCorrect, GatewayAlwaysNeighbour, PTL

\* A direct neighbour whose link is gone is always about to be removed, in
\* spite of PEER_INFO that is handled late, twice or out of order.
THEOREM NeighboursAttached == Spec => []NeighbourIsAttached
<1>1. IInv => NeighbourIsAttached
  <2> SUFFICES ASSUME IInv, NEW n \in Node, NEW m \in DOMAIN table[n],
                      table[n][m].gateway = m
               PROVE  {n, m} \in up \/ m \in closing[n]
    BY DEF NeighbourIsAttached
  <2> QED BY DEF IInv, Attached
<1> QED BY <1>1, Invariant, PTL

\* No table and no announcement understates the distance to a peer.
THEOREM MetricsSound == Spec => []MetricIsSound
<1>1. IInv => MetricIsSound
  BY DEF IInv
<1> QED BY <1>1, Invariant, PTL

\* What NeighbourLostOnlyByClose allows of one step.
NoNeighbourLost ==
  \A n, m \in Node :
    (m \in DOMAIN table[n] /\ table[n][m] = Direct(m)
      /\ ~(m \in DOMAIN table'[n] /\ table'[n][m] = Direct(m)))
    => CloseConnection(n, m) \/ Restart(n)

\* PEER_INFO never costs a peer a direct neighbour: only the end of a
\* connection with it, or a restart, does.
THEOREM NeighbourKept == Spec => NeighbourLostOnlyByClose
<1>1. Sound /\ [Next]_vars => [NoNeighbourLost]_vars
  <2> SUFFICES ASSUME Sound, Next PROVE NoNeighbourLost
    OBVIOUS
  <2> SUFFICES ASSUME NEW n \in Node, NEW m \in DOMAIN table[n],
                      table[n][m] = Direct(m),
                      ~(m \in DOMAIN table'[n] /\ table'[n][m] = Direct(m))
               PROVE  CloseConnection(n, m) \/ Restart(n)
    BY DEF NoNeighbourLost
  <2>1. ASSUME NEW p \in inflight, HandlePeerInfo(p) PROVE FALSE
    <3>1. DOMAIN table = Node /\ p.to \in Node /\ p.from \in Node /\ IsAdvert(p.routes)
      BY DEF Sound, TypeOK, IsPeerInfo
    <3>2. n = p.to /\ table'[n] = AfterPeerInfo(table[n], p.from, p.routes)
      BY <2>1, <3>1 DEF HandlePeerInfo
    <3>3. SoundTable(table[n])
      BY DEF Sound
    <3> QED BY <3>1, <3>2, <3>3, AfterPeerInfoSound
  <2>2. ASSUME NEW k \in Node, NEW g \in Node, CloseConnection(k, g)
        PROVE  CloseConnection(n, m)
    <3>1. /\ g \in closing[k]
          /\ table'[n] = IF n = k THEN RemoveRoutesVia(table[k], g) ELSE table[n]
      BY <2>2 DEF CloseConnection, Sound, TypeOK
    <3>2. n = k
      BY <3>1
    <3>3. m = g
      BY <3>1, <3>2 DEF RemoveRoutesVia, Restrict, Direct
    <3> QED BY <2>2, <3>2, <3>3
  <2>3. ASSUME NEW k \in Node, Restart(k) PROVE Restart(n)
    BY <2>3 DEF Restart, Sound, TypeOK
  <2>4. ASSUME table' = table PROVE FALSE
    BY <2>4
  <2> QED
    BY <2>1, <2>2, <2>3, <2>4
    DEF Next, HandleHello, Keepalive, SendPeerInfo, Deliver, Between, LinkDown, LinkUp
<1>2. IInv => Sound
  BY DEF IInv
<1> QED BY <1>1, <1>2, Invariant, PTL DEF Spec, NeighbourLostOnlyByClose, NoNeighbourLost

---------------------------------------------------------------------------
(* Rows are no shorter than the way through their gateway                *)

\* The gateway of a row is nearer to the destination than the row says.
NearerFrom(L, r, d) == r.gateway # d => Dist[L][r.gateway][d] + 1 <= r.hops

GatewayIsNearer ==
  \A n \in Node : \A d \in DOMAIN table[n] : NearerFrom(links, table[n][d], d)

\* What a PEER_INFO brings is as far as its sender says, and one hop more.
LEMMA AfterPeerInfoNearer ==
  ASSUME NEW L \in Networks, NEW t, NEW g \in Node, NEW adv, SoundTable(t), IsAdvert(adv),
         \A d \in DOMAIN t : NearerFrom(L, t[d], d),
         \A d \in DOMAIN adv : Dist[L][g][d] <= adv[d],
         NEW e \in DOMAIN AfterPeerInfo(t, g, adv)
  PROVE  NearerFrom(L, AfterPeerInfo(t, g, adv)[e], e)
<1> DEFINE s == AddNeighbor(t, g)
           u == UpdateFromAdvertisement(s, g, adv)
<1>1. SoundTable(s) /\ \A d \in DOMAIN s : NearerFrom(L, s[d], d)
  <2>1. \A d \in DOMAIN s : NearerFrom(L, s[d], d)
    BY DEF AddNeighbor, Direct, NearerFrom
  <2> QED BY <2>1, AddNeighborSound
<1>2. e \in DOMAIN u
  BY DEF AfterPeerInfo
<1> HIDE DEF s
<1>3. \/ e \in DOMAIN s /\ u[e] = s[e]
      \/ /\ e \in DOMAIN adv /\ e \in Node
         /\ u[e] = [gateway |-> g, hops |-> adv[e] + 1]
  BY <1>1, <1>2, UpdateRows
<1> HIDE DEF u
<1>4. CASE e \in DOMAIN s /\ u[e] = s[e]
  <2>1. NearerFrom(L, u[e], e)
    BY <1>1, <1>4
  <2> QED BY <2>1 DEF u, s, AfterPeerInfo
<1>5. CASE /\ e \in DOMAIN adv /\ e \in Node
           /\ u[e] = [gateway |-> g, hops |-> adv[e] + 1]
  <2>1. adv[e] \in Nat /\ Dist[L][g][e] \in Nat
    BY <1>5, DistAssumption DEF IsAdvert, Hops
  <2>2. NearerFrom(L, u[e], e)
    BY <1>5, <2>1 DEF NearerFrom
  <2> QED BY <2>2 DEF u, s, AfterPeerInfo
<1> QED BY <1>3, <1>4, <1>5

\* Only a PEER_INFO adds rows, and it tells the truth about its sender.
LEMMA NearerStep ==
  Sound /\ MetricIsSound /\ GatewayIsNearer /\ [Next]_vars => GatewayIsNearer'
<1> SUFFICES ASSUME Sound, MetricIsSound, GatewayIsNearer, [Next]_vars PROVE GatewayIsNearer'
  OBVIOUS
<1> DEFINE Nearer(t) == \A d \in DOMAIN t : NearerFrom(links, t[d], d)
<1>1. \A n \in Node : Nearer(table[n])
  BY DEF GatewayIsNearer
<1>2. SUFFICES \A n \in Node : Nearer(table'[n])
  BY LinksStay DEF GatewayIsNearer
<1>3. ASSUME NEW p \in inflight, HandlePeerInfo(p)
      PROVE  \A n \in Node : Nearer(table'[n])
  <2>1. /\ p.to \in Node /\ p.from \in Node /\ IsAdvert(p.routes)
        /\ SoundTable(table[p.to]) /\ DOMAIN table = Node /\ links \in Networks
    BY DEF Sound, TypeOK, IsPeerInfo
  <2>2. \A d \in DOMAIN p.routes : Dist[links][p.from][d] <= p.routes[d]
    BY DEF MetricIsSound
  <2>3. Nearer(AfterPeerInfo(table[p.to], p.from, p.routes))
    BY <1>1, <2>1, <2>2, AfterPeerInfoNearer
  <2>4. \A n \in Node : table'[n] = IF n = p.to THEN AfterPeerInfo(table[p.to], p.from, p.routes)
                                               ELSE table[n]
    BY <1>3, <2>1 DEF HandlePeerInfo
  <2> HIDE DEF Nearer
  <2> QED BY <1>1, <2>3, <2>4
<1>4. ASSUME NEW n \in Node, NEW m \in Node, CloseConnection(n, m)
      PROVE  \A k \in Node : Nearer(table'[k])
  <2>1. Nearer(RemoveRoutesVia(table[n], m))
    BY <1>1 DEF RemoveRoutesVia, Restrict
  <2>2. \A k \in Node : table'[k] = IF k = n THEN RemoveRoutesVia(table[n], m) ELSE table[k]
    BY <1>4 DEF CloseConnection, Sound, TypeOK
  <2> HIDE DEF Nearer
  <2> QED BY <1>1, <2>1, <2>2
<1>5. ASSUME NEW n \in Node, Restart(n)
      PROVE  \A k \in Node : Nearer(table'[k])
  <2>1. \A k \in Node : table'[k] = IF k = n THEN EmptyTable ELSE table[k]
    BY <1>5 DEF Restart, Sound, TypeOK
  <2>2. Nearer(EmptyTable)
    BY DEF EmptyTable
  <2> HIDE DEF Nearer
  <2> QED BY <1>1, <2>1, <2>2
<1>6. CASE UNCHANGED table
  BY <1>1, <1>6
<1> QED
  BY <1>3, <1>4, <1>5, <1>6
  DEF Next, HandleHello, Keepalive, SendPeerInfo, Deliver, Between, LinkDown, LinkUp, vars

LEMMA NearerInvariant == Spec => []GatewayIsNearer
<1>1. Init => GatewayIsNearer
  BY DEF Init, EmptyTable, GatewayIsNearer
<1>2. IInv => Sound /\ MetricIsSound
  BY DEF IInv
<1> QED BY <1>1, <1>2, NearerStep, Invariant, PTL DEF Spec

---------------------------------------------------------------------------
(* Tables that have settled                                              *)

\* Two neighbours whose announcements change nothing have a direct row for
\* each other, are no further from anything than one hop behind the other,
\* and use the other only for what it offers.
LEMMA SettledRows ==
  ASSUME IInv, Settled, NEW n \in Node, NEW m \in Node, {n, m} \in up
  PROVE  /\ n \in DOMAIN table[m] /\ table[m][n] = Direct(n)
         /\ \A d \in Advertised(table[n], m) :
              d # n /\ table[n][d].hops + 1 < MaxDistance =>
                d \in DOMAIN table[m] /\ table[m][d].hops <= table[n][d].hops + 1
         /\ \A d \in DOMAIN table[m] :
              d # n /\ table[m][d].gateway = n => d \in Advertised(table[n], m)
<1> DEFINE t == table[m]
           adv == Advertisement(table[n], m)
           s == AddNeighbor(t, n)
           merged == Merged(s, n, adv)
<1>1. SoundTable(t) /\ SoundTable(table[n]) /\ IsAdvert(adv)
  BY AdvertisementIsAdvert DEF IInv, Sound
<1>2. /\ DOMAIN adv = Advertised(table[n], m)
      /\ \A d \in DOMAIN adv : adv[d] = table[n][d].hops /\ adv[d] \in Nat
  BY <1>1 DEF Advertisement, IsAdvert, Hops
<1>3. /\ DOMAIN s = DOMAIN t \cup {n} /\ s[n] = Direct(n)
      /\ \A d \in DOMAIN t : d # n => s[d] = t[d]
  BY <1>1, AddNeighborSound
<1>4. t = Restrict(merged, DOMAIN merged \ Stale(merged, n, adv))
  BY DEF Settled, AfterPeerInfo, UpdateFromAdvertisement
<1>5. /\ DOMAIN t = DOMAIN merged \ Stale(merged, n, adv)
      /\ \A d \in DOMAIN t : t[d] = merged[d]
  <2> HIDE DEF t, merged, adv
  <2> QED BY <1>4 DEF Restrict
<1>6. /\ DOMAIN merged = DOMAIN s \cup Improved(s, n, adv)
      /\ \A d \in DOMAIN merged :
           merged[d] = IF d \in Improved(s, n, adv) THEN [gateway |-> n, hops |-> adv[d] + 1]
                                                    ELSE s[d]
  <2> HIDE DEF s, adv
  <2> QED BY DEF Merged
<1>7. \A d : d \in Improved(s, n, adv) <=>
               /\ d \in DOMAIN adv /\ d # n /\ adv[d] + 1 < MaxDistance
               /\ d \in DOMAIN s => adv[d] + 1 < s[d].hops
  BY DEF Improved
<1>8. \A d : d \in Stale(merged, n, adv) <=>
               /\ d \in DOMAIN merged /\ merged[d].gateway = n /\ d # n
               /\ ~(d \in DOMAIN adv /\ d # n)
  BY DEF Stale
<1> HIDE DEF t, adv, s, merged
<1>9. n \in DOMAIN t /\ t[n] = Direct(n)
  BY <1>3, <1>5, <1>6, <1>7, <1>8
<1>10. ASSUME NEW d \in DOMAIN adv, d # n, adv[d] + 1 < MaxDistance
       PROVE  d \in DOMAIN t /\ t[d].hops <= adv[d] + 1
  <2>1. CASE d \in Improved(s, n, adv)
    <3>1. d \in DOMAIN t /\ t[d] = [gateway |-> n, hops |-> adv[d] + 1]
      BY <1>5, <1>6, <1>8, <1>10, <2>1
    <3> QED BY <1>2, <3>1
  <2>2. CASE d \notin Improved(s, n, adv)
    <3>1. d \in DOMAIN t /\ s[d] = t[d] /\ ~(adv[d] + 1 < t[d].hops)
      BY <1>3, <1>7, <1>10, <2>2
    <3>2. t[d].hops \in Nat
      BY <1>1, <3>1 DEF SoundTable, IsTable, Row, Hops
    <3> QED BY <1>2, <3>1, <3>2
  <2> QED BY <2>1, <2>2
<1>11. ASSUME NEW d \in DOMAIN t, d # n, t[d].gateway = n
       PROVE  d \in DOMAIN adv
  BY <1>5, <1>8, <1>11
<1>12. \A d \in Advertised(table[n], m) : d \in DOMAIN adv /\ adv[d] = table[n][d].hops
  BY <1>2
<1>13. \A d \in Advertised(table[n], m) :
         d # n /\ table[n][d].hops + 1 < MaxDistance =>
           d \in DOMAIN t /\ t[d].hops <= table[n][d].hops + 1
  BY <1>10, <1>12
<1> QED BY <1>2, <1>9, <1>11, <1>13 DEF t

\* Every set of numbers has a least one: induction without an operator.
LEMMA LeastNumber ==
  ASSUME NEW S \in SUBSET Nat, S # {}
  PROVE  \E n \in S : \A m \in S : n <= m
<1> DEFINE R == OpToRel(<, Nat)
<1>1. \E n \in S : \A m \in S : ~ (<<m, n>> \in R)
  BY NatLessThanWellFounded, WFMin
<1>2. \A m, n \in Nat : <<m, n>> \in R <=> m < n
  BY DEF OpToRel
<1> HIDE DEF R
<1>3. \E n \in S : \A m \in S : ~ (m < n)
  BY <1>1, <1>2
<1> QED BY <1>3

\* f goes from f[0] to f[k] in k hops over links U.
Walk(U, f, k) == f \in [0..k -> Node] /\ \A i \in 1..k : {f[i - 1], f[i]} \in U

\* No way is shorter than the distance, and none of its rests is on a
\* shortest way.
LEMMA ShortestWalk ==
  ASSUME NEW L \in Networks, NEW k \in Nat, NEW f, Walk(L, f, k), Dist[L][f[0]][f[k]] = k
  PROVE  \A j \in 0..k : f[k - j] \in Node /\ Dist[L][f[k - j]][f[k]] = j
<1> DEFINE D(i) == Dist[L][f[i]][f[k]]
<1>1. \A i \in 0..k : f[i] \in Node /\ D(i) \in Nat
  BY DistAssumption DEF Walk
<1>2. ASSUME NEW i \in 1..k PROVE D(i - 1) <= D(i) + 1
  <2> DEFINE n == f[i - 1]  m == f[i]  d == f[k]
  <2>1. n \in Node /\ m \in Node /\ d \in Node /\ {n, m} \in L
    BY <1>1 DEF Walk
  <2> HIDE DEF n, m, d
  <2>2. Dist[L][n][d] <= Dist[L][m][d] + 1
    BY <2>1, DistAssumption
  <2> QED BY <2>2 DEF n, m, d
<1>3. D(k) = 0 /\ D(0) = k
  BY <1>1, DistAssumption
<1> HIDE DEF D
<1>4. \A i \in 0..k : D(i) >= k - i
  <2> DEFINE S == {i \in 0..k : ~(D(i) >= k - i)}
  <2>1. SUFFICES ASSUME S # {} PROVE FALSE
    OBVIOUS
  <2>2. PICK i \in S : \A j \in S : i <= j
    <3>1. S \in SUBSET Nat
      OBVIOUS
    <3> HIDE DEF S
    <3> QED BY <2>1, <3>1, LeastNumber
  <2>3. i \in 1..k /\ i - 1 \in 0..k
    BY <1>3
  <2>4. D(i - 1) >= k - (i - 1)
    BY <2>2, <2>3
  <2> QED BY <1>1, <1>2, <2>3, <2>4
<1>5. \A j \in 0..k : D(k - j) <= j
  <2> DEFINE S == {j \in 0..k : ~(D(k - j) <= j)}
  <2>1. SUFFICES ASSUME S # {} PROVE FALSE
    OBVIOUS
  <2>2. PICK j \in S : \A i \in S : j <= i
    <3>1. S \in SUBSET Nat
      OBVIOUS
    <3> HIDE DEF S
    <3> QED BY <2>1, <3>1, LeastNumber
  <2>3. j \in 1..k /\ j - 1 \in 0..k /\ k - j + 1 \in 1..k /\ (k - j + 1) - 1 = k - j
        /\ k - (j - 1) = k - j + 1
    BY <1>3
  <2>4. D(k - j + 1) <= j - 1
    BY <2>2, <2>3
  <2>5. D(k - j) <= D(k - j + 1) + 1
    BY <1>2, <2>3
  <2>6. D(k - j) \in Nat /\ D(k - j + 1) \in Nat
    BY <1>1, <2>3
  <2> QED BY <2>3, <2>4, <2>5, <2>6
<1>6. ASSUME NEW j \in 0..k PROVE D(k - j) = j
  <2>1. k - j \in 0..k /\ k - (k - j) = j
    OBVIOUS
  <2>2. D(k - j) \in Nat /\ D(k - j) >= k - (k - j) /\ D(k - j) <= j
    BY <1>1, <1>4, <1>5, <2>1
  <2> QED BY <2>1, <2>2
<1>7. \A j \in 0..k : f[k - j] \in Node
  BY <1>1
<1> QED BY <1>6, <1>7 DEF D

\* The row for a destination spreads along the links that work.
LEMMA RowsSpread ==
  ASSUME IInv, GatewayIsNearer, Settled, NEW k \in 1..(MaxDistance - 1), NEW f,
         Walk(up, f, k), Dist[links][f[0]][f[k]] = k
  PROVE  f[k] \in DOMAIN table[f[0]] /\ table[f[0]][f[k]].hops = k
<1> DEFINE d == f[k]
           Has(j) == d \in DOMAIN table[f[k - j]] /\ table[f[k - j]][d].hops = j
           S == {j \in 1..k : ~Has(j)}
<1>1. /\ k \in Nat /\ k < MaxDistance /\ MaxDistance \in Nat
      /\ links \in Networks /\ up \subseteq links
  BY MaxDistanceAssumption DEF IInv, Sound, TypeOK
<1>2. \A j \in 0..k : f[k - j] \in Node /\ Dist[links][f[k - j]][d] = j
  <2>1. Walk(links, f, k)
    BY <1>1 DEF Walk
  <2> QED BY <1>1, <2>1, ShortestWalk
<1>3. \A i \in 1..k : {f[i - 1], f[i]} \in up
  BY DEF Walk
<1>4. SUFFICES S = {}
  BY <1>1
<1>5. SUFFICES ASSUME S # {} PROVE FALSE
  OBVIOUS
<1>6. PICK j \in S : \A i \in S : j <= i
  <2>1. S \in SUBSET Nat
    OBVIOUS
  <2> HIDE DEF S
  <2> QED BY <1>5, <2>1, LeastNumber
<1> DEFINE n == f[k - j]
           m == f[k - (j - 1)]
<1>7. j \in 1..k /\ j - 1 \in 0..k /\ ~Has(j) /\ (j = 1 \/ Has(j - 1))
  BY <1>6
<1>8. /\ n \in Node /\ m \in Node /\ d \in Node /\ Dist[links][d][d] = 0
      /\ Dist[links][n][d] = j /\ Dist[links][m][d] = j - 1
  <2>1. f[k - 0] = d
    BY <1>1
  <2> QED BY <1>1, <1>2, <1>7, <2>1, DistAssumption
<1>9. {m, n} \in up
  <2>1. k - (j - 1) \in 1..k /\ (k - (j - 1)) - 1 = k - j
    BY <1>7
  <2>2. {n, m} \in up
    BY <1>3, <2>1
  <2> QED BY <2>2
<1>10. j = 1 => m = d
  BY <1>1
<1>11. Has(j) <=> d \in DOMAIN table[n] /\ table[n][d].hops = j
  OBVIOUS
<1>12. j # 1 => d \in DOMAIN table[m] /\ table[m][d].hops = j - 1
  BY <1>7
<1> HIDE DEF n, m, d, Has, S
<1>13. CASE j = 1
  <2>1. d \in DOMAIN table[n] /\ table[n][d] = Direct(d)
    BY <1>8, <1>9, <1>10, <1>13, SettledRows
  <2> QED BY <1>7, <1>11, <1>13, <2>1 DEF Direct
<1>14. CASE j # 1
  <2>1. d # m /\ d # n
    BY <1>7, <1>8, <1>14
  <2>2. table[m][d].gateway # n
    <3>1. NearerFrom(links, table[m][d], d)
      BY <1>8, <1>12, <1>14 DEF GatewayIsNearer
    <3> QED BY <1>7, <1>8, <1>12, <1>14, <2>1, <3>1 DEF NearerFrom
  <2>3. d \in Advertised(table[m], n) /\ table[m][d].hops + 1 < MaxDistance
    BY <1>1, <1>7, <1>12, <1>14, <2>2 DEF Advertised
  <2>4. d \in DOMAIN table[n] /\ table[n][d].hops <= j
    BY <1>7, <1>8, <1>9, <1>12, <1>14, <2>1, <2>3, SettledRows
  <2>5. Dist[links][n][d] <= table[n][d].hops /\ table[n][d].hops \in Nat
    BY <1>8, <2>4 DEF IInv, MetricIsSound, Sound, SoundTable, IsTable, Row, Hops
  <2> QED BY <1>7, <1>8, <1>11, <2>4, <2>5
<1> QED BY <1>13, <1>14

\* A peer has no row for itself: its neighbours use its own row for it and
\* do not offer it what is routed through it.
LEMMA NoRowForItself ==
  ASSUME IInv, Settled, NEW n \in Node
  PROVE  n \notin DOMAIN table[n]
<1> SUFFICES ASSUME n \in DOMAIN table[n] PROVE FALSE
  OBVIOUS
<1> DEFINE g == table[n][n].gateway
<1>1. g \in Node /\ {n, g} \in up /\ {g, n} \in up
  <2>1. g \in Node
    BY DEF IInv, Sound, SoundTable, IsTable, Row
  <2>2. {n, g} \in up
    BY DEF IInv, Attached, Settled
  <2>3. {g, n} = {n, g}
    OBVIOUS
  <2> QED BY <2>1, <2>2, <2>3
<1>2. n # g
  <2>1. {n, g} \in links /\ links \in Networks
    BY <1>1 DEF IInv, Sound, TypeOK
  <2>2. \E a, b \in Node : a # b /\ {n, g} = {a, b}
    BY <2>1, LinksAssumption
  <2> HIDE DEF g
  <2> QED BY <2>2
<1>3. table[g][n] = Direct(n)
  BY <1>1, SettledRows
<1>4. n \in Advertised(table[g], n)
  BY <1>1, <1>2, SettledRows
<1> QED BY <1>3, <1>4 DEF Advertised, Direct

---------------------------------------------------------------------------
(* Theorems about tables that have settled                               *)

SettledIsShortest ==
  Settled => \A k \in 1..(MaxDistance - 1) : \A f \in [0..k -> Node] :
               Walk(up, f, k) /\ Dist[links][f[0]][f[k]] = k
                 => f[k] \in DOMAIN table[f[0]] /\ table[f[0]][f[k]].hops = k

\* Once announcements change nothing any more, a peer that can be reached
\* over links that work by a way as short as the network has at all is in
\* the table with that distance, whatever has failed and happened before.
THEOREM SettledRoutesAreShortest == Spec => []SettledIsShortest
<1>1. IInv /\ GatewayIsNearer => SettledIsShortest
  BY RowsSpread DEF SettledIsShortest
<1> QED BY <1>1, Invariant, NearerInvariant, PTL

\* Dist is the hop distance, and so is HopsOver of a whole network.
HopsAreExact ==
  \A L \in Networks : \A n, d \in Node :
    /\ HopsOver[L][n][d] = Dist[L][n][d]
    /\ Dist[L][n][d] < MaxDistance =>
         \E f : Walk(L, f, Dist[L][n][d]) /\ f[0] = n /\ f[Dist[L][n][d]] = d

MendedConverges == Settled /\ up = links => Converged

\* Once announcements change nothing any more and all links work again, the
\* tables are exactly the shortest paths, whatever failed in between and
\* whatever was lost, late or out of order: announcements lead nowhere else.
THEOREM MendedConverged ==
  ASSUME HopsAreExact
  PROVE  Spec => []MendedConverges
<1>1. ASSUME IInv, GatewayIsNearer, Settled, up = links
      PROVE  Converged
  <2>1. links \in Networks /\ DOMAIN table = Node
    BY <1>1 DEF IInv, Sound, TypeOK
  <2>2. ASSUME NEW n \in Node, NEW d \in DOMAIN table[n]
        PROVE  d \in Node \ {n} /\ HopsOver[up][n][d] < MaxDistance
    <3>1. d \in Node /\ table[n][d].hops \in Hops /\ d # n
      BY <1>1, NoRowForItself DEF IInv, Sound, SoundTable, IsTable, Row
    <3>2. Dist[links][n][d] <= table[n][d].hops /\ Dist[links][n][d] \in Nat
      BY <1>1, <2>1, <3>1, DistAssumption DEF IInv, MetricIsSound
    <3>3. HopsOver[up][n][d] = Dist[links][n][d]
      BY <1>1, <2>1, <3>1 DEF HopsAreExact
    <3> QED BY <3>1, <3>2, <3>3, MaxDistanceAssumption DEF Hops
  <2>3. ASSUME NEW n \in Node, NEW d \in Node \ {n}, HopsOver[up][n][d] < MaxDistance
        PROVE  d \in DOMAIN table[n] /\ table[n][d].hops = HopsOver[up][n][d]
    <3> DEFINE k == Dist[links][n][d]
    <3>1. k \in Nat /\ k = HopsOver[up][n][d] /\ k < MaxDistance
      BY <1>1, <2>1, <2>3, DistAssumption DEF HopsAreExact
    <3>2. PICK f : Walk(links, f, k) /\ f[0] = n /\ f[k] = d
      BY <2>1, <3>1 DEF HopsAreExact
    <3>3. k \in 1..(MaxDistance - 1)
      BY <3>1, <3>2, MaxDistanceAssumption
    <3>4. Walk(up, f, k) /\ Dist[links][f[0]][f[k]] = k
      BY <1>1, <3>2
    <3> HIDE DEF k
    <3>5. f[k] \in DOMAIN table[f[0]] /\ table[f[0]][f[k]].hops = k
      BY <1>1, <3>3, <3>4, RowsSpread
    <3> QED BY <3>1, <3>2, <3>5
  <2> QED BY <2>2, <2>3 DEF Converged
<1>2. IInv /\ GatewayIsNearer => MendedConverges
  BY <1>1 DEF MendedConverges
<1> QED BY <1>2, Invariant, NearerInvariant, PTL

===========================================================================
