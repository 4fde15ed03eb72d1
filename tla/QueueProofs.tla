----------------------------- MODULE QueueProofs -----------------------------
(* Safety of Relay, WebSockets and Backpressure for any nodes, packets,   *)
(* browsers, events, sends and attempts. The three are independent of     *)
(* each other; in all of them something waits behind something else:      *)
(* packets for a route, broadcasts for a lock, sends for room.            *)
EXTENDS Relay, WebSockets, Backpressure, FiniteSetTheorems, WellFoundedInduction, TLAPS

---------------------------------------------------------------------------
(* The buffers of Relay                                                  *)


\* Buffers are finite, so that counting them means something.
BuffersFinite == \A n \in Node : IsFiniteSet(buffer[n])

WithinLimit == \A n, d \in Node : Cardinality(HeldFor(n, d)) <= MaxPerDestination

RelayInv == RelayTypeOK /\ BuffersFinite /\ BufferedHasNoRoute

\* The initial state satisfies the invariant.
LEMMA RelayInitial == Init => RelayInv
<1> SUFFICES ASSUME Init PROVE RelayInv
  OBVIOUS
<1>1. \A n, d \in Node : HeldFor(n, d) = {}
  BY DEF Init, HeldFor
<1>2. WithinLimit
  BY <1>1, FS_EmptySet, RelayAssumption DEF WithinLimit
<1>3. \A n \in Node : DOMAIN hop[n] \subseteq Node /\ hop[n] \in [DOMAIN hop[n] -> Node]
  BY DEF Init, NoRoutes
<1>4. RelayTypeOK
  BY <1>2, <1>3 DEF Init, RelayTypeOK, WithinLimit
<1>5. BuffersFinite
  BY FS_EmptySet DEF Init, BuffersFinite
<1> QED BY <1>4, <1>5 DEF Init, RelayInv, BufferedHasNoRoute

\* Buffers that only lose packets stay finite and within the limit.
LEMMA Shrink ==
  ASSUME RelayTypeOK, BuffersFinite, \A n \in Node : buffer'[n] \subseteq buffer[n]
  PROVE  BuffersFinite' /\ WithinLimit'
<1>1. BuffersFinite'
  BY FS_Subset DEF BuffersFinite
<1>2. ASSUME NEW n \in Node, NEW d \in Node
      PROVE  Cardinality(HeldFor(n, d)') <= MaxPerDestination
  <2>1. HeldFor(n, d)' \subseteq HeldFor(n, d)
    BY DEF HeldFor
  <2>2. HeldFor(n, d) \subseteq buffer[n] /\ IsFiniteSet(buffer[n])
    BY DEF HeldFor, BuffersFinite
  <2>3. IsFiniteSet(HeldFor(n, d)) /\ IsFiniteSet(HeldFor(n, d)')
    BY <2>1, <2>2, FS_Subset
  <2>4. Cardinality(HeldFor(n, d)') <= Cardinality(HeldFor(n, d))
    BY <2>1, <2>3, FS_Subset
  <2>5. Cardinality(HeldFor(n, d)) <= MaxPerDestination
    BY DEF RelayTypeOK
  <2> QED BY <2>3, <2>4, <2>5, FS_CardinalityType, RelayAssumption
<1> QED BY <1>1, <1>2 DEF WithinLimit

\* Steps that only move packets on the wire.
LEMMA WireStep ==
  ASSUME RelayInv, wire' \subseteq Moving, UNCHANGED <<hop, buffer, flushes>>,
         sent' \subseteq Packet, arrived' \subseteq Packet
  PROVE  RelayInv'
  BY DEF RelayInv, RelayTypeOK, BuffersFinite, BufferedHasNoRoute, HeldFor, Routed

\* A packet that is held has no route, and there is room for it.
LEMMA HoldStep ==
  ASSUME RelayInv, NEW m \in wire, Hold(m)
  PROVE  RelayInv'
<1> DEFINE n == m.at
           c == [id |-> m.id, ttl |-> m.ttl - 1]
           t == Target[m.id]
<1>1. /\ m.id \in Packet /\ n \in Node /\ t \in Node /\ m.ttl \in 0..Ttl
      /\ ~Routed(n, t) /\ HasRoom(n, t) /\ m.ttl > 0
  BY RelayAssumption DEF RelayInv, RelayTypeOK, Moving, Hold
<1>2. c \in Copy
  BY <1>1, RelayAssumption DEF Copy
<1>3. /\ buffer' = [buffer EXCEPT ![n] = @ \cup {c}]
      /\ wire' \subseteq wire /\ UNCHANGED <<hop, flushes, sent, arrived>>
  BY DEF Hold
<1> HIDE DEF n, c, t
<1>4. buffer' \in [Node -> SUBSET Copy]
  BY <1>1, <1>2, <1>3 DEF RelayInv, RelayTypeOK
<1>5. /\ buffer'[n] = buffer[n] \cup {c}
      /\ \A o \in Node : o # n => buffer'[o] = buffer[o]
  BY <1>1, <1>3 DEF RelayInv, RelayTypeOK
<1>6. BuffersFinite'
  BY <1>5, FS_AddElement DEF RelayInv, BuffersFinite
<1>7. Target[c.id] = t
  BY DEF c, t
<1>8. WithinLimit'
  <2> SUFFICES ASSUME NEW o \in Node, NEW d \in Node
               PROVE  Cardinality(HeldFor(o, d)') <= MaxPerDestination
    BY DEF WithinLimit
  <2>1. IsFiniteSet(HeldFor(n, t))
    <3>1. HeldFor(n, t) \subseteq buffer[n]
      BY DEF HeldFor
    <3> QED BY <1>1, <3>1, FS_Subset DEF RelayInv, BuffersFinite
  <2>2. CASE o = n /\ d = t
    <3>1. HeldFor(o, d)' = HeldFor(n, t) \cup {c}
      BY <1>5, <1>7, <2>2 DEF HeldFor
    <3> DEFINE H == HeldFor(n, t)
    <3>2. IsFiniteSet(H) /\ Cardinality(H) < MaxPerDestination
      BY <1>1, <2>1 DEF HasRoom
    <3>3. HeldFor(o, d)' = H \cup {c}
      BY <3>1
    <3> HIDE DEF H
    <3>4. /\ Cardinality(H) \in Nat
          /\ Cardinality(H \cup {c}) = Cardinality(H) \/ Cardinality(H \cup {c}) = Cardinality(H) + 1
      BY <3>2, FS_AddElement, FS_CardinalityType
    <3> QED BY <3>2, <3>3, <3>4, RelayAssumption
  <2>3. CASE ~(o = n /\ d = t)
    <3>1. HeldFor(o, d)' = HeldFor(o, d)
      BY <1>5, <1>7, <2>3 DEF HeldFor
    <3> QED BY <3>1 DEF RelayInv, RelayTypeOK
  <2> QED BY <2>2, <2>3
<1>9. RelayTypeOK'
  BY <1>3, <1>4, <1>8 DEF RelayInv, RelayTypeOK, WithinLimit
<1>10. BufferedHasNoRoute'
  <2> SUFFICES ASSUME NEW o \in Node, NEW x \in buffer'[o], Routed(o, Target[x.id])'
               PROVE  \E f \in flushes'[o] : Target[x.id] \in f.todo
    BY DEF BufferedHasNoRoute
  <2>1. Routed(o, Target[x.id])
    BY <1>3 DEF Routed
  <2>2. x \in buffer[o]
    BY <1>1, <1>5, <1>7, <2>1
  <2> QED BY <1>3, <2>1, <2>2 DEF RelayInv, BufferedHasNoRoute
<1> QED BY <1>6, <1>9, <1>10 DEF RelayInv

\* PEER_INFO: whatever routes it brings, a new flush has every destination
\* of the buffer before it.
LEMMA PeerInfoStep ==
  ASSUME RelayInv, NEW n \in Node, NEW m \in Node, HandlePeerInfo(n, m)
  PROVE  RelayInv'
<1>1. PICK gained \in SUBSET (Destination \ {n}), lost \in SUBSET DOMAIN hop[n] :
        LET via == (gained \cup {m}) \cap Destination
        IN  hop' = [hop EXCEPT ![n] = [d \in (DOMAIN hop[n] \ lost) \cup via |->
                      IF d \in via THEN m ELSE hop[n][d]]]
  BY DEF HandlePeerInfo
<1> DEFINE via  == (gained \cup {m}) \cap Destination
           dom  == (DOMAIN hop[n] \ lost) \cup via
           hopn == [d \in dom |-> IF d \in via THEN m ELSE hop[n][d]]
<1>2. via \subseteq Node
  BY RelayAssumption DEF Destination, Range
<1>3. hop' = [hop EXCEPT ![n] = hopn]
  BY <1>1
<1>4. dom \subseteq Node /\ hopn \in [dom -> Node] /\ DOMAIN hopn = dom
  BY <1>2 DEF RelayInv, RelayTypeOK
<1> HIDE DEF via, dom, hopn
<1>5. /\ DOMAIN hop' = Node
      /\ \A o \in Node : DOMAIN hop'[o] \subseteq Node /\ hop'[o] \in [DOMAIN hop'[o] -> Node]
  BY <1>3, <1>4 DEF RelayInv, RelayTypeOK
<1>6. /\ flushes' = [flushes EXCEPT ![n] = @ \cup NewFlush(n)]
      /\ UNCHANGED <<wire, buffer, sent, arrived>>
  BY DEF HandlePeerInfo
<1>7. \A c \in buffer[n] : Target[c.id] \in Node
  BY RelayAssumption DEF RelayInv, RelayTypeOK, Copy
<1>8. NewFlush(n) \in SUBSET Flush
  BY <1>7 DEF NewFlush, Flush
<1>9. flushes' \in [Node -> SUBSET Flush]
  BY <1>6, <1>8 DEF RelayInv, RelayTypeOK
<1>10. RelayTypeOK' /\ BuffersFinite'
  BY <1>5, <1>6, <1>9 DEF RelayInv, RelayTypeOK, BuffersFinite, HeldFor
<1>11. BufferedHasNoRoute'
  <2> SUFFICES ASSUME NEW o \in Node, NEW c \in buffer[o], Routed(o, Target[c.id])'
               PROVE  \E f \in flushes'[o] : Target[c.id] \in f.todo
    BY <1>6 DEF BufferedHasNoRoute
  <2>1. CASE o = n
    <3> DEFINE f == [rest |-> {}, todo |-> {Target[x.id] : x \in buffer[n]}]
    <3>1. f \in NewFlush(n)
      BY <2>1 DEF NewFlush
    <3>2. f \in flushes'[n] /\ Target[c.id] \in f.todo
      BY <1>6, <2>1, <3>1 DEF RelayInv, RelayTypeOK
    <3> QED BY <2>1, <3>2
  <2>2. CASE o # n
    <3>1. hop'[o] = hop[o] /\ flushes'[o] = flushes[o]
      BY <1>3, <1>6, <2>2 DEF RelayInv, RelayTypeOK
    <3> QED BY <3>1 DEF RelayInv, BufferedHasNoRoute, Routed
  <2> QED BY <2>1, <2>2
<1> QED BY <1>10, <1>11 DEF RelayInv

\* The end of a connection only takes routes away.
LEMMA RemoveStep ==
  ASSUME RelayInv, NEW n \in Node, NEW g \in Node, RemoveRoutesVia(n, g)
  PROVE  RelayInv'
<1> DEFINE left == {d \in DOMAIN hop[n] : hop[n][d] # g}
<1>1. hop' = [hop EXCEPT ![n] = [d \in left |-> hop[n][d]]]
  BY DEF RemoveRoutesVia, Restrict, RelayInv, RelayTypeOK
<1>2. UNCHANGED <<wire, buffer, flushes, sent, arrived>>
  BY DEF RemoveRoutesVia
<1>3. [d \in left |-> hop[n][d]] \in [left -> Node]
  BY DEF RelayInv, RelayTypeOK
<1>4. left \subseteq DOMAIN hop[n]
  OBVIOUS
<1> HIDE DEF left
<1>5. /\ DOMAIN hop' = Node
      /\ \A o \in Node : /\ DOMAIN hop'[o] \subseteq DOMAIN hop[o]
                         /\ hop'[o] \in [DOMAIN hop'[o] -> Node]
  BY <1>1, <1>3, <1>4 DEF RelayInv, RelayTypeOK
<1>6. RelayTypeOK' /\ BuffersFinite'
  BY <1>2, <1>5 DEF RelayInv, RelayTypeOK, BuffersFinite, HeldFor
<1>7. BufferedHasNoRoute'
  BY <1>2, <1>5 DEF RelayInv, BufferedHasNoRoute, Routed
<1> QED BY <1>6, <1>7 DEF RelayInv

\* What a flush takes out of the buffer, and what it passes over, is not
\* what it has still to come to.
LEMMA FlushNextStep ==
  ASSUME RelayInv, NEW n \in Node, NEW f \in flushes[n], FlushNext(n, f)
  PROVE  RelayInv'
<1>1. PICK d \in Ready(n, f), passed \in SUBSET (f.todo \ Ready(n, f)), c \in buffer[n] :
        /\ c \in HeldFor(n, d)
        /\ buffer' = [buffer EXCEPT ![n] = @ \ HeldFor(n, d)]
        /\ wire' = wire \cup {SentOn(n, c)}
        /\ flushes' = [flushes EXCEPT ![n] = (@ \ {f}) \cup
             {[rest |-> HeldFor(n, d) \ {c}, todo |-> f.todo \ ({d} \cup passed)]}]
  BY DEF FlushNext, HeldFor
<1> DEFINE g == [rest |-> HeldFor(n, d) \ {c}, todo |-> f.todo \ ({d} \cup passed)]
<1>2. UNCHANGED <<hop, sent, arrived>>
  BY DEF FlushNext
<1>3. f \in Flush /\ HeldFor(n, d) \subseteq Copy
  BY DEF RelayInv, RelayTypeOK, HeldFor
<1>4. wire' \subseteq Moving
  <2>1. Target[c.id] = d /\ Routed(n, d) /\ c \in Copy
    BY <1>1, <1>3 DEF HeldFor, Ready
  <2>2. SentOn(n, c) \in Moving
    BY <2>1 DEF SentOn, Moving, Copy, Routed, RelayInv, RelayTypeOK
  <2> QED BY <1>1, <2>2 DEF RelayInv, RelayTypeOK
<1>5. g \in Flush
  BY <1>3 DEF Flush
<1>6. /\ flushes' = [flushes EXCEPT ![n] = (@ \ {f}) \cup {g}]
      /\ g.todo = f.todo \ ({d} \cup passed)
  BY <1>1
<1> HIDE DEF g
<1>7. flushes' \in [Node -> SUBSET Flush] /\ buffer' \in [Node -> SUBSET Copy]
  BY <1>1, <1>5, <1>6 DEF RelayInv, RelayTypeOK
<1>8. /\ buffer'[n] = buffer[n] \ HeldFor(n, d) /\ flushes'[n] = (flushes[n] \ {f}) \cup {g}
      /\ \A o \in Node : o # n => buffer'[o] = buffer[o] /\ flushes'[o] = flushes[o]
  BY <1>1, <1>6 DEF RelayInv, RelayTypeOK
<1>9. BuffersFinite' /\ WithinLimit'
  <2>1. \A o \in Node : buffer'[o] \subseteq buffer[o]
    BY <1>8
  <2> QED BY <2>1, Shrink DEF RelayInv
<1>10. RelayTypeOK'
  BY <1>2, <1>4, <1>7, <1>9 DEF RelayInv, RelayTypeOK, WithinLimit
<1>11. BufferedHasNoRoute'
  <2> SUFFICES ASSUME NEW o \in Node, NEW x \in buffer'[o], Routed(o, Target[x.id])'
               PROVE  \E h \in flushes'[o] : Target[x.id] \in h.todo
    BY DEF BufferedHasNoRoute
  <2>1. Routed(o, Target[x.id]) /\ x \in buffer[o]
    BY <1>2, <1>8 DEF Routed
  <2>2. PICK h \in flushes[o] : Target[x.id] \in h.todo
    BY <2>1 DEF RelayInv, BufferedHasNoRoute
  <2>3. CASE o # n \/ h # f
    BY <1>8, <2>2, <2>3
  <2>4. CASE o = n /\ h = f
    <3>1. x \in HeldFor(n, Target[x.id]) /\ x \notin HeldFor(n, d)
      BY <1>8, <2>1, <2>4 DEF HeldFor
    <3>2. Target[x.id] \in Ready(n, f) /\ Target[x.id] # d
      BY <2>1, <2>2, <2>4, <3>1 DEF Ready
    <3>3. Target[x.id] \in g.todo
      BY <1>6, <2>2, <2>4, <3>2
    <3> QED BY <1>8, <2>4, <3>3
  <2> QED BY <2>3, <2>4
<1> QED BY <1>9, <1>10, <1>11 DEF RelayInv

\* Sending what was taken out, and ending with nothing left to come to.
LEMMA FlushRestStep ==
  ASSUME RelayInv, NEW n \in Node, NEW f \in flushes[n], FlushSend(n, f) \/ FlushEnd(n, f)
  PROVE  RelayInv'
<1>0. f \in Flush
  BY DEF RelayInv, RelayTypeOK
<1>1. CASE FlushSend(n, f)
  <2>1. PICK c \in f.rest :
          /\ flushes' = [flushes EXCEPT ![n] = (@ \ {f}) \cup {[f EXCEPT !.rest = @ \ {c}]}]
          /\ wire' = IF Routed(n, Target[c.id]) THEN wire \cup {SentOn(n, c)} ELSE wire
    BY <1>1 DEF FlushSend
  <2> DEFINE g == [f EXCEPT !.rest = @ \ {c}]
  <2>2. g \in Flush /\ g.todo = f.todo
    BY <1>0 DEF Flush
  <2>3. flushes' = [flushes EXCEPT ![n] = (@ \ {f}) \cup {g}]
    BY <2>1
  <2> HIDE DEF g
  <2>4. flushes' \in [Node -> SUBSET Flush]
    BY <2>2, <2>3 DEF RelayInv, RelayTypeOK
  <2>5. wire' \subseteq Moving
    BY <1>0, <2>1 DEF RelayInv, RelayTypeOK, Flush, Copy, Moving, Routed, SentOn
  <2>6. UNCHANGED <<hop, buffer, sent, arrived>>
    BY <1>1 DEF FlushSend
  <2>7. RelayTypeOK' /\ BuffersFinite'
    BY <2>4, <2>5, <2>6 DEF RelayInv, RelayTypeOK, BuffersFinite, HeldFor
  <2>8. \A o \in Node, h \in Flush : h \in flushes[o] =>
          \E k \in flushes'[o] : k.todo = h.todo
    BY <2>2, <2>3 DEF RelayInv, RelayTypeOK
  <2>9. BufferedHasNoRoute'
    <3> SUFFICES ASSUME NEW o \in Node, NEW x \in buffer[o], Routed(o, Target[x.id])
                 PROVE  \E k \in flushes'[o] : Target[x.id] \in k.todo
      BY <2>6 DEF BufferedHasNoRoute, Routed
    <3>1. PICK h \in flushes[o] : Target[x.id] \in h.todo
      BY DEF RelayInv, BufferedHasNoRoute
    <3> QED BY <2>8, <3>1 DEF RelayInv, RelayTypeOK
  <2> QED BY <2>7, <2>9 DEF RelayInv
<1>2. CASE FlushEnd(n, f)
  <2>1. /\ flushes' = [flushes EXCEPT ![n] = @ \ {f}] /\ Ready(n, f) = {}
        /\ UNCHANGED <<hop, wire, buffer, sent, arrived>>
    BY <1>2 DEF FlushEnd
  <2>2. flushes' \in [Node -> SUBSET Flush]
    BY <2>1 DEF RelayInv, RelayTypeOK
  <2>3. RelayTypeOK' /\ BuffersFinite'
    BY <2>1, <2>2 DEF RelayInv, RelayTypeOK, BuffersFinite, HeldFor
  <2>4. BufferedHasNoRoute'
    <3> SUFFICES ASSUME NEW o \in Node, NEW x \in buffer[o], Routed(o, Target[x.id])
                 PROVE  \E k \in flushes'[o] : Target[x.id] \in k.todo
      BY <2>1 DEF BufferedHasNoRoute, Routed
    <3>1. PICK h \in flushes[o] : Target[x.id] \in h.todo
      BY DEF RelayInv, BufferedHasNoRoute
    <3>2. o = n => h # f
      BY <2>1, <3>1 DEF Ready, HeldFor
    <3> QED BY <2>1, <3>1, <3>2 DEF RelayInv, RelayTypeOK
  <2> QED BY <2>3, <2>4 DEF RelayInv
<1> QED BY <1>1, <1>2

\* A restart.
LEMMA RestartStep ==
  ASSUME RelayInv, NEW n \in Node, Restart(n)
  PROVE  RelayInv'
<1>1. /\ hop' = [hop EXCEPT ![n] = NoRoutes]
      /\ buffer' = [buffer EXCEPT ![n] = {}]
      /\ flushes' = [flushes EXCEPT ![n] = {}]
      /\ wire' \subseteq wire /\ UNCHANGED <<sent, arrived>>
  BY DEF Restart
<1>2. DOMAIN NoRoutes = {} /\ NoRoutes \in [DOMAIN NoRoutes -> Node]
  BY DEF NoRoutes
<1>3. \A o \in Node : buffer'[o] \subseteq buffer[o]
  BY <1>1 DEF RelayInv, RelayTypeOK
<1>4. BuffersFinite' /\ WithinLimit'
  BY <1>3, Shrink DEF RelayInv
<1>5. /\ DOMAIN hop' = Node
      /\ \A o \in Node : DOMAIN hop'[o] \subseteq Node /\ hop'[o] \in [DOMAIN hop'[o] -> Node]
  BY <1>1, <1>2 DEF RelayInv, RelayTypeOK
<1>6. RelayTypeOK'
  BY <1>1, <1>4, <1>5 DEF RelayInv, RelayTypeOK, WithinLimit
<1>7. BufferedHasNoRoute'
  BY <1>1 DEF RelayInv, RelayTypeOK, BufferedHasNoRoute, Routed
<1> QED BY <1>4, <1>6, <1>7 DEF RelayInv

\* Every step keeps the invariant.
LEMMA RelayStep == RelayInv /\ [Next]_vars => RelayInv'
<1> SUFFICES ASSUME RelayInv, [Next]_vars PROVE RelayInv'
  OBVIOUS
<1>0. wire \subseteq Moving /\ sent \subseteq Packet /\ arrived \subseteq Packet
  BY DEF RelayInv, RelayTypeOK
<1>1. ASSUME NEW p \in Packet, SendPacket(p) PROVE RelayInv'
  <2>1. Source[p] \in Node /\ hop[Source[p]][Target[p]] \in Node
    BY <1>1, RelayAssumption DEF SendPacket, Routed, RelayInv, RelayTypeOK
  <2>2. [id |-> p, ttl |-> Ttl, at |-> hop[Source[p]][Target[p]]] \in Moving
    BY <2>1, RelayAssumption DEF Moving
  <2> QED BY <1>0, <1>1, <2>2, WireStep DEF SendPacket
<1>2. ASSUME NEW m \in wire, Arrive(m) \/ Drop(m) \/ Lose(m) PROVE RelayInv'
  BY <1>0, <1>2, WireStep DEF Arrive, Drop, Lose, Moving
<1>3. ASSUME NEW m \in wire, Forward(m) PROVE RelayInv'
  <2> DEFINE d == Target[m.id]
  <2>1. m.id \in Packet /\ m.at \in Node /\ m.ttl \in 0..Ttl /\ m.ttl > 0 /\ Routed(m.at, d)
    BY <1>0, <1>3 DEF Forward, Moving
  <2>2. hop[m.at][d] \in Node
    BY <2>1 DEF Routed, RelayInv, RelayTypeOK
  <2>3. [id |-> m.id, ttl |-> m.ttl - 1, at |-> hop[m.at][d]] \in Moving
    BY <2>1, <2>2, RelayAssumption DEF Moving
  <2> QED BY <1>0, <1>3, <2>3, WireStep DEF Forward
<1>4. ASSUME NEW n \in Node, Flushing(n) PROVE RelayInv'
  BY <1>4, FlushNextStep, FlushRestStep DEF Flushing
<1>5. CASE UNCHANGED vars
  BY <1>0, <1>5, WireStep DEF vars
<1>6. ASSUME NEW m \in wire, NEW p \in Packet, SendAgain(m, p) PROVE RelayInv'
  <2>1. [id |-> p, ttl |-> m.ttl, at |-> m.at] \in Moving
    BY <1>0 DEF Moving
  <2> QED BY <1>0, <1>6, <2>1, WireStep DEF SendAgain
<1> QED
  BY <1>1, <1>2, <1>3, <1>4, <1>5, <1>6, HoldStep, PeerInfoStep, RemoveStep, RestartStep
  DEF Next, HandlePacket

---------------------------------------------------------------------------
(* No packet is multiplied                                               *)

NoWire(p)   == \A m \in wire : m.id # p
NoBuffer(p) == \A n \in Node : \A c \in buffer[n] : c.id # p
NoFlush(p)  == \A n \in Node : \A f \in flushes[n] : \A c \in f.rest : c.id # p

\* At most one copy of p in each kind of place.
OneCopy(p) ==
  /\ \A m, l \in wire : m.id = p /\ l.id = p => m = l
  /\ \A n, o \in Node : \A c \in buffer[n], d \in buffer[o] :
       c.id = p /\ d.id = p => n = o /\ c = d
  /\ \A n, o \in Node : \A f \in flushes[n], g \in flushes[o] : \A c \in f.rest, d \in g.rest :
       c.id = p /\ d.id = p => n = o /\ f = g /\ c = d

\* And p is in one kind of place, and none before it is sent and after it
\* has arrived.
OnePlace(p) ==
  /\ \/ NoBuffer(p) /\ NoFlush(p)
     \/ NoWire(p) /\ NoFlush(p)
     \/ NoWire(p) /\ NoBuffer(p)
  /\ p \in arrived \/ p \notin sent => NoWire(p) /\ NoBuffer(p) /\ NoFlush(p)
  /\ p \in arrived => p \in sent

Once(p) == OneCopy(p) /\ OnePlace(p)

OnceInv == \A p \in Packet : Once(p)

\* A step that makes no copy of p and moves none.
LEMMA FewerCopies ==
  ASSUME NEW p \in Packet, Once(p),
         \A m \in wire' : m.id = p => m \in wire,
         \A n \in Node : \A c \in buffer'[n] : c.id = p => c \in buffer[n],
         \A n \in Node : \A f \in flushes'[n] : (\E c \in f.rest : c.id = p) => f \in flushes[n],
         p \in sent' <=> p \in sent, p \in arrived' <=> p \in arrived
  PROVE  Once(p)'
<1>1. /\ NoWire(p) => NoWire(p)'
      /\ NoBuffer(p) => NoBuffer(p)'
      /\ NoFlush(p) => NoFlush(p)'
  BY DEF NoWire, NoBuffer, NoFlush
<1>2. OnePlace(p)'
  BY <1>1 DEF Once, OnePlace
<1>3. OneCopy(p)'
  BY DEF Once, OneCopy
<1> QED BY <1>2, <1>3 DEF Once

\* q is sent, by its source or as the copy of another.
SendsNow(q) == SendPacket(q) \/ \E m \in wire : SendAgain(m, q)

\* Either way q is new, and on the wire then.
LEMMA SendingPuts ==
  ASSUME NEW q \in Packet, SendsNow(q)
  PROVE  /\ q \notin sent /\ sent' = sent \cup {q} /\ UNCHANGED <<buffer, flushes, arrived>>
         /\ \E w : w.id = q /\ wire' = wire \cup {w}
<1>1. CASE SendPacket(q)
  <2> DEFINE w == [id |-> q, ttl |-> Ttl, at |-> hop[Source[q]][Target[q]]]
  <2>1. w.id = q /\ wire' = wire \cup {w}
    BY <1>1 DEF SendPacket
  <2> QED BY <1>1, <2>1 DEF SendPacket
<1>2. ASSUME NEW m \in wire, SendAgain(m, q)
      PROVE  \E w : w.id = q /\ wire' = wire \cup {w}
  <2> DEFINE w == [id |-> q, ttl |-> m.ttl, at |-> m.at]
  <2>1. w.id = q /\ wire' = wire \cup {w}
    BY <1>2 DEF SendAgain
  <2> QED BY <2>1
<1> QED BY <1>1, <1>2 DEF SendsNow, SendAgain

\* A packet is sent once.
LEMMA OnceSent ==
  ASSUME RelayInv, NEW p \in Packet, Once(p), NEW q \in Packet, SendsNow(q)
  PROVE  Once(p)'
<1>1. PICK w : w.id = q /\ wire' = wire \cup {w}
  BY SendingPuts
<1>2. q \notin sent /\ sent' = sent \cup {q} /\ UNCHANGED <<buffer, flushes, arrived>>
  BY SendingPuts
<1>3. CASE p # q
  BY <1>1, <1>2, <1>3, FewerCopies
<1>4. CASE p = q
  <2>1. NoWire(p) /\ NoBuffer(p) /\ NoFlush(p) /\ p \notin arrived
    BY <1>2, <1>4 DEF Once, OnePlace
  <2>2. NoBuffer(p)' /\ NoFlush(p)' /\ p \notin arrived' /\ p \in sent'
    BY <1>2, <1>4, <2>1 DEF NoBuffer, NoFlush
  <2>3. OneCopy(p)'
    BY <1>1, <1>2, <2>1 DEF OneCopy, NoWire, NoBuffer, NoFlush
  <2> QED BY <2>2, <2>3 DEF Once, OnePlace
<1> QED BY <1>3, <1>4

\* A packet that is handled goes on, is held, or is gone from the wire.
LEMMA OnceHandled ==
  ASSUME RelayInv, NEW p \in Packet, Once(p), NEW m \in wire,
         Arrive(m) \/ Forward(m) \/ Hold(m) \/ Drop(m) \/ Lose(m)
  PROVE  Once(p)'
<1>0. m.id \in Packet /\ m.at \in Node
  BY DEF RelayInv, RelayTypeOK, Moving
<1>1. CASE Drop(m) \/ Lose(m) \/ (Arrive(m) /\ m.id # p)
  <2>1. wire' \subseteq wire /\ UNCHANGED <<buffer, flushes, sent>>
    BY <1>1 DEF Drop, Lose, Arrive
  <2>2. p \in arrived' <=> p \in arrived
    BY <1>1 DEF Drop, Lose, Arrive
  <2> QED BY <2>1, <2>2, FewerCopies
<1>2. CASE Arrive(m) /\ m.id = p
  <2>1. wire' = wire \ {m} /\ UNCHANGED <<buffer, flushes, sent>>
    BY <1>2 DEF Arrive
  <2>2. ~NoWire(p)
    BY <1>2 DEF NoWire
  <2>3. NoBuffer(p) /\ NoFlush(p) /\ p \in sent
    BY <2>2 DEF Once, OnePlace
  <2>4. NoWire(p)'
    BY <1>2, <2>1 DEF NoWire, Once, OneCopy
  <2>5. NoBuffer(p)' /\ NoFlush(p)' /\ p \in sent'
    BY <2>1, <2>3 DEF NoBuffer, NoFlush
  <2>6. OneCopy(p)'
    BY <2>4, <2>5 DEF OneCopy, NoWire, NoBuffer, NoFlush
  <2> QED BY <2>4, <2>5, <2>6 DEF Once, OnePlace
<1>3. CASE Forward(m)
  <2> DEFINE w == [id |-> m.id, ttl |-> m.ttl - 1, at |-> hop[m.at][Target[m.id]]]
  <2>1. wire' = (wire \ {m}) \cup {w} /\ w.id = m.id
    BY <1>3 DEF Forward
  <2> HIDE DEF w
  <2>2. UNCHANGED <<buffer, flushes, sent, arrived>>
    BY <1>3 DEF Forward
  <2>3. CASE m.id # p
    BY <2>1, <2>2, <2>3, FewerCopies
  <2>4. CASE m.id = p
    <3>1. ~NoWire(p)
      BY <2>4 DEF NoWire
    <3>2. NoBuffer(p) /\ NoFlush(p) /\ p \in sent /\ p \notin arrived
      BY <3>1 DEF Once, OnePlace
    <3>3. NoBuffer(p)' /\ NoFlush(p)' /\ p \in sent' /\ p \notin arrived'
      BY <2>2, <3>2 DEF NoBuffer, NoFlush
    <3>4. OneCopy(p)'
      BY <2>1, <2>4, <3>3 DEF Once, OneCopy, NoBuffer, NoFlush
    <3> QED BY <3>3, <3>4 DEF Once, OnePlace
  <2> QED BY <2>3, <2>4
<1>4. CASE Hold(m)
  <2> DEFINE c == [id |-> m.id, ttl |-> m.ttl - 1]
  <2>1. /\ wire' = wire \ {m} /\ UNCHANGED <<flushes, sent, arrived>>
        /\ buffer' = [buffer EXCEPT ![m.at] = @ \cup {c}] /\ c.id = m.id
    BY <1>4 DEF Hold
  <2> HIDE DEF c
  <2>2. /\ buffer'[m.at] = buffer[m.at] \cup {c}
        /\ \A n \in Node : n # m.at => buffer'[n] = buffer[n]
    BY <1>0, <2>1 DEF RelayInv, RelayTypeOK
  <2>3. CASE m.id # p
    BY <2>1, <2>2, <2>3, FewerCopies
  <2>4. CASE m.id = p
    <3>1. ~NoWire(p)
      BY <2>4 DEF NoWire
    <3>2. NoBuffer(p) /\ NoFlush(p) /\ p \in sent /\ p \notin arrived
      BY <3>1 DEF Once, OnePlace
    <3>3. NoWire(p)'
      BY <2>1, <2>4 DEF NoWire, Once, OneCopy
    <3>4. NoFlush(p)' /\ p \in sent' /\ p \notin arrived'
      BY <2>1, <3>2 DEF NoFlush
    <3>5. \A n \in Node : \A x \in buffer'[n] : x.id = p => n = m.at /\ x = c
      BY <2>2, <3>2 DEF NoBuffer
    <3>6. OneCopy(p)'
      BY <3>3, <3>4, <3>5 DEF OneCopy, NoWire, NoFlush
    <3> QED BY <3>3, <3>4, <3>6 DEF Once, OnePlace
  <2> QED BY <2>3, <2>4
<1> QED BY <1>1, <1>2, <1>3, <1>4

\* A flush leaves none of what it takes out in the buffer, and the first
\* packet it sends is not among the rest.
LEMMA OnceTakenOut ==
  ASSUME RelayInv, NEW p \in Packet, Once(p), NEW n \in Node, NEW f \in flushes[n], FlushNext(n, f)
  PROVE  Once(p)'
<1>1. PICK d \in Ready(n, f), passed \in SUBSET (f.todo \ Ready(n, f)), c \in buffer[n] :
        /\ c \in HeldFor(n, d)
        /\ buffer' = [buffer EXCEPT ![n] = @ \ HeldFor(n, d)]
        /\ wire' = wire \cup {SentOn(n, c)}
        /\ flushes' = [flushes EXCEPT ![n] = (@ \ {f}) \cup
             {[rest |-> HeldFor(n, d) \ {c}, todo |-> f.todo \ ({d} \cup passed)]}]
  BY DEF FlushNext, HeldFor
<1> DEFINE g == [rest |-> HeldFor(n, d) \ {c}, todo |-> f.todo \ ({d} \cup passed)]
           w == SentOn(n, c)
<1>2. g.rest = HeldFor(n, d) \ {c} /\ f.rest = {} /\ UNCHANGED <<sent, arrived>>
  BY DEF FlushNext
<1>3. flushes' = [flushes EXCEPT ![n] = (@ \ {f}) \cup {g}]
  BY <1>1
<1>4. wire' = wire \cup {w} /\ w.id = c.id
  BY <1>1 DEF SentOn
<1> HIDE DEF g, w
<1>5. /\ buffer'[n] = buffer[n] \ HeldFor(n, d) /\ flushes'[n] = (flushes[n] \ {f}) \cup {g}
      /\ \A o \in Node : o # n => buffer'[o] = buffer[o] /\ flushes'[o] = flushes[o]
  BY <1>1, <1>3 DEF RelayInv, RelayTypeOK
<1>6. CASE \A x \in HeldFor(n, d) : x.id # p
  BY <1>1, <1>2, <1>4, <1>5, <1>6, FewerCopies
<1>7. CASE \E x \in HeldFor(n, d) : x.id = p
  <2>1. PICK x \in HeldFor(n, d) : x.id = p
    BY <1>7
  <2>2. x \in buffer[n] /\ ~NoBuffer(p)
    BY <2>1 DEF HeldFor, NoBuffer
  <2>3. NoWire(p) /\ NoFlush(p) /\ p \in sent /\ p \notin arrived
    BY <2>2 DEF Once, OnePlace
  <2>4. p \in sent' /\ p \notin arrived'
    BY <1>2, <2>3
  <2>5. NoBuffer(p)'
    BY <1>5, <2>1, <2>2 DEF NoBuffer, Once, OneCopy
  <2>6. \A y \in HeldFor(n, d) : y.id = p => y = x
    BY <2>1, <2>2 DEF HeldFor, Once, OneCopy
  <2>7. \A o \in Node : \A h \in flushes'[o] : \A y \in h.rest : y.id = p =>
          o = n /\ h = g /\ y = x /\ x # c
    <3> SUFFICES ASSUME NEW o \in Node, NEW h \in flushes'[o], NEW y \in h.rest, y.id = p
                 PROVE  o = n /\ h = g /\ y = x /\ x # c
      OBVIOUS
    <3>1. o = n /\ h = g
      BY <1>5, <2>3 DEF NoFlush
    <3> QED BY <1>2, <2>6, <3>1
  <2>8. \A m \in wire' : m.id = p => m = w /\ x = c
    BY <1>1, <1>4, <2>3, <2>6 DEF NoWire
  <2>9. OneCopy(p)'
    BY <2>5, <2>7, <2>8 DEF OneCopy, NoBuffer
  <2>10. NoWire(p)' \/ NoFlush(p)'
    BY <2>7, <2>8 DEF NoWire, NoFlush
  <2> QED BY <2>4, <2>5, <2>9, <2>10 DEF Once, OnePlace
<1> QED BY <1>6, <1>7

\* What a flush sends it no longer has.
LEMMA OnceFlushed ==
  ASSUME RelayInv, NEW p \in Packet, Once(p), NEW n \in Node, NEW f \in flushes[n], FlushSend(n, f)
  PROVE  Once(p)'
<1>0. f \in Flush
  BY DEF RelayInv, RelayTypeOK
<1>1. PICK c \in f.rest :
        /\ flushes' = [flushes EXCEPT ![n] = (@ \ {f}) \cup {[f EXCEPT !.rest = @ \ {c}]}]
        /\ wire' = IF Routed(n, Target[c.id]) THEN wire \cup {SentOn(n, c)} ELSE wire
  BY DEF FlushSend
<1> DEFINE g == [f EXCEPT !.rest = @ \ {c}]
<1>2. g.rest = f.rest \ {c}
  BY <1>0 DEF Flush
<1>3. flushes' = [flushes EXCEPT ![n] = (@ \ {f}) \cup {g}]
  BY <1>1
<1> HIDE DEF g
<1>4. /\ flushes'[n] = (flushes[n] \ {f}) \cup {g}
      /\ \A o \in Node : o # n => flushes'[o] = flushes[o]
  BY <1>3 DEF RelayInv, RelayTypeOK
<1>5. UNCHANGED <<buffer, sent, arrived>>
  BY DEF FlushSend
<1>6. PICK w : wire' \subseteq wire \cup {w} /\ w.id = c.id
  BY <1>1 DEF SentOn
<1>7. CASE c.id # p /\ \A x \in f.rest : x.id # p
  BY <1>2, <1>4, <1>5, <1>6, <1>7, FewerCopies
<1>8. ASSUME \E x \in f.rest : x.id = p
      PROVE  NoWire(p) /\ NoBuffer(p) /\ p \in sent /\ p \notin arrived
  <2>1. ~NoFlush(p)
    BY <1>8 DEF NoFlush
  <2> QED BY <2>1 DEF Once, OnePlace
<1>9. CASE c.id # p /\ \E x \in f.rest : x.id = p
  <2>1. NoWire(p)' /\ NoBuffer(p)' /\ p \in sent' /\ p \notin arrived'
    BY <1>5, <1>6, <1>8, <1>9 DEF NoWire, NoBuffer
  <2>2. PICK x \in f.rest : x.id = p
    BY <1>9
  <2>3. \A o \in Node : \A h \in flushes'[o] : \A y \in h.rest : y.id = p => o = n /\ h = g /\ y = x
    <3> SUFFICES ASSUME NEW o \in Node, NEW h \in flushes'[o], NEW y \in h.rest, y.id = p
                 PROVE  o = n /\ h = g /\ y = x
      OBVIOUS
    <3>1. CASE o = n /\ h = g
      BY <1>2, <2>2, <3>1 DEF Once, OneCopy
    <3>2. CASE ~(o = n /\ h = g)
      <4>1. h \in flushes[o] /\ (o = n => h # f)
        BY <1>4, <3>2
      <4> QED BY <2>2, <4>1 DEF Once, OneCopy
    <3> QED BY <3>1, <3>2
  <2>4. OneCopy(p)'
    BY <2>1, <2>3 DEF OneCopy, NoWire, NoBuffer
  <2> QED BY <2>1, <2>4 DEF Once, OnePlace
<1>10. CASE c.id = p
  <2>1. NoBuffer(p)' /\ p \in sent' /\ p \notin arrived'
    BY <1>5, <1>8, <1>10 DEF NoBuffer
  <2>2. \A m \in wire' : m.id = p => m = w
    BY <1>6, <1>8, <1>10 DEF NoWire
  <2>3. NoFlush(p)'
    <3> SUFFICES ASSUME NEW o \in Node, NEW h \in flushes'[o], NEW y \in h.rest, y.id = p
                 PROVE  FALSE
      BY DEF NoFlush
    <3>1. CASE o = n /\ h = g
      BY <1>2, <1>10, <3>1 DEF Once, OneCopy
    <3>2. CASE ~(o = n /\ h = g)
      <4>1. h \in flushes[o] /\ (o = n => h # f)
        BY <1>4, <3>2
      <4> QED BY <1>10, <4>1 DEF Once, OneCopy
    <3> QED BY <3>1, <3>2
  <2>4. OneCopy(p)'
    BY <2>1, <2>2, <2>3 DEF OneCopy, NoBuffer, NoFlush
  <2> QED BY <2>1, <2>3, <2>4 DEF Once, OnePlace
<1> QED BY <1>7, <1>9, <1>10

\* Routes, the ends of flushes and restarts make no copies.
LEMMA OnceOtherwise ==
  ASSUME RelayInv, NEW p \in Packet, Once(p), NEW n \in Node,
         \/ \E m \in Node : HandlePeerInfo(n, m) \/ RemoveRoutesVia(n, m)
         \/ \E f \in flushes[n] : FlushEnd(n, f)
         \/ Restart(n)
  PROVE  Once(p)'
<1>1. wire' \subseteq wire /\ UNCHANGED <<sent, arrived>>
  BY DEF HandlePeerInfo, RemoveRoutesVia, FlushEnd, Restart
<1>2. \A o \in Node : buffer'[o] \subseteq buffer[o]
  BY DEF HandlePeerInfo, RemoveRoutesVia, FlushEnd, Restart, RelayInv, RelayTypeOK
<1>3. \A f \in NewFlush(n) : f.rest = {}
  BY DEF NewFlush
<1>4. \A o \in Node : flushes'[o] \subseteq flushes[o] \cup NewFlush(n)
  BY DEF HandlePeerInfo, RemoveRoutesVia, FlushEnd, Restart, RelayInv, RelayTypeOK
<1> QED BY <1>1, <1>2, <1>3, <1>4, FewerCopies

\* Every step keeps every packet single.
LEMMA OnceStep == RelayInv /\ OnceInv /\ [Next]_vars => OnceInv'
<1> SUFFICES ASSUME RelayInv, OnceInv, [Next]_vars, NEW p \in Packet PROVE Once(p)'
  BY DEF OnceInv
<1>0. Once(p)
  BY DEF OnceInv
<1>1. CASE \E q \in Packet : SendsNow(q)
  BY <1>0, <1>1, OnceSent
<1>2. CASE (\E q \in Packet : HandlePacket(q)) \/ \E m \in wire : Lose(m)
  BY <1>0, <1>2, OnceHandled DEF HandlePacket
<1>3. CASE \E n \in Node : Flushing(n)
  BY <1>0, <1>3, OnceTakenOut, OnceFlushed, OnceOtherwise DEF Flushing
<1>4. CASE \/ \E n, m \in Node : HandlePeerInfo(n, m) \/ RemoveRoutesVia(n, m)
           \/ \E n \in Node : Restart(n)
  BY <1>0, <1>4, OnceOtherwise
<1>5. CASE UNCHANGED vars
  BY <1>0, <1>5, FewerCopies DEF vars
<1> QED BY <1>1, <1>2, <1>3, <1>4, <1>5 DEF Next, SendsNow

\* A packet that is single has one copy at most.
LEMMA CountCopies ==
  ASSUME NEW p \in Packet, Once(p)
  PROVE  Cardinality(Copies(p)) <= 1
<1> DEFINE W == {<<"wire", m>> : m \in {m \in wire : m.id = p}}
           B == UNION {{<<"buffer", n, c>> : c \in {c \in buffer[n] : c.id = p}} : n \in Node}
           F == UNION {{<<"flush", n, f>> :
                          f \in {f \in flushes[n] : \E c \in f.rest : c.id = p}} : n \in Node}
           A == {<<"arrived">> : q \in arrived \cap {p}}
<1>1. Copies(p) = W \cup B \cup F \cup A
  BY DEF Copies
<1>2. (NoWire(p) => W = {}) /\ \E x : W \subseteq {x}
  <2>1. NoWire(p) => W = {}
    BY DEF NoWire
  <2>2. ASSUME NEW m \in wire, m.id = p PROVE W \subseteq {<<"wire", m>>}
    BY <2>2 DEF Once, OneCopy
  <2> QED BY <2>1, <2>2 DEF NoWire
<1>3. (NoBuffer(p) => B = {}) /\ \E x : B \subseteq {x}
  <2>1. NoBuffer(p) => B = {}
    BY DEF NoBuffer
  <2>2. ASSUME NEW n \in Node, NEW c \in buffer[n], c.id = p PROVE B \subseteq {<<"buffer", n, c>>}
    BY <2>2 DEF Once, OneCopy
  <2> QED BY <2>1, <2>2 DEF NoBuffer
<1>4. (NoFlush(p) => F = {}) /\ \E x : F \subseteq {x}
  <2>1. NoFlush(p) => F = {}
    BY DEF NoFlush
  <2>2. ASSUME NEW n \in Node, NEW f \in flushes[n], NEW c \in f.rest, c.id = p
        PROVE  F \subseteq {<<"flush", n, f>>}
    BY <2>2 DEF Once, OneCopy
  <2> QED BY <2>1, <2>2 DEF NoFlush
<1>5. (p \notin arrived => A = {}) /\ A \subseteq {<<"arrived">>}
  OBVIOUS
<1> HIDE DEF W, B, F, A
<1>6. PICK x : Copies(p) \subseteq {x}
  BY <1>1, <1>2, <1>3, <1>4, <1>5 DEF Once, OnePlace
<1>7. IsFiniteSet({x}) /\ Cardinality({x}) = 1
  BY FS_Singleton
<1> QED BY <1>6, <1>7, FS_Subset

---------------------------------------------------------------------------
(* Relay implements PacketService                                        *)

\* A packet is under way where it is on the wire, in a buffer or in a flush.
LEMMA Places ==
  \A p : Underway(p) <=> ~(NoWire(p) /\ NoBuffer(p) /\ NoFlush(p))
  BY DEF Underway, NoWire, NoBuffer, NoFlush

\* Sending q puts q under way and no other packet.
LEMMA SentUnderway ==
  ASSUME NEW p, NEW q \in Packet, SendsNow(q)
  PROVE  Underway(p)' <=> Underway(p) \/ p = q
<1>1. PICK w : w.id = q /\ wire' = wire \cup {w}
  BY SendingPuts
<1>2. UNCHANGED <<buffer, flushes>>
  BY SendingPuts
<1> QED BY <1>1, <1>2 DEF Underway

\* A packet that arrives is no longer under way, and all others are where
\* they were.
LEMMA ArrivedUnderway ==
  ASSUME NEW p, Once(p), NEW m \in wire, Arrive(m)
  PROVE  Underway(p)' <=> Underway(p) /\ p # m.id
<1>1. wire' = wire \ {m} /\ UNCHANGED <<buffer, flushes>>
  BY DEF Arrive
<1>2. CASE p # m.id
  BY <1>1, <1>2 DEF Underway
<1>3. CASE p = m.id
  <2>1. ~NoWire(p)
    BY <1>3 DEF NoWire
  <2>2. NoBuffer(p) /\ NoFlush(p)
    BY <2>1 DEF Once, OnePlace
  <2>3. NoWire(p)'
    BY <1>1, <1>3 DEF NoWire, Once, OneCopy
  <2>4. NoBuffer(p)' /\ NoFlush(p)'
    BY <1>1, <2>2 DEF NoBuffer, NoFlush
  <2> QED BY <1>3, <2>3, <2>4 DEF Underway, NoWire, NoBuffer, NoFlush
<1> QED BY <1>2, <1>3

\* A packet that is forwarded, held, dropped or lost was under way.
LEMMA HandledUnderway ==
  ASSUME RelayInv, NEW p, NEW m \in wire, Forward(m) \/ Hold(m) \/ Drop(m) \/ Lose(m), Underway(p)'
  PROVE  Underway(p)
<1>1. flushes' = flushes
  BY DEF Forward, Hold, Drop, Lose
<1>2. \A l \in wire' : \E k \in wire : l.id = k.id
  BY DEF Forward, Hold, Drop, Lose
<1>3. \A n \in Node : \A c \in buffer'[n] : c \in buffer[n] \/ c.id = m.id
  BY DEF Forward, Hold, Drop, Lose, RelayInv, RelayTypeOK
<1> QED BY <1>1, <1>2, <1>3 DEF Underway

\* So was one that a flush takes out, sends or drops.
LEMMA FlushedUnderway ==
  ASSUME RelayInv, NEW p, NEW n \in Node, Flushing(n), Underway(p)'
  PROVE  Underway(p)
<1>1. PICK f \in flushes[n] : FlushNext(n, f) \/ FlushSend(n, f) \/ FlushEnd(n, f)
  BY DEF Flushing
<1>2. f \in Flush
  BY DEF RelayInv, RelayTypeOK
<1>3. \A o \in Node : \A c \in buffer'[o] : c \in buffer[o]
  BY <1>1 DEF FlushNext, FlushSend, FlushEnd, RelayInv, RelayTypeOK
<1>4. CASE FlushNext(n, f)
  <2>1. PICK d \in Ready(n, f), passed \in SUBSET (f.todo \ Ready(n, f)), c \in buffer[n] :
          /\ wire' = wire \cup {SentOn(n, c)}
          /\ flushes' = [flushes EXCEPT ![n] = (@ \ {f}) \cup
               {[rest |-> HeldFor(n, d) \ {c}, todo |-> f.todo \ ({d} \cup passed)]}]
    BY <1>4 DEF FlushNext, HeldFor
  <2>2. HeldFor(n, d) \subseteq buffer[n]
    BY DEF HeldFor
  <2>3. \A l \in wire' : l \in wire \/ (l.id = c.id /\ c \in buffer[n])
    BY <2>1, <2>2 DEF SentOn
  <2>4. \A o \in Node : \A h \in flushes'[o] : h \in flushes[o] \/ (o = n /\ h.rest \subseteq buffer[n])
    BY <2>1, <2>2 DEF RelayInv, RelayTypeOK
  <2> QED BY <1>3, <2>3, <2>4 DEF Underway
<1>5. CASE FlushSend(n, f)
  <2>1. PICK c \in f.rest :
          /\ flushes' = [flushes EXCEPT ![n] = (@ \ {f}) \cup {[f EXCEPT !.rest = @ \ {c}]}]
          /\ wire' = IF Routed(n, Target[c.id]) THEN wire \cup {SentOn(n, c)} ELSE wire
    BY <1>5 DEF FlushSend
  <2>2. \A l \in wire' : l \in wire \/ l.id = c.id
    BY <2>1 DEF SentOn
  <2>3. \A o \in Node : \A h \in flushes'[o] : h \in flushes[o] \/ (o = n /\ h.rest \subseteq f.rest)
    BY <1>2, <2>1 DEF Flush, RelayInv, RelayTypeOK
  <2> QED BY <1>3, <2>2, <2>3 DEF Underway
<1>6. CASE FlushEnd(n, f)
  BY <1>3, <1>6 DEF FlushEnd, Underway, RelayInv, RelayTypeOK
<1> QED BY <1>1, <1>4, <1>5, <1>6

\* And routes and restarts bring no packet back.
LEMMA OtherwiseUnderway ==
  ASSUME RelayInv, NEW p, NEW n \in Node, Underway(p)',
         Restart(n) \/ \E m \in Node : HandlePeerInfo(n, m) \/ RemoveRoutesVia(n, m)
  PROVE  Underway(p)
<1>1. wire' \subseteq wire
  BY DEF HandlePeerInfo, RemoveRoutesVia, Restart
<1>2. \A o \in Node : buffer'[o] \subseteq buffer[o]
  BY DEF HandlePeerInfo, RemoveRoutesVia, Restart, RelayInv, RelayTypeOK
<1>3. \A f \in NewFlush(n) : f.rest = {}
  BY DEF NewFlush
<1>4. \A o \in Node : flushes'[o] \subseteq flushes[o] \cup NewFlush(n)
  BY DEF HandlePeerInfo, RemoveRoutesVia, Restart, RelayInv, RelayTypeOK
<1> QED BY <1>1, <1>2, <1>3, <1>4 DEF Underway

\* Every step of Relay sends one packet, lets one arrive, or at most loses
\* some.
LEMMA NetworkSimulation ==
  RelayInv /\ OnceInv /\ [Next]_vars => [Network!Next]_(Network!vars)
<1> DEFINE underway == {p \in Packet : Underway(p)}
<1> SUFFICES ASSUME RelayInv, OnceInv, [Next]_vars PROVE Network!Next
  OBVIOUS
<1>1. ASSUME NEW q \in Packet, SendsNow(q) PROVE Network!Send(q)
  <2>1. underway' = underway \cup {q}
    BY <1>1, SentUnderway
  <2> QED BY <1>1, <2>1, SendingPuts DEF Network!Send
<1>2. ASSUME NEW m \in wire, Arrive(m) PROVE m.id \in Packet /\ Network!Arrive(m.id)
  <2>1. m.id \in Packet
    BY DEF RelayInv, RelayTypeOK, Moving
  <2>2. m.id \in underway
    BY <2>1 DEF Underway
  <2>3. underway' = underway \ {m.id}
    BY <1>2, ArrivedUnderway DEF OnceInv
  <2> QED BY <1>2, <2>1, <2>2, <2>3 DEF Arrive, Network!Arrive
<1>3. ASSUME UNCHANGED <<sent, arrived>>, \A p : Underway(p)' => Underway(p)
      PROVE  Network!Lose
  BY <1>3 DEF Network!Lose
<1>4. ASSUME NEW m \in wire, Forward(m) \/ Hold(m) \/ Drop(m) \/ Lose(m) PROVE Network!Lose
  <2>1. UNCHANGED <<sent, arrived>>
    BY <1>4 DEF Forward, Hold, Drop, Lose
  <2> QED BY <1>3, <1>4, <2>1, HandledUnderway
<1>5. ASSUME NEW n \in Node, Flushing(n) PROVE Network!Lose
  <2>1. UNCHANGED <<sent, arrived>>
    BY <1>5 DEF Flushing, FlushNext, FlushSend, FlushEnd
  <2> QED BY <1>3, <1>5, <2>1, FlushedUnderway
<1>6. ASSUME NEW n \in Node,
             Restart(n) \/ \E m \in Node : HandlePeerInfo(n, m) \/ RemoveRoutesVia(n, m)
      PROVE  Network!Lose
  <2>1. UNCHANGED <<sent, arrived>>
    BY <1>6 DEF HandlePeerInfo, RemoveRoutesVia, Restart
  <2> QED BY <1>3, <1>6, <2>1, OtherwiseUnderway
<1>7. CASE UNCHANGED vars
  <2>1. UNCHANGED <<sent, arrived>> /\ \A p : Underway(p)' => Underway(p)
    BY <1>7 DEF vars, Underway
  <2> QED BY <1>3, <2>1 DEF Network!Next
<1> QED BY <1>1, <1>2, <1>4, <1>5, <1>6, <1>7 DEF Next, HandlePacket, Network!Next, SendsNow

---------------------------------------------------------------------------
(* Theorems                                                              *)

\* The invariant holds in every behaviour.
THEOREM RelayInvariant == Spec => []RelayInv
  BY RelayInitial, RelayStep, PTL DEF Spec

\* Packets, routes and flushes stay well typed, and no buffer holds more
\* for one destination than it may.
THEOREM RelayTypeCorrect == Spec => []RelayTypeOK
<1>1. RelayInv => RelayTypeOK
  BY DEF RelayInv
<1> QED BY <1>1, RelayInvariant, PTL

\* No packet is left in a buffer while there is a route for it, but for
\* those a flush has still to come to.
THEOREM BufferedUnrouted == Spec => []BufferedHasNoRoute
<1>1. RelayInv => BufferedHasNoRoute
  BY DEF RelayInv
<1> QED BY <1>1, RelayInvariant, PTL

\* No packet is multiplied, whatever flushes overlap, routes do and peers
\* restart.
THEOREM PacketsSingle == Spec => []NeverTwice
<1>1. Init => OnceInv
  BY RelayAssumption
  DEF Init, OnceInv, Once, OneCopy, OnePlace, NoWire, NoBuffer, NoFlush
<1>2. OnceInv => NeverTwice
  BY CountCopies DEF OnceInv, NeverTwice
<1> QED BY <1>1, <1>2, OnceStep, RelayInvariant, PTL DEF Spec

\* The network of relays is a PacketService: whatever relays hold, flush,
\* drop and forget, a packet that is under way arrives once or is lost for
\* good.
THEOREM NetworkImplemented == Spec => ImplementsNetwork
<1>1. Init => OnceInv
  BY RelayAssumption
  DEF Init, OnceInv, Once, OneCopy, OnePlace, NoWire, NoBuffer, NoFlush
<1>2. Init => Network!Init
  BY RelayAssumption DEF Init, Network!Init, Underway
<1> QED
  BY <1>1, <1>2, OnceStep, RelayInvariant, NetworkSimulation, PTL
  DEF Spec, ImplementsNetwork, Network!Spec

---------------------------------------------------------------------------
(* Induction                                                             *)

\* Every set of numbers has a least one: induction without an operator.
LEMMA LeastNumber ==
  ASSUME NEW S \in SUBSET Nat, S # {}
  PROVE  \E n \in S : \A m \in S : n <= m
<1> DEFINE R == OpToRel(<, Nat)
<1>1. IsWellFoundedOn(R, Nat)
  BY NatLessThanWellFounded
<1>2. \E n \in S : \A m \in S : ~ (<<m, n>> \in R)
  BY <1>1, WFMin
<1>3. \A m, n \in Nat : <<m, n>> \in R <=> m < n
  BY DEF OpToRel
<1> HIDE DEF R
<1>4. \E n \in S : \A m \in S : ~ (m < n)
  BY <1>2, <1>3
<1> QED
  BY <1>4

\* What holds of 0, and of n if it holds of n - 1, holds up to N.
LEMMA Induction ==
  ASSUME NEW N \in Nat, NEW T \in SUBSET Nat, 0 \in T,
         \A n \in 1..N : n - 1 \in T => n \in T
  PROVE  0..N \subseteq T
<1> DEFINE S == (0..N) \ T
<1>1. SUFFICES ASSUME S # {} PROVE FALSE
  BY Zenon
<1>2. PICK n \in S : \A m \in S : n <= m
  <2>1. S \in SUBSET Nat
    OBVIOUS
  <2> HIDE DEF S
  <2> QED
    BY <1>1, <2>1, LeastNumber
<1>3. n \in 1..N /\ n - 1 \notin S /\ n - 1 \in 0..N
  <2>1. n \in 0..N /\ n # 0
    OBVIOUS
  <2> HIDE DEF S
  <2> QED
    BY <1>2, <2>1
<1> QED
  BY <1>3

---------------------------------------------------------------------------
(* Lists without duplicates                                              *)

\* A newcomer is appended.
LEMMA AppendedProperties ==
  ASSUME NEW S, NEW s \in Seq(S), IsInjective(s), NEW x \in S, ~Contains(s, x),
         NEW t, t = Append(s, x)
  PROVE  /\ t \in Seq(S) /\ t # <<>>
         /\ s # <<>> => Head(t) = Head(s)
         /\ IsInjective(t)
         /\ \A y : Contains(t, y) <=> Contains(s, y) \/ y = x
<1>1. /\ t \in Seq(S) /\ Len(s) \in Nat /\ Len(t) = Len(s) + 1 /\ t # <<>>
      /\ \A i \in 1..Len(s) : t[i] = s[i]
      /\ t[Len(s) + 1] = x
      /\ DOMAIN s = 1..Len(s) /\ DOMAIN t = 1..Len(t)
  OBVIOUS
<1>2. s # <<>> => Head(t) = Head(s)
  OBVIOUS
<1>3. \A y : Contains(t, y) <=> Contains(s, y) \/ y = x
  BY <1>1 DEF Contains
<1>4. IsInjective(t)
  BY <1>1 DEF Contains, IsInjective
<1> QED
  BY <1>1, <1>2, <1>3, <1>4

\* The first goes.
LEMMA ShiftedProperties ==
  ASSUME NEW S, NEW s \in Seq(S), s # <<>>, IsInjective(s), NEW t, t = Tail(s)
  PROVE  /\ t \in Seq(S) /\ IsInjective(t)
         /\ Contains(s, Head(s))
         /\ \A y : Contains(t, y) <=> Contains(s, y) /\ y # Head(s)
<1>1. /\ t \in Seq(S) /\ Len(s) \in Nat \ {0} /\ Len(t) = Len(s) - 1
      /\ \A i \in 1..Len(t) : t[i] = s[i + 1]
      /\ Head(s) = s[1]
      /\ DOMAIN s = 1..Len(s) /\ DOMAIN t = 1..Len(t)
  OBVIOUS
<1>2. IsInjective(t)
  BY <1>1 DEF IsInjective
<1>3. \A i \in 1..Len(s) : s[i] # s[1] => i - 1 \in 1..Len(t) /\ t[i - 1] = s[i]
  BY <1>1
<1>4. \A i \in 1..Len(t) : i + 1 \in 1..Len(s) /\ t[i] = s[i + 1] /\ s[i + 1] # s[1]
  BY <1>1 DEF IsInjective
<1>5. \A y : Contains(t, y) <=> Contains(s, y) /\ y # Head(s)
  BY <1>1, <1>3, <1>4 DEF Contains
<1>6. Contains(s, Head(s))
  BY <1>1 DEF Contains
<1> QED
  BY <1>1, <1>2, <1>5, <1>6

\* kept is what the loop of Without keeps of the first n of list.
Keeps(list, gone, n, kept) ==
  kept = [i \in 0..n |->
            IF i = 0 THEN <<>>
            ELSE IF list[i] \in gone THEN kept[i - 1] ELSE Append(kept[i - 1], list[i])]

\* The loop can be run.
LEMMA KeepsExists ==
  ASSUME NEW S, NEW list \in Seq(S), NEW gone
  PROVE  \E kept : Keeps(list, gone, Len(list), kept)
<1> DEFINE T == {n \in Nat : \E f : Keeps(list, gone, n, f)}
<1>1. 0 \in T
  <2>1. Keeps(list, gone, 0, [i \in 0..0 |-> <<>>])
    BY DEF Keeps
  <2> QED
    BY <2>1
<1>2. ASSUME NEW n \in 1..Len(list), n - 1 \in T
      PROVE  n \in T
  <2>1. PICK f : Keeps(list, gone, n - 1, f)
    BY <1>2
  <2> DEFINE last == IF list[n] \in gone THEN f[n - 1] ELSE Append(f[n - 1], list[n])
             g == [i \in 0..n |-> IF i = n THEN last ELSE f[i]]
  <2>2. \A i \in 0..(n - 1) :
          f[i] = IF i = 0 THEN <<>>
                 ELSE IF list[i] \in gone THEN f[i - 1] ELSE Append(f[i - 1], list[i])
    BY <2>1, Zenon DEF Keeps
  <2>3. g[n] = last /\ g[n - 1] = f[n - 1] /\ g[0] = f[0]
    OBVIOUS
  <2>4. \A i \in 1..(n - 1) : g[i] = f[i] /\ g[i - 1] = f[i - 1]
    OBVIOUS
  <2>5. \A i \in 0..n :
          g[i] = IF i = 0 THEN <<>>
                 ELSE IF list[i] \in gone THEN g[i - 1] ELSE Append(g[i - 1], list[i])
    <3> HIDE DEF g
    <3>1. \A i \in 0..n : i = 0 \/ i \in 1..(n - 1) \/ i = n
      OBVIOUS
    <3>2. 0 \in 0..(n - 1) /\ 1..(n - 1) \subseteq 0..(n - 1) /\ n # 0 /\ 0 \notin 1..(n - 1)
      OBVIOUS
    <3> QED
      BY <2>2, <2>3, <2>4, <3>1, <3>2
  <2>6. Keeps(list, gone, n, g)
    BY <2>5, Zenon DEF Keeps
  <2> QED
    BY <2>6
<1> HIDE DEF T
<1>3. 0..Len(list) \subseteq T
  <2>1. T \in SUBSET Nat /\ Len(list) \in Nat
    BY DEF T
  <2> QED
    BY <1>1, <1>2, <2>1, Induction
<1> QED
  BY <1>3 DEF T

\* Without drops who is gone and nobody else.
LEMMA WithoutProperties ==
  ASSUME NEW S, NEW list \in Seq(S), NEW gone, IsInjective(list)
  PROVE  /\ Without(list, gone) \in Seq(S) /\ IsInjective(Without(list, gone))
         /\ \A y : Contains(Without(list, gone), y) <=> Contains(list, y) /\ y \notin gone
<1> DEFINE kept == CHOOSE k : Keeps(list, gone, Len(list), k)
<1>1. Without(list, gone) = kept[Len(list)]
  BY DEF Without, Keeps
<1>2. Keeps(list, gone, Len(list), kept)
  BY KeepsExists
<1> HIDE DEF kept
<1> DEFINE Good(n) ==
             /\ kept[n] \in Seq(S) /\ IsInjective(kept[n])
             /\ \A y : Contains(kept[n], y) <=> y \notin gone /\ \E i \in 1..n : list[i] = y
           T == {n \in Nat : Good(n)}
<1>3. \A n \in 0..Len(list) :
        kept[n] = IF n = 0 THEN <<>>
                  ELSE IF list[n] \in gone THEN kept[n - 1] ELSE Append(kept[n - 1], list[n])
  BY <1>2, Zenon DEF Keeps
<1>4. 0 \in T
  <2>1. kept[0] = <<>>
    BY <1>3
  <2>2. <<>> \in Seq(S) /\ IsInjective(<<>>)
    BY DEF IsInjective
  <2>3. \A y : ~Contains(<<>>, y) /\ ~ \E i \in 1..0 : list[i] = y
    BY DEF Contains
  <2> QED
    BY <2>1, <2>2, <2>3
<1>5. ASSUME NEW n \in 1..Len(list), n - 1 \in T
      PROVE  n \in T
  <2>1. Good(n - 1) /\ n \in 0..Len(list) /\ n # 0 /\ list[n] \in S /\ n \in Nat
    BY <1>5
  <2>2. \A y : (\E i \in 1..n : list[i] = y) <=> (\E i \in 1..(n - 1) : list[i] = y) \/ list[n] = y
    OBVIOUS
  <2>3. CASE list[n] \in gone
    <3>1. kept[n] = kept[n - 1]
      BY <1>3, <2>1, <2>3
    <3> QED
      BY <2>1, <2>2, <2>3, <3>1
  <2>4. CASE list[n] \notin gone
    <3>1. kept[n] = Append(kept[n - 1], list[n])
      BY <1>3, <2>1, <2>4
    <3>2. ~ \E i \in 1..(n - 1) : list[i] = list[n]
      BY DEF IsInjective
    <3>3. ~Contains(kept[n - 1], list[n])
      BY <2>1, <3>2
    <3>4. /\ kept[n] \in Seq(S) /\ IsInjective(kept[n])
          /\ \A y : Contains(kept[n], y) <=> Contains(kept[n - 1], y) \/ y = list[n]
      <4>1. kept[n - 1] \in Seq(S) /\ IsInjective(kept[n - 1]) /\ list[n] \in S
        BY <2>1
      <4> HIDE DEF T, Good
      <4> DEFINE s == kept[n - 1]  x == list[n]  t == kept[n]
      <4>2. t = Append(s, x) /\ s \in Seq(S) /\ IsInjective(s) /\ x \in S /\ ~Contains(s, x)
        BY <3>1, <3>3, <4>1
      <4> HIDE DEF s, x, t
      <4>3. /\ t \in Seq(S) /\ IsInjective(t)
            /\ \A y : Contains(t, y) <=> Contains(s, y) \/ y = x
        BY <4>2, AppendedProperties
      <4> QED
        BY <4>3 DEF s, x, t
    <3> QED
      BY <2>1, <2>2, <2>4, <3>4
  <2> QED
    BY <2>3, <2>4
<1>6. Len(list) \in T
  <2>1. T \in SUBSET Nat /\ Len(list) \in Nat /\ Len(list) \in 0..Len(list)
    OBVIOUS
  <2> HIDE DEF T
  <2> QED
    BY <1>4, <1>5, <2>1, Induction
<1> QED
  BY <1>1, <1>6 DEF Contains

---------------------------------------------------------------------------
(* The lock of WebSocketManager                                          *)

\* Who is in the queue of the lock waits or holds it, once, and a
\* broadcast that sends holds it.
LockInv ==
  /\ \A c \in Client : Contains(lock, c) => endpoint[c] \in {"connecting", "leaving"}
  /\ \A e \in Event : Contains(lock, e) => broadcast[e] \in {"locking", "sending"}
  /\ \A e \in Event : broadcast[e] = "sending" => Holds(e)

\* Clients are listed while they read, and until they have left.
ListInv ==
  \A c \in Client : Contains(connections, c) => endpoint[c] \in {"reading", "leaving"}

\* A loop sends nothing before it starts and starts at the first client;
\* its event is the last that was sent to anybody, and was sent to nobody
\* from its position on.
LoopInv ==
  \A e \in Event :
    /\ position[e] >= 1
    /\ broadcast[e] # "sending" => position[e] = 1 /\ dead[e] = {}
    /\ broadcast[e] \in {"new", "locking"} => \A c \in Client : ~Contains(received[c], e)
    /\ broadcast[e] = "sending" =>
         /\ \A c \in Client : \A i \in 1..Len(received[c]) :
              received[c][i] = e => i = Len(received[c])
         /\ \A i \in 1..Len(connections) :
              position[e] <= i => ~Contains(received[connections[i]], e)

WsInv == WsTypeOK /\ LockInv /\ ListInv /\ LoopInv /\ NobodyPassedOver /\ SameOrder

LEMMA WsInitial == WsInit => WsInv
<1> SUFFICES ASSUME WsInit PROVE WsInv
  OBVIOUS
<1>1. \A y : ~Contains(<<>>, y)
  BY DEF Contains
<1>2. IsInjective(<<>>) /\ ToSet(<<>>) = {}
  BY DEF IsInjective, ToSet
<1>3. WsTypeOK
  BY <1>2 DEF WsInit, WsTypeOK
<1>4. LockInv /\ ListInv /\ LoopInv /\ NobodyPassedOver
  BY <1>1 DEF WsInit, LockInv, ListInv, LoopInv, NobodyPassedOver
<1>5. SameOrder
  BY DEF WsInit, SameOrder
<1> QED
  BY <1>3, <1>4, <1>5 DEF WsInv

\* Whoever queues up keeps the others' places.
LEMMA LockAsked ==
  ASSUME WsInv, NEW t \in Client \cup Event, ~Contains(lock, t), lock' = Append(lock, t)
  PROVE  /\ lock' \in Seq(Client \cup Event) /\ IsInjective(lock')
         /\ \A u : Contains(lock', u) <=> Contains(lock, u) \/ u = t
         /\ \A u : Holds(u) => Holds(u)'
<1> DEFINE Task == Client \cup Event
<1>1. lock \in Seq(Task) /\ IsInjective(lock) /\ t \in Task
  BY DEF WsInv, WsTypeOK
<1> HIDE DEF Task
<1>2. /\ lock' \in Seq(Task) /\ lock' # <<>>
      /\ lock # <<>> => Head(lock') = Head(lock)
      /\ IsInjective(lock')
      /\ \A u : Contains(lock', u) <=> Contains(lock, u) \/ u = t
  <2>1. ASSUME NEW l, l = Append(lock, t)
        PROVE  /\ l \in Seq(Task) /\ l # <<>>
               /\ lock # <<>> => Head(l) = Head(lock)
               /\ IsInjective(l)
               /\ \A u : Contains(l, u) <=> Contains(lock, u) \/ u = t
    BY <1>1, <2>1, AppendedProperties, Zenon
  <2> QED
    BY <2>1
<1> QED
  BY <1>2 DEF Holds, Task

\* Whoever releases the lock leaves the queue.
LEMMA LockReleased ==
  ASSUME WsInv, NEW t, Holds(t), lock' = Released(t)
  PROVE  /\ lock' \in Seq(Client \cup Event) /\ IsInjective(lock')
         /\ \A u : Contains(lock', u) <=> Contains(lock, u) /\ u # t
<1>1. lock \in Seq(Client \cup Event) /\ IsInjective(lock) /\ lock # <<>> /\ t = Head(lock)
  BY DEF WsInv, WsTypeOK, Holds
<1>2. lock' = Tail(lock)
  BY DEF Released
<1> QED
  BY <1>1, <1>2, ShiftedProperties

\* One at a time: while somebody holds the lock, nobody else sends.
LEMMA OneSends ==
  ASSUME WsInv, NEW t, Holds(t), NEW e \in Event, broadcast[e] = "sending"
  PROVE  e = t
  BY DEF WsInv, LockInv, Holds

\* SameOrder says that nobody is sent an event twice.
LEMMA SentOnce ==
  ASSUME WsInv, NEW c \in Client
  PROVE  received[c] \in Seq(Event) /\ IsInjective(received[c])
<1>1. /\ received[c] \in Seq(Event) /\ Len(received[c]) \in Nat
      /\ DOMAIN received[c] = 1..Len(received[c])
  BY DEF WsInv, WsTypeOK
<1>2. ASSUME NEW i \in DOMAIN received[c], NEW j \in DOMAIN received[c],
             received[c][i] = received[c][j], i # j
      PROVE  FALSE
  <2>1. (i < j <=> j < i)
    BY <1>2 DEF WsInv, SameOrder
  <2> QED
    BY <1>1, <1>2, <2>1
<1> QED
  BY <1>1, <1>2 DEF IsInjective

---------------------------------------------------------------------------
(* The steps of WebSockets                                               *)

\* What does not touch the list, the loops or what was sent disturbs only
\* the lock.
LEMMA LoopsUntouched ==
  ASSUME WsInv, broken \subseteq broken',
         UNCHANGED <<connections, broadcast, position, dead, received>>
  PROVE  LoopInv' /\ NobodyPassedOver' /\ SameOrder'
<1>1. LoopInv'
  BY DEF WsInv, LoopInv
<1>2. NobodyPassedOver'
  BY DEF WsInv, NobodyPassedOver
<1>3. SameOrder'
  BY DEF WsInv, SameOrder
<1> QED
  BY <1>1, <1>2, <1>3

LEMMA ConnectStep ==
  ASSUME WsInv, NEW c \in Client, Connect(c)
  PROVE  WsInv'
<1>1. ~Contains(lock, c)
  BY DEF WsInv, LockInv, Connect
<1>2. /\ lock' \in Seq(Client \cup Event) /\ IsInjective(lock')
      /\ \A u : Contains(lock', u) <=> Contains(lock, u) \/ u = c
      /\ \A u : Holds(u) => Holds(u)'
  BY <1>1, LockAsked DEF Connect
<1>3. WsTypeOK'
  BY <1>2 DEF WsInv, WsTypeOK, Connect
<1>4. LockInv'
  BY <1>2, WebSocketAssumption DEF WsInv, LockInv, WsTypeOK, Connect
<1>5. ListInv'
  BY DEF WsInv, ListInv, WsTypeOK, Connect
<1>6. LoopInv' /\ NobodyPassedOver' /\ SameOrder'
  BY LoopsUntouched DEF Connect
<1> QED
  BY <1>3, <1>4, <1>5, <1>6 DEF WsInv

LEMMA LeaveStep ==
  ASSUME WsInv, NEW c \in Client, Leave(c)
  PROVE  WsInv'
<1>1. ~Contains(lock, c)
  BY DEF WsInv, LockInv, Leave
<1>2. /\ lock' \in Seq(Client \cup Event) /\ IsInjective(lock')
      /\ \A u : Contains(lock', u) <=> Contains(lock, u) \/ u = c
      /\ \A u : Holds(u) => Holds(u)'
  BY <1>1, LockAsked DEF Leave
<1>3. WsTypeOK'
  BY <1>2 DEF WsInv, WsTypeOK, Leave
<1>4. LockInv'
  BY <1>2, WebSocketAssumption DEF WsInv, LockInv, WsTypeOK, Leave
<1>5. ListInv'
  BY DEF WsInv, ListInv, WsTypeOK, Leave
<1>6. LoopInv' /\ NobodyPassedOver' /\ SameOrder'
  BY LoopsUntouched DEF Leave
<1> QED
  BY <1>3, <1>4, <1>5, <1>6 DEF WsInv

LEMMA BreakStep ==
  ASSUME WsInv, NEW c \in Client, Break(c)
  PROVE  WsInv'
<1>1. WsTypeOK'
  BY DEF WsInv, WsTypeOK, Break
<1>2. LockInv' /\ ListInv'
  BY DEF WsInv, LockInv, ListInv, Holds, Break
<1>3. LoopInv' /\ NobodyPassedOver' /\ SameOrder'
  BY LoopsUntouched DEF Break
<1> QED
  BY <1>1, <1>2, <1>3 DEF WsInv

\* Who joins has the lock, so that no loop is at work.
LEMMA ConnectedStep ==
  ASSUME WsInv, NEW c \in Client, Connected(c)
  PROVE  WsInv'
<1>1. /\ lock' \in Seq(Client \cup Event) /\ IsInjective(lock')
      /\ \A u : Contains(lock', u) <=> Contains(lock, u) /\ u # c
  BY LockReleased DEF Connected
<1>2. \A e \in Event : broadcast[e] # "sending"
  BY OneSends, WebSocketAssumption DEF Connected
<1>3. /\ connections' \in Seq(Client) /\ IsInjective(connections')
      /\ \A y : Contains(connections', y) <=> Contains(connections, y) \/ y = c
  <2>1. connections \in Seq(Client) /\ IsInjective(connections) /\ ~Contains(connections, c)
    BY DEF WsInv, WsTypeOK, ListInv, Connected
  <2> QED
    BY <2>1, AppendedProperties DEF Connected
<1>4. WsTypeOK'
  BY <1>1, <1>2, <1>3 DEF WsInv, WsTypeOK, Connected
<1>5. LockInv'
  BY <1>1, <1>2 DEF WsInv, LockInv, WsTypeOK, Connected
<1>6. ListInv'
  BY <1>3 DEF WsInv, ListInv, WsTypeOK, Connected
<1>7. LoopInv' /\ NobodyPassedOver'
  BY <1>2 DEF WsInv, LoopInv, NobodyPassedOver, Connected
<1>8. SameOrder'
  BY DEF WsInv, SameOrder, Connected
<1> QED
  BY <1>4, <1>5, <1>6, <1>7, <1>8 DEF WsInv

\* So does who leaves.
LEMMA DisconnectedStep ==
  ASSUME WsInv, NEW c \in Client, Disconnected(c)
  PROVE  WsInv'
<1>1. /\ lock' \in Seq(Client \cup Event) /\ IsInjective(lock')
      /\ \A u : Contains(lock', u) <=> Contains(lock, u) /\ u # c
  BY LockReleased DEF Disconnected
<1>2. \A e \in Event : broadcast[e] # "sending"
  BY OneSends, WebSocketAssumption DEF Disconnected
<1>3. /\ connections' \in Seq(Client) /\ IsInjective(connections')
      /\ \A y : Contains(connections', y) <=> Contains(connections, y) /\ y # c
  <2>1. connections \in Seq(Client) /\ IsInjective(connections)
    BY DEF WsInv, WsTypeOK
  <2> QED
    BY <2>1, WithoutProperties DEF Disconnected
<1>4. WsTypeOK'
  BY <1>1, <1>2, <1>3 DEF WsInv, WsTypeOK, Disconnected
<1>5. LockInv'
  BY <1>1, <1>2 DEF WsInv, LockInv, WsTypeOK, Disconnected
<1>6. ListInv'
  BY <1>3 DEF WsInv, ListInv, WsTypeOK, Disconnected
<1>7. LoopInv' /\ NobodyPassedOver'
  BY <1>2 DEF WsInv, LoopInv, NobodyPassedOver, Disconnected
<1>8. SameOrder'
  BY DEF WsInv, SameOrder, Disconnected
<1> QED
  BY <1>4, <1>5, <1>6, <1>7, <1>8 DEF WsInv

LEMMA BroadcastStep ==
  ASSUME WsInv, NEW e \in Event, Broadcast(e)
  PROVE  WsInv'
<1>1. ~Contains(lock, e)
  BY DEF WsInv, LockInv, Broadcast
<1>2. /\ lock' \in Seq(Client \cup Event) /\ IsInjective(lock')
      /\ \A u : Contains(lock', u) <=> Contains(lock, u) \/ u = e
      /\ \A u : Holds(u) => Holds(u)'
  BY <1>1, LockAsked DEF Broadcast
<1>3. WsTypeOK'
  BY <1>2 DEF WsInv, WsTypeOK, Broadcast
<1>4. LockInv'
  BY <1>2, WebSocketAssumption DEF WsInv, LockInv, WsTypeOK, Broadcast
<1>5. ListInv'
  BY DEF WsInv, ListInv, Broadcast
<1>6. LoopInv' /\ NobodyPassedOver'
  BY DEF WsInv, WsTypeOK, LoopInv, NobodyPassedOver, Broadcast
<1>7. SameOrder'
  BY DEF WsInv, SameOrder, Broadcast
<1> QED
  BY <1>3, <1>4, <1>5, <1>6, <1>7 DEF WsInv

LEMMA StartSendingStep ==
  ASSUME WsInv, NEW e \in Event, StartSending(e)
  PROVE  WsInv'
<1>1. position[e] = 1 /\ dead[e] = {} /\ \A c \in Client : ~Contains(received[c], e)
  BY DEF WsInv, LoopInv, StartSending
<1>2. WsTypeOK'
  BY <1>1 DEF WsInv, WsTypeOK, StartSending
<1>3. LockInv' /\ ListInv'
  BY DEF WsInv, WsTypeOK, LockInv, ListInv, Holds, StartSending
<1>4. LoopInv'
  <2>1. \A i \in 1..Len(connections) : connections[i] \in Client
    BY DEF WsInv, WsTypeOK
  <2>2. \A c \in Client : \A i \in 1..Len(received[c]) : received[c][i] # e
    BY <1>1 DEF Contains
  <2> QED
    BY <1>1, <2>1, <2>2 DEF WsInv, WsTypeOK, LoopInv, StartSending
<1>5. NobodyPassedOver'
  <2>1. Len(connections) \in Nat
    BY DEF WsInv, WsTypeOK
  <2> QED
    BY <1>1, <2>1 DEF WsInv, WsTypeOK, NobodyPassedOver, StartSending
<1>6. SameOrder'
  BY DEF WsInv, SameOrder, StartSending
<1> QED
  BY <1>2, <1>3, <1>4, <1>5, <1>6 DEF WsInv

\* Who stops has the lock: no other loop is at work while the dead go.
LEMMA StopSendingStep ==
  ASSUME WsInv, NEW e \in Event, StopSending(e)
  PROVE  WsInv'
<1>1. Holds(e)
  BY DEF WsInv, LockInv, StopSending
<1>2. /\ lock' \in Seq(Client \cup Event) /\ IsInjective(lock')
      /\ \A u : Contains(lock', u) <=> Contains(lock, u) /\ u # e
  BY <1>1, LockReleased DEF StopSending
<1>3. \A f \in Event : broadcast'[f] # "sending"
  BY <1>1, OneSends DEF WsInv, WsTypeOK, StopSending
<1>4. /\ connections' \in Seq(Client) /\ IsInjective(connections')
      /\ \A y : Contains(connections', y) => Contains(connections, y)
  <2>1. connections \in Seq(Client) /\ IsInjective(connections)
    BY DEF WsInv, WsTypeOK
  <2> QED
    BY <2>1, WithoutProperties DEF StopSending
<1>5. WsTypeOK'
  BY <1>2, <1>3, <1>4 DEF WsInv, WsTypeOK, StopSending
<1>6. LockInv'
  BY <1>2, <1>3 DEF WsInv, LockInv, WsTypeOK, StopSending
<1>7. ListInv'
  BY <1>4 DEF WsInv, ListInv, WsTypeOK, StopSending
<1>8. LoopInv' /\ NobodyPassedOver'
  BY <1>3 DEF WsInv, WsTypeOK, LoopInv, NobodyPassedOver, StopSending
<1>9. SameOrder'
  BY DEF WsInv, SameOrder, StopSending
<1> QED
  BY <1>5, <1>6, <1>7, <1>8, <1>9 DEF WsInv

\* An event that is sent to c is new to c, the latest anywhere, and passes
\* the loop on.
LEMMA SendNextStep ==
  ASSUME WsInv, NEW e \in Event, SendNext(e)
  PROVE  WsInv'
<1> DEFINE c == connections[position[e]]
<1>1. /\ broadcast[e] = "sending" /\ position[e] \in 1..Len(connections) /\ c \in Client
      /\ position' = [position EXCEPT ![e] = @ + 1]
      /\ UNCHANGED <<connections, lock, endpoint, broken, broadcast>>
  BY DEF WsInv, WsTypeOK, LoopInv, SendNext
<1>2. /\ connections \in Seq(Client) /\ Len(connections) \in Nat
      /\ \A i, j \in 1..Len(connections) : connections[i] = connections[j] => i = j
      /\ \A i \in 1..Len(connections) : connections[i] \in Client
  BY DEF WsInv, WsTypeOK, IsInjective
<1>3. \A f \in Event : broadcast[f] = "sending" => f = e
  BY <1>1, OneSends DEF WsInv, LockInv
<1>4. /\ ~Contains(received[c], e)
      /\ \A d \in Client : \A i \in 1..Len(received[d]) : received[d][i] = e => i = Len(received[d])
  BY <1>1 DEF WsInv, LoopInv
<1>5. \A d \in Client : received[d] \in Seq(Event) /\ IsInjective(received[d])
  BY SentOnce
<1>6. \/ c \notin broken /\ received' = [received EXCEPT ![c] = Append(@, e)] /\ dead' = dead
      \/ c \in broken /\ received' = received /\ dead' = [dead EXCEPT ![e] = @ \cup {c}]
      \/ c \in broken /\ received' = received /\ dead' = dead
  BY DEF SendNext
<1> HIDE DEF c
<1>7. LockInv' /\ ListInv'
  BY <1>1 DEF WsInv, LockInv, ListInv, Holds
<1>8. CASE c \in broken /\ received' = received
  <2>1. WsTypeOK'
    <3>1. c \in ToSet(connections)
      BY <1>1, <1>2 DEF ToSet, c
    <3>2. dead' = dead \/ dead' = [dead EXCEPT ![e] = dead[e] \cup {c}]
      BY <1>6
    <3>3. /\ dead \in [Event -> SUBSET Client] /\ dead[e] \cup {c} \in SUBSET Client
          /\ dead[e] \cup {c} \subseteq ToSet(connections)
      BY <1>1, <3>1 DEF WsInv, WsTypeOK
    <3>4. dead' \in [Event -> SUBSET Client]
      <4> DEFINE D == SUBSET Client  grown == dead[e] \cup {c}
      <4>1. dead \in [Event -> D] /\ grown \in D /\ (dead' = dead \/ dead' = [dead EXCEPT ![e] = grown])
        BY <3>2, <3>3
      <4> HIDE DEF D, grown
      <4>2. dead' \in [Event -> D]
        BY <4>1
      <4> QED
        BY <4>2 DEF D
    <3>5. \A f \in Event : broadcast'[f] = "sending" => dead'[f] \subseteq ToSet(connections')
      <4>1. \A f \in Event : broadcast[f] = "sending" => dead[f] \subseteq ToSet(connections)
        BY DEF WsInv, WsTypeOK
      <4>2. \A f \in Event : dead'[f] = dead[f] \/ dead'[f] = dead[e] \cup {c}
        BY <3>2, <3>3
      <4> QED
        BY <1>1, <3>3, <4>1, <4>2
    <3>6. position' \in [Event -> Nat]
      BY <1>1 DEF WsInv, WsTypeOK
    <3> QED
      BY <1>1, <1>8, <3>4, <3>5, <3>6 DEF WsInv, WsTypeOK
  <2>2. LoopInv'
    BY <1>1, <1>2, <1>3, <1>6, <1>8 DEF WsInv, WsTypeOK, LoopInv
  <2>3. NobodyPassedOver'
    <3> SUFFICES ASSUME NEW i \in 1..Len(connections), i < position'[e]
                 PROVE  connections[i] \in broken \/ Contains(received[connections[i]], e)
      BY <1>1, <1>3, <1>8 DEF NobodyPassedOver
    <3>1. CASE i = position[e]
      BY <1>8, <3>1 DEF c
    <3>2. CASE i # position[e]
      <4>1. i < position[e]
        BY <1>1, <3>2 DEF WsInv, WsTypeOK
      <4> QED
        BY <1>1, <4>1 DEF WsInv, NobodyPassedOver
    <3> QED
      BY <3>1, <3>2
  <2>4. SameOrder'
    BY <1>8 DEF WsInv, SameOrder
  <2> QED
    BY <1>7, <2>1, <2>2, <2>3, <2>4 DEF WsInv
<1>9. CASE c \notin broken /\ received' = [received EXCEPT ![c] = Append(@, e)] /\ dead' = dead
  <2>1. /\ received' \in [Client -> Seq(Event)]
        /\ received'[c] = Append(received[c], e)
        /\ \A d \in Client \ {c} : received'[d] = received[d]
    BY <1>1, <1>5, <1>9 DEF WsInv, WsTypeOK
  <2>2. /\ Len(received[c]) \in Nat /\ Len(received'[c]) = Len(received[c]) + 1
        /\ received'[c][Len(received[c]) + 1] = e
        /\ \A i \in 1..Len(received[c]) : received'[c][i] = received[c][i] /\ received[c][i] # e
    BY <1>1, <1>4, <1>5, <2>1 DEF Contains
  <2>3. Contains(received'[c], e)
    BY <2>2 DEF Contains
  <2>4. \A d \in Client, f \in Event : f # e => (Contains(received'[d], f) <=> Contains(received[d], f))
    <3>1. \A f : Contains(received'[c], f) <=> Contains(received[c], f) \/ f = e
      BY <1>1, <1>4, <1>5, <2>1, AppendedProperties
    <3> QED
      BY <2>1, <3>1
  <2>5. WsTypeOK'
    BY <1>1, <1>9, <2>1 DEF WsInv, WsTypeOK
  <2>6. LoopInv'
    <3>1. ASSUME NEW f \in Event, f # e
          PROVE  /\ position'[f] = position[f] /\ broadcast'[f] = broadcast[f] /\ broadcast[f] # "sending"
                 /\ \A d \in Client : Contains(received'[d], f) <=> Contains(received[d], f)
      BY <1>1, <1>3, <2>4, <3>1 DEF WsInv, WsTypeOK
    <3>2. \A d \in Client : \A i \in 1..Len(received'[d]) : received'[d][i] = e => i = Len(received'[d])
      BY <1>4, <2>1, <2>2
    <3>3. \A i \in 1..Len(connections) :
            position'[e] <= i => ~Contains(received'[connections[i]], e)
      <4>1. \A i \in 1..Len(connections) : position'[e] <= i => position[e] <= i /\ connections[i] # c
        BY <1>1, <1>2 DEF WsInv, WsTypeOK, c
      <4> QED
        BY <1>1, <1>2, <2>1, <4>1 DEF WsInv, LoopInv
    <3>4. position'[e] >= 1 /\ broadcast'[e] = "sending"
      BY <1>1 DEF WsInv, WsTypeOK
    <3>5. \A f \in Event : f # e => position[f] = 1 /\ dead[f] = {}
      BY <1>3 DEF WsInv, LoopInv
    <3> QED
      BY <1>1, <1>9, <3>1, <3>2, <3>3, <3>4, <3>5 DEF WsInv, LoopInv
  <2>7. NobodyPassedOver'
    <3> SUFFICES ASSUME NEW i \in 1..Len(connections), i < position'[e]
                 PROVE  connections[i] \in broken \/ Contains(received'[connections[i]], e)
      BY <1>1, <1>3 DEF NobodyPassedOver
    <3>1. CASE i = position[e]
      BY <2>3, <3>1 DEF c
    <3>2. CASE i # position[e]
      <4>1. i < position[e]
        BY <1>1, <3>2 DEF WsInv, WsTypeOK
      <4>2. connections[i] \in broken \/ Contains(received[connections[i]], e)
        BY <1>1, <4>1 DEF WsInv, NobodyPassedOver
      <4> QED
        BY <1>2, <2>1, <2>3, <4>2
    <3> QED
      BY <3>1, <3>2
  <2>8. SameOrder'
    <3> SUFFICES ASSUME NEW a \in Client, NEW b \in Client,
                        NEW i \in DOMAIN received'[a], NEW j \in DOMAIN received'[a],
                        NEW k \in DOMAIN received'[b], NEW l \in DOMAIN received'[b],
                        received'[a][i] = received'[b][k], received'[a][j] = received'[b][l]
                 PROVE  i < j <=> k < l
      BY DEF SameOrder
    <3>1. \A d \in Client : /\ DOMAIN received[d] = 1..Len(received[d])
                            /\ DOMAIN received'[d] = 1..Len(received'[d])
                            /\ Len(received[d]) \in Nat /\ Len(received'[d]) \in Nat
      BY <1>5, <2>1
    <3>2. \A d \in Client : \A n \in DOMAIN received'[d] :
            \/ received'[d][n] = e /\ n = Len(received'[d])
            \/ received'[d][n] # e /\ n \in DOMAIN received[d] /\ received[d][n] = received'[d][n]
      <4>1. ASSUME NEW n \in DOMAIN received'[c]
            PROVE  n \in 1..Len(received[c]) \/ n = Len(received[c]) + 1
        BY <1>1, <2>2, <3>1
      <4>2. ASSUME NEW d \in Client, d # c, NEW n \in DOMAIN received'[d]
            PROVE  /\ received'[d] = received[d] /\ n \in 1..Len(received[d])
                   /\ received[d][n] = e => n = Len(received[d])
        BY <1>4, <2>1, <3>1, <4>2
      <4> SUFFICES ASSUME NEW d \in Client, NEW n \in DOMAIN received'[d]
                   PROVE  \/ received'[d][n] = e /\ n = Len(received'[d])
                          \/ /\ received'[d][n] # e /\ n \in DOMAIN received[d]
                             /\ received[d][n] = received'[d][n]
        OBVIOUS
      <4>3. CASE d = c
        BY <2>2, <3>1, <4>1, <4>3
      <4>4. CASE d # c
        BY <3>1, <4>2, <4>4
      <4> QED
        BY <4>3, <4>4
    <3>3. CASE received'[a][i] # e /\ received'[a][j] # e
      BY <3>2, <3>3 DEF WsInv, SameOrder
    <3>4. CASE received'[a][i] = e
      <4>1. i = Len(received'[a]) /\ k = Len(received'[b])
        BY <3>2, <3>4
      <4> QED
        BY <3>1, <4>1
    <3>5. CASE received'[a][i] # e /\ received'[a][j] = e
      <4>1. j = Len(received'[a]) /\ l = Len(received'[b]) /\ i # j /\ k # l
        BY <3>2, <3>5
      <4> QED
        BY <3>1, <4>1
    <3> QED
      BY <3>3, <3>4, <3>5
  <2> QED
    BY <1>7, <2>5, <2>6, <2>7, <2>8 DEF WsInv
<1> QED
  BY <1>6, <1>8, <1>9

---------------------------------------------------------------------------
(* Theorems about WebSockets                                             *)

LEMMA WsStep == WsInv /\ [WsNext]_wsVars => WsInv'
<1> SUFFICES ASSUME WsInv, [WsNext]_wsVars PROVE WsInv'
  OBVIOUS
<1>1. ASSUME NEW c \in Client, Connect(c) \/ Connected(c) \/ Break(c) \/ Leave(c) \/ Disconnected(c)
      PROVE  WsInv'
  BY <1>1, ConnectStep, ConnectedStep, BreakStep, LeaveStep, DisconnectedStep
<1>2. ASSUME NEW e \in Event, Broadcast(e) \/ Broadcasting(e)
      PROVE  WsInv'
  BY <1>2, BroadcastStep, StartSendingStep, SendNextStep, StopSendingStep DEF Broadcasting
<1>3. CASE UNCHANGED wsVars
  BY <1>3 DEF wsVars, WsInv, WsTypeOK, LockInv, Holds, ListInv, LoopInv, NobodyPassedOver, SameOrder
<1> QED
  BY <1>1, <1>2, <1>3 DEF WsNext

LEMMA WsInvariant == WsSpec => []WsInv
<1>1. WsInit => WsInv
  BY WsInitial
<1>2. WsInv /\ [WsNext]_wsVars => WsInv'
  BY WsStep
<1> QED
  BY <1>1, <1>2, PTL DEF WsSpec

\* For any browsers and events, what is listed, queued and to be removed is
\* there once: list.remove finds whatever broadcast hands to it.
THEOREM WsTypeCorrect == WsSpec => []WsTypeOK
<1>1. WsInv => WsTypeOK
  BY DEF WsInv
<1> QED
  BY <1>1, WsInvariant, PTL

\* No interleaving of clients that come and go lets a broadcast pass over
\* one that is listed and alive.
THEOREM NobodyIsPassedOver == WsSpec => []NobodyPassedOver
<1>1. WsInv => NobodyPassedOver
  BY DEF WsInv
<1> QED
  BY <1>1, WsInvariant, PTL

\* All browsers see the events they get in one order.
THEOREM OneOrder == WsSpec => []SameOrder
<1>1. WsInv => SameOrder
  BY DEF WsInv
<1> QED
  BY <1>1, WsInvariant, PTL

---------------------------------------------------------------------------
(* Bags                                                                  *)

\* One more.
LEMMA WithProperties ==
  ASSUME NEW B, IsABag(B), NEW s
  PROVE  LET C == With(B, s) IN
         /\ IsABag(C) /\ DOMAIN C = DOMAIN B \cup {s}
         /\ C[s] = IF s \in DOMAIN B THEN B[s] + 1 ELSE 1
         /\ \A d \in DOMAIN B : d # s => C[d] = B[d]
<1> DEFINE C == With(B, s)
<1>1. C = [d \in DOMAIN B \cup {s} |->
             (IF d \in DOMAIN B THEN B[d] ELSE 0) + (IF d \in {s} THEN 1 ELSE 0)]
  BY DEF With, SetToBag, (+)
<1>2. \A d \in DOMAIN B : B[d] \in Nat /\ B[d] > 0
  BY DEF IsABag
<1>3. DOMAIN C = DOMAIN B \cup {s}
  BY <1>1
<1>4. \A d \in DOMAIN B : d # s => C[d] = B[d]
  BY <1>1, <1>2
<1>5. C[s] = IF s \in DOMAIN B THEN B[s] + 1 ELSE 1
  BY <1>1, <1>2
<1>6. IsABag(C)
  BY <1>1, <1>2, <1>3, <1>4, <1>5 DEF IsABag
<1> QED
  BY <1>3, <1>4, <1>5, <1>6

\* One less.
LEMMA LessProperties ==
  ASSUME NEW B, IsABag(B), NEW s \in DOMAIN B
  PROVE  LET C == Less(B, s) IN
         /\ IsABag(C) /\ DOMAIN C = DOMAIN B \ (IF B[s] = 1 THEN {s} ELSE {})
         /\ B[s] # 1 => C[s] = B[s] - 1
         /\ \A d \in DOMAIN B : d # s => C[d] = B[d]
<1> DEFINE C == Less(B, s)
<1> DEFINE D == [d \in DOMAIN B |-> IF d \in {s} THEN B[d] - 1 ELSE B[d]]
<1>1. C = [d \in {d \in DOMAIN D : D[d] > 0} |-> D[d]]
  BY DEF Less, SetToBag, (-)
<1>2. \A d \in DOMAIN B : B[d] \in Nat /\ B[d] > 0
  BY DEF IsABag
<1>3. DOMAIN D = DOMAIN B /\ \A d \in DOMAIN B : D[d] = IF d = s THEN B[d] - 1 ELSE B[d]
  OBVIOUS
<1> HIDE DEF D
<1>4. \A d : d \in DOMAIN C <=> d \in DOMAIN B /\ (d = s => B[s] # 1)
  BY <1>1, <1>2, <1>3
<1>5. \A d \in DOMAIN C : C[d] = D[d]
  BY <1>1
<1>6. IsABag(C)
  <2>1. \A d \in DOMAIN C : C[d] \in {n \in Nat : n > 0}
    BY <1>2, <1>3, <1>4, <1>5
  <2>2. C = [d \in DOMAIN C |-> C[d]]
    BY <1>1
  <2> QED
    BY <2>1, <2>2 DEF IsABag
<1> QED
  BY <1>3, <1>4, <1>5, <1>6

\* What InDrain is made of.
LEMMA InDrainMembers ==
  ASSUME NEW B
  PROVE  \A x : x \in InDrain(B) <=>
           \E s \in DOMAIN B : \E i \in 1..B[s] : s.phase = "draining" /\ x = <<s, i>>
  BY DEF InDrain, BagToSet

\* A send that starts to drain is one more in drain.
LEMMA InDrainWith ==
  ASSUME NEW B, IsABag(B), IsFiniteSet(InDrain(B)), NEW s
  PROVE  LET C == With(B, s) IN
         /\ IsFiniteSet(InDrain(C))
         /\ Cardinality(InDrain(C)) =
              Cardinality(InDrain(B)) + (IF s.phase = "draining" THEN 1 ELSE 0)
<1> DEFINE C == With(B, s)
<1>1. /\ IsABag(C) /\ DOMAIN C = DOMAIN B \cup {s}
      /\ C[s] = IF s \in DOMAIN B THEN B[s] + 1 ELSE 1
      /\ \A d \in DOMAIN B : d # s => C[d] = B[d]
  BY WithProperties
<1>2. \A d \in DOMAIN B : B[d] \in Nat /\ B[d] > 0
  BY DEF IsABag
<1>3. CASE s.phase = "draining"
  <2> DEFINE new == <<s, C[s]>>
  <2>1. new \notin InDrain(B)
    BY <1>1, <1>2, InDrainMembers
  <2>2. C[s] \in Nat \ {0} /\ \A i \in 1..C[s] : i = C[s] \/ (s \in DOMAIN B /\ i \in 1..B[s])
    BY <1>1, <1>2
  <2>3. \A x : x \in InDrain(C) => x \in InDrain(B) \cup {new}
    BY <1>1, <2>2, InDrainMembers
  <2>4. \A x : x \in InDrain(B) \cup {new} => x \in InDrain(C)
    <3>1. \A d \in DOMAIN B : \A i \in 1..B[d] : i \in 1..C[d]
      BY <1>1, <1>2
    <3> QED
      BY <1>1, <1>3, <2>2, <3>1, InDrainMembers
  <2>5. InDrain(C) = InDrain(B) \cup {new}
    BY <2>3, <2>4
  <2> QED
    BY <1>3, <2>1, <2>5, FS_AddElement
<1>4. CASE s.phase # "draining"
  <2>1. \A x : x \in InDrain(C) <=> x \in InDrain(B)
    BY <1>1, <1>4, InDrainMembers
  <2>2. InDrain(C) = InDrain(B)
    BY <2>1
  <2>3. Cardinality(InDrain(B)) \in Nat
    BY FS_CardinalityType
  <2> QED
    BY <1>4, <2>2, <2>3
<1> QED
  BY <1>3, <1>4

\* A send that ends or fails is one less.
LEMMA InDrainLess ==
  ASSUME NEW B, IsABag(B), IsFiniteSet(InDrain(B)), NEW s \in DOMAIN B
  PROVE  LET C == Less(B, s) IN
         /\ IsFiniteSet(InDrain(C))
         /\ Cardinality(InDrain(C)) =
              Cardinality(InDrain(B)) - (IF s.phase = "draining" THEN 1 ELSE 0)
<1> DEFINE C == Less(B, s)
<1>1. /\ IsABag(C) /\ DOMAIN C = DOMAIN B \ (IF B[s] = 1 THEN {s} ELSE {})
      /\ B[s] # 1 => C[s] = B[s] - 1
      /\ \A d \in DOMAIN B : d # s => C[d] = B[d]
  BY LessProperties
<1>2. \A d \in DOMAIN B : B[d] \in Nat /\ B[d] > 0
  BY DEF IsABag
<1>3. CASE s.phase = "draining"
  <2> DEFINE old == <<s, B[s]>>
  <2>1. old \in InDrain(B)
    BY <1>2, <1>3, InDrainMembers
  <2>2. \A x : x \in InDrain(C) => x \in InDrain(B) \ {old}
    <3>1. \A d \in DOMAIN C : \A i \in 1..C[d] : i \in 1..B[d] /\ (d = s => i # B[s])
      BY <1>1, <1>2
    <3> QED
      BY <1>1, <3>1, InDrainMembers
  <2>3. \A x : x \in InDrain(B) \ {old} => x \in InDrain(C)
    <3>1. \A d \in DOMAIN B : \A i \in 1..B[d] :
            (d = s => i # B[s]) => d \in DOMAIN C /\ i \in 1..C[d]
      BY <1>1, <1>2
    <3> QED
      BY <1>1, <3>1, InDrainMembers
  <2>4. InDrain(C) = InDrain(B) \ {old}
    BY <2>2, <2>3
  <2> QED
    BY <1>3, <2>1, <2>4, FS_RemoveElement
<1>4. CASE s.phase # "draining"
  <2>1. \A x : x \in InDrain(C) <=> x \in InDrain(B)
    BY <1>1, <1>4, InDrainMembers
  <2>2. InDrain(C) = InDrain(B)
    BY <2>1
  <2>3. Cardinality(InDrain(B)) \in Nat
    BY FS_CardinalityType
  <2> QED
    BY <1>4, <2>2, <2>3
<1> QED
  BY <1>3, <1>4

---------------------------------------------------------------------------
(* The sends of one peer                                                 *)

\* One send at most has a read loop waiting for it.
OneWaits(B) ==
  \A s, r \in DOMAIN B : s.waits /\ r.waits => s = r /\ s.packet = "answer" /\ B[s] = 1

GoodSends(B) ==
  IsABag(B) /\ DOMAIN B \subseteq Sending /\ IsFiniteSet(InDrain(B)) /\ OneWaits(B)

\* A send is begun or goes on.
LEMMA SendsWith ==
  ASSUME NEW B, GoodSends(B), NEW s \in Sending,
         s.waits => s.packet = "answer" /\ \A r \in DOMAIN B : ~r.waits
  PROVE  GoodSends(With(B, s))
<1> DEFINE C == With(B, s)
<1>1. /\ IsABag(C) /\ DOMAIN C = DOMAIN B \cup {s}
      /\ C[s] = IF s \in DOMAIN B THEN B[s] + 1 ELSE 1
      /\ \A d \in DOMAIN B : d # s => C[d] = B[d]
  BY WithProperties DEF GoodSends
<1>2. IsFiniteSet(InDrain(C))
  BY InDrainWith DEF GoodSends
<1>3. OneWaits(C)
  BY <1>1 DEF GoodSends, OneWaits
<1> QED
  BY <1>1, <1>2, <1>3 DEF GoodSends

\* A send ends or fails, and the loop that waited waits no more.
LEMMA SendsLess ==
  ASSUME NEW B, GoodSends(B), NEW s \in DOMAIN B
  PROVE  /\ GoodSends(Less(B, s))
         /\ s.waits => \A r \in DOMAIN Less(B, s) : ~r.waits
<1> DEFINE C == Less(B, s)
<1>1. /\ IsABag(C) /\ DOMAIN C = DOMAIN B \ (IF B[s] = 1 THEN {s} ELSE {})
      /\ B[s] # 1 => C[s] = B[s] - 1
      /\ \A d \in DOMAIN B : d # s => C[d] = B[d]
  BY LessProperties DEF GoodSends
<1>2. IsFiniteSet(InDrain(C))
  BY InDrainLess DEF GoodSends
<1>3. OneWaits(C) /\ (s.waits => \A r \in DOMAIN C : ~r.waits)
  BY <1>1 DEF GoodSends, OneWaits
<1> QED
  BY <1>1, <1>2, <1>3 DEF GoodSends

\* What a failed drain leaves sleeps, and its counts are those of what
\* slept and of what was in drain.
LEMMA FailedProperties ==
  ASSUME NEW p, GoodSends(sends[p]), NEW C, C = Failed(p)
  PROVE  GoodSends(C) /\ InDrain(C) = {}
<1> DEFINE B     == sends[p]
           idle  == BagToSet(B) \ Draining(p)
           again == {s \in Sending : s.phase = "sleeping" /\ BagIn(Before(s), B)}
           K == [s \in idle |-> B[s]]
           A == [s \in again |-> B[Before(s)]]
<1>1. C = [s \in DOMAIN K \cup DOMAIN A |->
             (IF s \in DOMAIN K THEN K[s] ELSE 0) + (IF s \in DOMAIN A THEN A[s] ELSE 0)]
  BY DEF Failed, (+)
<1>2. DOMAIN K = idle /\ DOMAIN A = again
      /\ (\A s \in idle : K[s] = B[s]) /\ (\A s \in again : A[s] = B[Before(s)])
  OBVIOUS
<1>3. /\ DOMAIN B \subseteq Sending /\ \A s \in DOMAIN B : B[s] \in Nat /\ B[s] > 0
      /\ OneWaits(B)
  BY DEF GoodSends, IsABag
<1>4. \A s \in idle : s \in DOMAIN B /\ s \in Sending /\ s.phase = "sleeping"
  BY <1>3 DEF Draining, BagToSet, Sending
<1>5. \A s \in again : s \in Sending /\ s.phase = "sleeping" /\ Before(s) \in DOMAIN B
  BY DEF BagIn, BagToSet
<1>6. \A s \in Sending : /\ Before(s).phase = "draining" /\ Before(s).waits = s.waits
                         /\ Before(s).packet = s.packet
  BY DEF Before, Sending
<1>7. \A s, r \in Sending : s.phase = "sleeping" /\ r.phase = "sleeping" /\ Before(s) = Before(r)
                              => s = r
  <2> SUFFICES ASSUME NEW s \in Sending, NEW r \in Sending, s.phase = "sleeping",
                      r.phase = "sleeping", Before(s) = Before(r)
               PROVE  s = r
    OBVIOUS
  <2>1. s.packet = r.packet /\ s.waits = r.waits
    BY <1>6
  <2>2. s.left = r.left
    <3>1. Before(s).left = s.left + 1 /\ Before(r).left = r.left + 1 /\ s.left \in Int /\ r.left \in Int
      BY BackpressureAssumption DEF Before, Sending
    <3> QED
      BY <3>1
  <2> QED
    BY <2>1, <2>2 DEF Sending
<1> HIDE DEF B, idle, again, K, A
<1>8. DOMAIN C = idle \cup again
      /\ \A s \in DOMAIN C :
           C[s] = (IF s \in idle THEN B[s] ELSE 0) + (IF s \in again THEN B[Before(s)] ELSE 0)
  BY <1>1, <1>2
<1>9. \A s \in DOMAIN C : C[s] \in {n \in Nat : n > 0}
  BY <1>3, <1>4, <1>5, <1>8
<1>10. IsABag(C)
  <2>1. C = [s \in DOMAIN C |-> C[s]]
    BY <1>1
  <2> QED
    BY <1>9, <2>1 DEF IsABag
<1>11. InDrain(C) = {}
  BY <1>4, <1>5, <1>8, InDrainMembers
<1>12. OneWaits(C)
  <2> SUFFICES ASSUME NEW s \in DOMAIN C, NEW r \in DOMAIN C, s.waits, r.waits
               PROVE  s = r /\ s.packet = "answer" /\ C[s] = 1
    BY DEF OneWaits
  <2>1. \A x, y \in DOMAIN B : x.waits /\ y.waits => x = y /\ x.packet = "answer" /\ B[x] = 1
    BY <1>3 DEF OneWaits
  <2>2. CASE s \in idle
    <3>1. s \notin again /\ r \notin again
      BY <1>4, <1>5, <1>6, <2>1, <2>2
    <3> QED
      BY <1>4, <1>8, <2>1, <2>2, <3>1
  <2>3. CASE s \in again
    <3>1. s \notin idle /\ r \notin idle
      BY <1>4, <1>5, <1>6, <2>1, <2>3
    <3>2. r \in again
      BY <1>8, <3>1
    <3>3. Before(s) = Before(r) /\ Before(s).packet = "answer" /\ B[Before(s)] = 1
      BY <1>5, <1>6, <2>1, <2>3, <3>2
    <3> QED
      BY <1>5, <1>6, <1>7, <1>8, <2>3, <3>1, <3>2, <3>3
  <2> QED
    BY <1>8, <2>2, <2>3
<1> QED
  BY <1>4, <1>5, <1>8, <1>10, <1>11, <1>12, FS_EmptySet DEF GoodSends

---------------------------------------------------------------------------
(* The steps of Backpressure                                             *)

FlowInv ==
  /\ stream \in [Peer -> Seq(Kind)]
  /\ DOMAIN sends = Peer /\ \A p \in Peer : GoodSends(sends[p])
  /\ requested \in 0..MaxRequests
  /\ BacklogBounded

LEMMA FlowTyped == FlowInv => FlowTypeOK
<1> SUFFICES ASSUME FlowInv PROVE FlowTypeOK
  OBVIOUS
<1>1. ASSUME NEW p \in Peer
      PROVE  /\ IsABag(sends[p]) /\ BagToSet(sends[p]) \subseteq Sending
             /\ \A s, r \in Awaited(p) : s = r /\ s.packet = "answer" /\ sends[p][s] = 1
  <2>1. GoodSends(sends[p])
    BY DEF FlowInv
  <2> QED
    BY <2>1 DEF GoodSends, OneWaits, Awaited, BagToSet
<1> QED
  BY <1>1 DEF FlowInv, FlowTypeOK

LEMMA OtherPeer ==
  ASSUME NEW p \in Peer
  PROVE  Other(p) \in Peer /\ Other(p) # p /\ Peer = {p, Other(p)}
<1>1. \E q \in Peer : q # p
  BY BackpressureAssumption
<1>2. Other(p) \in Peer /\ Other(p) # p
  BY <1>1 DEF Other
<1> QED
  BY <1>2, BackpressureAssumption

\* How many sends are in drain.
LEMMA DrainCount ==
  ASSUME FlowInv, NEW p \in Peer
  PROVE  /\ IsABag(sends[p]) /\ DOMAIN sends[p] \subseteq Sending
         /\ IsFiniteSet(InDrain(sends[p])) /\ Cardinality(InDrain(sends[p])) \in Nat
         /\ stream[p] \in Seq(Kind) /\ Len(stream[p]) \in Nat
         /\ Len(stream[p]) <= Room + Cardinality(InDrain(sends[p]))
<1>1. GoodSends(sends[p])
  BY DEF FlowInv
<1> QED
  BY <1>1, FS_CardinalityType DEF FlowInv, GoodSends, BacklogBounded

LEMMA FlowInitial == FlowInit => FlowInv
<1> SUFFICES ASSUME FlowInit PROVE FlowInv
  OBVIOUS
<1>1. IsABag(EmptyBag) /\ DOMAIN EmptyBag = {}
  BY DEF EmptyBag, SetToBag, IsABag
<1>2. InDrain(EmptyBag) = {}
  BY <1>1, InDrainMembers
<1>3. GoodSends(EmptyBag)
  BY <1>1, <1>2, FS_EmptySet DEF GoodSends, OneWaits
<1>4. \A p \in Peer : stream[p] = <<>> /\ sends[p] = EmptyBag
  BY DEF FlowInit
<1>5. BacklogBounded
  <2>1. Cardinality(InDrain(EmptyBag)) = 0 /\ Len(<<>>) = 0 /\ 0 <= Room + 0
    BY <1>2, FS_EmptySet, BackpressureAssumption
  <2>2. \A p \in Peer : Len(stream[p]) = 0 /\ Cardinality(InDrain(sends[p])) = 0
    BY <1>4, <2>1
  <2> QED
    BY <2>1, <2>2 DEF BacklogBounded
<1> QED
  BY <1>3, <1>4, <1>5, BackpressureAssumption DEF FlowInit, FlowInv

LEMMA RequestStep ==
  ASSUME FlowInv, NEW p \in Peer, Request(p)
  PROVE  FlowInv'
<1> DEFINE s == NewSend("request", FALSE)
<1>1. s \in Sending /\ s.phase = "draining" /\ ~s.waits
  BY BackpressureAssumption DEF NewSend, Sending, Kind
<1> HIDE DEF s
<1>2. GoodSends(sends[p])
  BY DEF FlowInv
<1>3. GoodSends(With(sends[p], s))
  BY <1>1, <1>2, SendsWith
<1>4. Cardinality(InDrain(With(sends[p], s))) = Cardinality(InDrain(sends[p])) + 1
  BY <1>1, DrainCount, InDrainWith
<1>5. /\ DOMAIN sends' = Peer /\ sends'[p] = With(sends[p], s)
      /\ \A q \in Peer : q # p => sends'[q] = sends[q]
  BY DEF Request, Begun, FlowInv, s
<1>6. /\ stream' \in [Peer -> Seq(Kind)] /\ Len(stream'[p]) = Len(stream[p]) + 1
      /\ \A q \in Peer : q # p => stream'[q] = stream[q]
  BY DEF Request, FlowInv, Kind
<1>7. BacklogBounded'
  BY <1>4, <1>5, <1>6, DrainCount, BackpressureAssumption DEF BacklogBounded
<1>8. requested' \in 0..MaxRequests
  BY BackpressureAssumption DEF FlowInv, Request
<1> QED
  BY <1>3, <1>5, <1>6, <1>7, <1>8 DEF FlowInv

\* The answer that is written waits to go: one packet more on the
\* connection of p, and one send more in drain.
LEMMA HandleStep ==
  ASSUME FlowInv, NEW p \in Peer, Handle(p)
  PROVE  FlowInv'
<1> DEFINE q == Other(p)
           s == NewSend("answer", TRUE)
<1>1. q \in Peer /\ q # p /\ Peer = {p, q}
  BY OtherPeer
<1>2. /\ ~Suspended(p) /\ stream[q] # <<>> /\ requested' = requested
      /\ \/ /\ stream' = [stream EXCEPT ![q] = Tail(@), ![p] = Append(@, "answer")]
            /\ sends' = Begun(p, s)
         \/ /\ stream' = [stream EXCEPT ![q] = Tail(@)]
            /\ sends' = sends
  BY DEF Handle
<1>3. s \in Sending /\ s.phase = "draining" /\ s.packet = "answer"
  BY BackpressureAssumption DEF NewSend, Sending, Kind
<1> HIDE DEF q, s
<1>4. /\ Tail(stream[q]) \in Seq(Kind)
      /\ Len(Tail(stream[q])) \in Nat /\ Len(Tail(stream[q])) <= Len(stream[q])
  BY <1>1, <1>2 DEF FlowInv
<1>5. CASE /\ stream' = [stream EXCEPT ![q] = Tail(@), ![p] = Append(@, "answer")]
           /\ sends' = Begun(p, s)
  <2>1. \A r \in DOMAIN sends[p] : ~r.waits
    BY <1>2 DEF Suspended, Awaited, BagToSet
  <2>2. GoodSends(With(sends[p], s))
    BY <1>3, <2>1, SendsWith DEF FlowInv
  <2>3. Cardinality(InDrain(With(sends[p], s))) = Cardinality(InDrain(sends[p])) + 1
    BY <1>3, DrainCount, InDrainWith
  <2>4. DOMAIN sends' = Peer /\ sends'[p] = With(sends[p], s) /\ sends'[q] = sends[q]
    BY <1>1, <1>5 DEF Begun, FlowInv
  <2>5. /\ stream' \in [Peer -> Seq(Kind)] /\ Len(stream'[p]) = Len(stream[p]) + 1
        /\ stream'[q] = Tail(stream[q])
    <3>1. /\ stream[p] \in Seq(Kind) /\ Append(stream[p], "answer") \in Seq(Kind)
          /\ Len(Append(stream[p], "answer")) = Len(stream[p]) + 1
      BY <1>1 DEF FlowInv, Kind
    <3>2. /\ stream'[p] = Append(stream[p], "answer") /\ stream'[q] = Tail(stream[q])
          /\ stream' = [x \in Peer |-> stream'[x]]
      BY <1>1, <1>5 DEF FlowInv
    <3> QED
      BY <1>1, <1>4, <3>1, <3>2
  <2>6. BacklogBounded'
    <3>1. Len(stream'[p]) <= Room + Cardinality(InDrain(sends'[p]))
      BY <2>3, <2>4, <2>5, DrainCount, BackpressureAssumption
    <3>2. Len(stream'[q]) <= Room + Cardinality(InDrain(sends'[q]))
      <4>1. Len(stream[q]) <= Room + Cardinality(InDrain(sends[q])) /\ Len(stream[q]) \in Nat
            /\ Cardinality(InDrain(sends[q])) \in Nat
        BY <1>1, DrainCount
      <4>2. Len(stream'[q]) = Len(Tail(stream[q])) /\ InDrain(sends'[q]) = InDrain(sends[q])
        BY <2>4, <2>5
      <4> QED
        BY <1>4, <4>1, <4>2, BackpressureAssumption
    <3> QED
      BY <1>1, <3>1, <3>2 DEF BacklogBounded
  <2> QED
    BY <1>1, <1>2, <2>2, <2>4, <2>5, <2>6 DEF FlowInv
<1>6. CASE stream' = [stream EXCEPT ![q] = Tail(@)] /\ sends' = sends
  <2>1. /\ stream' \in [Peer -> Seq(Kind)] /\ stream'[p] = stream[p]
        /\ stream'[q] = Tail(stream[q])
    BY <1>1, <1>4, <1>6 DEF FlowInv
  <2>2. BacklogBounded'
    BY <1>1, <1>4, <1>6, <2>1, DrainCount, BackpressureAssumption DEF BacklogBounded
  <2> QED
    BY <1>2, <1>6, <2>1, <2>2 DEF FlowInv
<1> QED
  BY <1>2, <1>5, <1>6

\* drain returns while the connection has room, so that nobody has to
\* make up for the send that is over.
LEMMA DrainedStep ==
  ASSUME FlowInv, NEW p \in Peer, Drained(p)
  PROVE  FlowInv'
<1>1. PICK s \in Draining(p) : sends' = Over(p, s)
  BY DEF Drained
<1>2. s \in DOMAIN sends[p] /\ UNCHANGED <<stream, requested>> /\ ~(Len(stream[p]) > Room)
  BY DEF Drained, Draining, BagToSet, Paused
<1>3. GoodSends(Less(sends[p], s))
  BY <1>2, SendsLess DEF FlowInv
<1>4. /\ DOMAIN sends' = Peer /\ sends'[p] = Less(sends[p], s)
      /\ \A q \in Peer : q # p => sends'[q] = sends[q]
  BY <1>1 DEF Over, FlowInv
<1>5. Cardinality(InDrain(Less(sends[p], s))) \in Nat
  BY <1>3, FS_CardinalityType DEF GoodSends
<1>6. BacklogBounded'
  BY <1>2, <1>4, <1>5, DrainCount, BackpressureAssumption DEF BacklogBounded
<1> QED
  BY <1>2, <1>3, <1>4, <1>6 DEF FlowInv

\* What was under way to p is gone, and all who waited at the other end
\* sleep; at p a send goes on without its loop.
LEMMA CloseIdleStep ==
  ASSUME FlowInv, NEW p \in Peer, CloseIdle(p)
  PROVE  FlowInv'
<1> DEFINE q == Other(p)
<1>1. q \in Peer /\ q # p /\ Peer = {p, q}
  BY OtherPeer
<1>2. /\ stream' = [stream EXCEPT ![q] = <<>>] /\ requested' = requested
      /\ \E s \in Awaited(p) : sends' = [sends EXCEPT ![p] = Orphaned(p, s), ![q] = Failed(q)]
  BY DEF CloseIdle
<1> HIDE DEF q
<1>3. PICK s \in Awaited(p) : sends' = [sends EXCEPT ![p] = Orphaned(p, s), ![q] = Failed(q)]
  BY <1>2
<1>4. s \in DOMAIN sends[p] /\ s.waits /\ s \in Sending
  BY DrainCount DEF Awaited, BagToSet
<1> DEFINE r == [s EXCEPT !.waits = FALSE]
           B == Less(sends[p], s)
<1>5. r \in Sending /\ ~r.waits /\ r.phase = s.phase
  BY <1>4 DEF Sending
<1> HIDE DEF r
<1>6. GoodSends(B)
  BY <1>4, SendsLess DEF FlowInv
<1>7. Cardinality(InDrain(B)) =
        Cardinality(InDrain(sends[p])) - (IF s.phase = "draining" THEN 1 ELSE 0)
  BY <1>4, DrainCount, InDrainLess
<1> HIDE DEF B
<1>8. GoodSends(With(B, r))
  BY <1>5, <1>6, SendsWith
<1>9. Cardinality(InDrain(With(B, r))) =
        Cardinality(InDrain(B)) + (IF r.phase = "draining" THEN 1 ELSE 0)
  BY <1>6, InDrainWith DEF GoodSends
<1>10. Cardinality(InDrain(With(B, r))) = Cardinality(InDrain(sends[p]))
  BY <1>5, <1>7, <1>9, DrainCount
<1>11. DOMAIN sends' = Peer /\ sends'[p] = With(B, r) /\ sends'[q] = Failed(q)
  BY <1>1, <1>3 DEF FlowInv, Orphaned, B, r
<1>12. stream' \in [Peer -> Seq(Kind)] /\ stream'[p] = stream[p] /\ stream'[q] = <<>>
  BY <1>1, <1>2 DEF FlowInv
<1>13. GoodSends(Failed(q)) /\ InDrain(Failed(q)) = {}
  BY <1>1, FailedProperties DEF FlowInv
<1>14. BacklogBounded'
  <2>1. Len(stream'[p]) <= Room + Cardinality(InDrain(sends'[p]))
    BY <1>10, <1>11, <1>12, DrainCount
  <2>2. Len(stream'[q]) <= Room + Cardinality(InDrain(sends'[q]))
    BY <1>11, <1>12, <1>13, FS_EmptySet, BackpressureAssumption
  <2> QED
    BY <1>1, <2>1, <2>2 DEF BacklogBounded
<1> QED
  BY <1>1, <1>2, <1>8, <1>11, <1>12, <1>13, <1>14 DEF FlowInv

\* The packet is written again by a send that drains again.
LEMMA RetryStep ==
  ASSUME FlowInv, NEW p \in Peer, Retry(p)
  PROVE  FlowInv'
<1>1. PICK s \in BagToSet(sends[p]) :
        /\ s.phase = "sleeping"
        /\ stream' = [stream EXCEPT ![p] = Append(@, s.packet)]
        /\ sends' = [sends EXCEPT ![p] = With(Less(@, s), [s EXCEPT !.phase = "draining"])]
  BY DEF Retry
<1>2. s \in DOMAIN sends[p] /\ s \in Sending /\ requested' = requested
  BY DrainCount DEF BagToSet, Retry
<1> DEFINE r == [s EXCEPT !.phase = "draining"]
           B == Less(sends[p], s)
<1>3. r \in Sending /\ r.phase = "draining" /\ r.waits = s.waits /\ r.packet = s.packet
  BY <1>2 DEF Sending
<1> HIDE DEF r
<1>4. GoodSends(B) /\ (s.waits => \A d \in DOMAIN B : ~d.waits)
  BY <1>2, SendsLess DEF FlowInv
<1>5. Cardinality(InDrain(B)) = Cardinality(InDrain(sends[p]))
  BY <1>1, <1>2, DrainCount, InDrainLess
<1>6. s.waits => s.packet = "answer"
  BY <1>2 DEF FlowInv, GoodSends, OneWaits
<1> HIDE DEF B
<1>7. GoodSends(With(B, r))
  BY <1>3, <1>4, <1>6, SendsWith
<1>8. Cardinality(InDrain(With(B, r))) = Cardinality(InDrain(sends[p])) + 1
  BY <1>3, <1>4, <1>5, InDrainWith DEF GoodSends
<1>9. /\ DOMAIN sends' = Peer /\ sends'[p] = With(B, r)
      /\ \A q \in Peer : q # p => sends'[q] = sends[q]
  BY <1>1 DEF FlowInv, B, r
<1>10. /\ stream' \in [Peer -> Seq(Kind)] /\ Len(stream'[p]) = Len(stream[p]) + 1
       /\ \A q \in Peer : q # p => stream'[q] = stream[q]
  <2>1. s.packet \in Kind
    BY <1>2 DEF Sending
  <2> QED
    BY <1>1, <2>1 DEF FlowInv
<1>11. BacklogBounded'
  BY <1>8, <1>9, <1>10, DrainCount, BackpressureAssumption DEF BacklogBounded
<1> QED
  BY <1>2, <1>7, <1>9, <1>10, <1>11 DEF FlowInv

---------------------------------------------------------------------------
(* Theorems about Backpressure                                           *)

LEMMA FlowStep == FlowInv /\ [FlowNext]_flowVars => FlowInv'
<1> SUFFICES ASSUME FlowInv, [FlowNext]_flowVars PROVE FlowInv'
  OBVIOUS
<1>1. ASSUME NEW p \in Peer, Request(p) \/ Handle(p) \/ Drained(p) \/ CloseIdle(p) \/ Retry(p)
      PROVE  FlowInv'
  BY <1>1, RequestStep, HandleStep, DrainedStep, CloseIdleStep, RetryStep
<1>2. CASE UNCHANGED flowVars
  BY <1>2 DEF flowVars, FlowInv, BacklogBounded
<1> QED
  BY <1>1, <1>2 DEF FlowNext

LEMMA FlowInvariant == FlowSpec => []FlowInv
<1>1. FlowInit => FlowInv
  BY FlowInitial
<1>2. FlowInv /\ [FlowNext]_flowVars => FlowInv'
  BY FlowStep
<1> QED
  BY <1>1, <1>2, PTL DEF FlowSpec

\* For any room, number of attempts and number of requests, at most one
\* send of a peer has a read loop waiting for it, and it is an answer.
THEOREM FlowTypeCorrect == FlowSpec => []FlowTypeOK
<1>1. FlowInv => FlowTypeOK
  BY FlowTyped
<1> QED
  BY <1>1, FlowInvariant, PTL

\* However many sends start, fail and are sent again, what is written and
\* not read exceeds the room of the connection by the sends in drain at most.
THEOREM BacklogIsBounded == FlowSpec => []BacklogBounded
<1>1. FlowInv => BacklogBounded
  BY DEF FlowInv
<1> QED
  BY <1>1, FlowInvariant, PTL

=============================================================================
