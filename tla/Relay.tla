------------------------------- MODULE Relay -------------------------------
(* Packets on their way through other peers: the relaying half of the     *)
(* handlers of app/server.py, its _flush_buffer, and class Buffer of      *)
(* app/network/buffer.py.                                                 *)
(*                                                                        *)
(* Of the routing table only the next hops are kept, so that metrics may  *)
(* be anything and routes may form loops. A packet may be lost wherever   *)
(* it is under way; one that is sent again makes another packet.          *)
EXTENDS Naturals, FiniteSets, Functions

CONSTANTS
  Node,               \* the peers, by peer_id
  Links,              \* the pairs {n, m} of peers that can reach each other
  Packet,             \* packets with a ttl
  Source,             \* Source[p]: who sends p
  Target,             \* Target[p]: whom p is for
  Buffered,           \* MESSAGE, ACK, KEY_EXCHANGE, FILE_CHUNK, FILE_ACK, CALL_OFFER
  Ttl,                \* the ttl of a new packet
  MaxPerDestination   \* what a buffer holds for one destination

ASSUME RelayAssumption ==
  /\ Source \in [Packet -> Node] /\ Target \in [Packet -> Node]
  /\ \A p \in Packet : Source[p] # Target[p]
  /\ Buffered \subseteq Packet
  /\ Ttl \in Nat /\ MaxPerDestination \in Nat

VARIABLES
  hop,       \* hop[n]: the next hop of n to each destination it has a route to
  wire,      \* packets sent to the peer they are at
  buffer,    \* buffer[n]: what n keeps until there is a route
  flushes,   \* flushes[n]: flushes under way, each with the packets it took out
             \* and the destinations it has still to look at
  sent,      \* packets sent so far
  arrived    \* packets that reached their destination

vars == <<hop, wire, buffer, flushes, sent, arrived>>

Destination == Range(Target)
Copy        == [id : Packet, ttl : 0..Ttl]
Moving      == [id : Packet, ttl : 0..Ttl, at : Node]
Flush       == [rest : SUBSET Copy, todo : SUBSET Node]

HeldFor(n, d) == {c \in buffer[n] : Target[c.id] = d}

RelayTypeOK ==
  /\ DOMAIN hop = Node
  /\ \A n \in Node : DOMAIN hop[n] \subseteq Node /\ hop[n] \in [DOMAIN hop[n] -> Node]
  /\ wire \subseteq Moving
  /\ buffer \in [Node -> SUBSET Copy]
  /\ \A n, d \in Node : Cardinality(HeldFor(n, d)) <= MaxPerDestination
  /\ flushes \in [Node -> SUBSET Flush]
  /\ sent \subseteq Packet /\ arrived \subseteq Packet

NoRoutes == [d \in {} |-> d]

Init ==
  /\ hop = [n \in Node |-> NoRoutes]
  /\ wire = {}
  /\ buffer = [n \in Node |-> {}]
  /\ flushes = [n \in Node |-> {}]
  /\ sent = {} /\ arrived = {}

Routed(n, d) == d \in DOMAIN hop[n]

---------------------------------------------------------------------------
(* Packets                                                               *)

\* A peer sends p: without a route send_to_peer drops it.
SendPacket(p) ==
  LET n == Source[p]  d == Target[p]
  IN  /\ p \notin sent
      /\ Routed(n, d)
      /\ sent' = sent \cup {p}
      /\ wire' = wire \cup {[id |-> p, ttl |-> Ttl, at |-> hop[n][d]]}
      /\ UNCHANGED <<hop, buffer, flushes, arrived>>

\* The copy p of m is a packet of its own from now on.
CopyOf(p, m) ==
  /\ Source[p] = Source[m.id] /\ Target[p] = Target[m.id]
  /\ p \in Buffered <=> m.id \in Buffered

\* send fails in drain, when its data has left, and writes it to the same
\* address once more.
SendAgain(m, p) ==
  /\ p \notin sent /\ CopyOf(p, m)
  /\ sent' = sent \cup {p}
  /\ wire' = wire \cup {[id |-> p, ttl |-> m.ttl, at |-> m.at]}
  /\ UNCHANGED <<hop, buffer, flushes, arrived>>

Arrive(m) ==
  /\ Target[m.id] = m.at
  /\ wire' = wire \ {m}
  /\ arrived' = arrived \cup {m.id}
  /\ UNCHANGED <<hop, buffer, flushes, sent>>

\* Fault: the packet does not age.
ForwardUnaged(m) ==
  LET d == Target[m.id]
  IN  /\ d # m.at /\ m.ttl > 0 /\ Routed(m.at, d)
      /\ wire' = (wire \ {m}) \cup {[m EXCEPT !.at = hop[m.at][d]]}
      /\ UNCHANGED <<hop, buffer, flushes, sent, arrived>>

\* One hop further, with one less to live.
Forward(m) ==
  LET d == Target[m.id]
  IN  /\ d # m.at /\ m.ttl > 0 /\ Routed(m.at, d)
      /\ wire' = (wire \ {m}) \cup {[id |-> m.id, ttl |-> m.ttl - 1, at |-> hop[m.at][d]]}
      /\ UNCHANGED <<hop, buffer, flushes, sent, arrived>>

\* Fault: one packet too many.
HasRoomAtLimit(n, d) == Cardinality(HeldFor(n, d)) <= MaxPerDestination

HasRoom(n, d) == Cardinality(HeldFor(n, d)) < MaxPerDestination

\* Nowhere to go now.
Hold(m) ==
  LET d == Target[m.id]
  IN  /\ d # m.at /\ m.ttl > 0 /\ ~Routed(m.at, d)
      /\ m.id \in Buffered /\ HasRoom(m.at, d)
      /\ wire' = wire \ {m}
      /\ buffer' = [buffer EXCEPT ![m.at] = @ \cup {[id |-> m.id, ttl |-> m.ttl - 1]}]
      /\ UNCHANGED <<hop, flushes, sent, arrived>>

\* Too old, not of a kind that waits, or one too many.
Drop(m) ==
  LET d == Target[m.id]
  IN  /\ d # m.at
      /\ \/ m.ttl = 0
         \/ ~Routed(m.at, d) /\ (m.id \notin Buffered \/ ~HasRoom(m.at, d))
      /\ wire' = wire \ {m}
      /\ UNCHANGED <<hop, buffer, flushes, sent, arrived>>

HandlePacket(p) ==
  \E m \in wire : m.id = p /\ (Arrive(m) \/ Forward(m) \/ Hold(m) \/ Drop(m))

Lose(m) ==
  /\ wire' = wire \ {m}
  /\ UNCHANGED <<hop, buffer, flushes, sent, arrived>>

---------------------------------------------------------------------------
(* Routes and flushes                                                    *)

\* Fault: one flush at a time.
NewFlushAlone(n) ==
  IF buffer[n] = {} \/ flushes[n] # {} THEN {}
  ELSE {[rest |-> {}, todo |-> {Target[c.id] : c \in buffer[n]}]}

\* A flush of whatever is in the buffer now.
NewFlush(n) ==
  IF buffer[n] = {} THEN {}
  ELSE {[rest |-> {}, todo |-> {Target[c.id] : c \in buffer[n]}]}

\* PEER_INFO of m: m becomes a neighbour, some routes now go through it,
\* some that did are gone. Then n starts to flush its buffer.
HandlePeerInfo(n, m) ==
  /\ n # m /\ {n, m} \in Links
  /\ \E gained \in SUBSET (Destination \ {n}), lost \in SUBSET DOMAIN hop[n] :
       LET via == (gained \cup {m}) \cap Destination
       IN  /\ \A d \in lost : hop[n][d] = m /\ d \notin via
           /\ hop' = [hop EXCEPT ![n] = [d \in (DOMAIN hop[n] \ lost) \cup via |->
                        IF d \in via THEN m ELSE hop[n][d]]]
  /\ flushes' = [flushes EXCEPT ![n] = @ \cup NewFlush(n)]
  /\ UNCHANGED <<wire, buffer, sent, arrived>>

\* A connection with g ends.
RemoveRoutesVia(n, g) ==
  /\ \E d \in DOMAIN hop[n] : hop[n][d] = g
  /\ hop' = [hop EXCEPT ![n] = Restrict(@, {d \in DOMAIN @ : @[d] # g})]
  /\ UNCHANGED <<wire, buffer, flushes, sent, arrived>>

\* Fault: a destination without a route ends the flush.
ReadyAll(n, f) ==
  {d \in f.todo : HeldFor(n, d) # {} /\ \A e \in f.todo : Routed(n, e)}

\* The destinations a flush can get on with.
Ready(n, f) == {d \in f.todo : Routed(n, d) /\ HeldFor(n, d) # {}}

\* c of n goes to the next hop.
SentOn(n, c) == [id |-> c.id, ttl |-> c.ttl, at |-> hop[n][Target[c.id]]]

\* Fault: the packets are read and not taken out.
FlushNextKeeping(n, f) ==
  /\ f.rest = {}
  /\ \E d \in Ready(n, f) : \E c \in HeldFor(n, d) :
       /\ wire' = wire \cup {SentOn(n, c)}
       /\ flushes' = [flushes EXCEPT ![n] = (@ \ {f}) \cup
            {[rest |-> HeldFor(n, d) \ {c}, todo |-> f.todo \ {d}]}]
  /\ UNCHANGED <<hop, buffer, sent, arrived>>

\* Take out everything for the next such destination and send the first
\* packet. Those without a route that the loop comes to before are passed
\* over.
FlushNext(n, f) ==
  /\ f.rest = {}
  /\ \E d \in Ready(n, f), passed \in SUBSET (f.todo \ Ready(n, f)) : \E c \in HeldFor(n, d) :
       /\ buffer' = [buffer EXCEPT ![n] = @ \ HeldFor(n, d)]
       /\ wire' = wire \cup {SentOn(n, c)}
       /\ flushes' = [flushes EXCEPT ![n] = (@ \ {f}) \cup
            {[rest |-> HeldFor(n, d) \ {c}, todo |-> f.todo \ ({d} \cup passed)]}]
  /\ UNCHANGED <<hop, sent, arrived>>

\* Send another: the route may be gone again, and the packet with it.
FlushSend(n, f) ==
  /\ \E c \in f.rest :
       /\ flushes' = [flushes EXCEPT ![n] = (@ \ {f}) \cup {[f EXCEPT !.rest = @ \ {c}]}]
       /\ wire' = IF Routed(n, Target[c.id]) THEN wire \cup {SentOn(n, c)} ELSE wire
  /\ UNCHANGED <<hop, buffer, sent, arrived>>

FlushEnd(n, f) ==
  /\ f.rest = {} /\ Ready(n, f) = {}
  /\ flushes' = [flushes EXCEPT ![n] = @ \ {f}]
  /\ UNCHANGED <<hop, wire, buffer, sent, arrived>>

Flushing(n) == \E f \in flushes[n] : FlushNext(n, f) \/ FlushSend(n, f) \/ FlushEnd(n, f)

\* The process of n dies; its routes and packets are in memory only.
Restart(n) ==
  /\ hop' = [hop EXCEPT ![n] = NoRoutes]
  /\ buffer' = [buffer EXCEPT ![n] = {}]
  /\ flushes' = [flushes EXCEPT ![n] = {}]
  /\ wire' = {m \in wire : m.at # n}
  /\ UNCHANGED <<sent, arrived>>

Next ==
  \/ \E p \in Packet : SendPacket(p) \/ HandlePacket(p)
  \/ \E m \in wire : Lose(m) \/ \E p \in Packet : SendAgain(m, p)
  \/ \E n, m \in Node : HandlePeerInfo(n, m) \/ RemoveRoutesVia(n, m)
  \/ \E n \in Node : Flushing(n) \/ Restart(n)

Spec == Init /\ [][Next]_vars

\* Read loops handle what they read, and a suspended flush goes on.
FairSpec ==
  /\ Spec
  /\ \A p \in Packet : WF_vars(HandlePacket(p))
  /\ \A n \in Node : WF_vars(Flushing(n))

---------------------------------------------------------------------------
(* Properties                                                            *)

\* A packet waits in a buffer only for want of a route: as soon as there
\* is one, some flush has still to come to its destination, however many
\* flushes are under way and whatever routes do in between.
BufferedHasNoRoute ==
  \A n \in Node : \A c \in buffer[n] :
    Routed(n, Target[c.id]) => \E f \in flushes[n] : Target[c.id] \in f.todo

\* Everywhere a copy of p can be.
Copies(p) ==
  {<<"wire", m>> : m \in {m \in wire : m.id = p}}
  \cup (UNION {{<<"buffer", n, c>> : c \in {c \in buffer[n] : c.id = p}} : n \in Node})
  \cup (UNION {{<<"flush", n, f>> : f \in {f \in flushes[n] : \E c \in f.rest : c.id = p}} : n \in Node})
  \cup {<<"arrived">> : q \in arrived \cap {p}}

\* Handlers and flushes never multiply a packet: two flushes do not send
\* the same one, and what has arrived is nowhere else. What multiplies
\* packets is send alone, when it fails after its data has left.
NeverTwice == \A p \in Packet : Cardinality(Copies(p)) <= 1

Underway(p) ==
  \/ \E m \in wire : m.id = p
  \/ \E n \in Node : \/ \E c \in buffer[n] : c.id = p
                     \/ \E f \in flushes[n] : \E c \in f.rest : c.id = p

Network == INSTANCE PacketService WITH underway <- {p \in Packet : Underway(p)}

\* However many relays hold, flush and restart, and whatever the routes do,
\* a packet that is under way arrives once or is lost, and nothing brings
\* back one that has arrived or is lost.
ImplementsNetwork == Network!Spec

\* A packet that waits for a route waits on or is sent, unless its relay is
\* restarted ("пакеты буферизуются ... и автоматически отправляются при
\* появлении маршрута", README.md).
Waiting(n) == {c.id : c \in buffer[n]} \cup (UNION {{c.id : c \in f.rest} : f \in flushes[n]})

BufferedIsSent ==
  [][\A n \in Node : Waiting(n) \subseteq Waiting(n)' \cup {m.id : m \in wire'}
                    \/ (buffer'[n] = {} /\ flushes'[n] = {})]_vars

\* No packet circulates for ever, though routes may form loops.
NothingCirculates == <>[](wire = {})

\* What waits for a route that stays is sent on.
NothingStaysBuffered ==
  \A n, d \in Node : <>[]Routed(n, d) => <>[](HeldFor(n, d) = {})

===========================================================================
