------------------------------ MODULE Identity ------------------------------
(* Who a process takes itself for: registration (app/api/auth.py), the    *)
(* table users (app/crud/users.py), start-up (app/__main__.py) and the    *)
(* discovery messages of app/server.py, whose senders go into the table.  *)
(*                                                                        *)
(* get_current_user takes the first row of the table: SQLite reads it in  *)
(* the order the rows were inserted in. Hosts are addresses; a HELLO that *)
(* is late, or a send that tries again, finds whatever process is there.  *)
EXTENDS Naturals, Sequences, FiniteSets, Functions

CONSTANTS
  Host,       \* addresses with a node each
  Id,         \* peer_ids, never generated twice
  NoId,       \* the peer_id of an unregistered node
  MaxLosses,  \* bound: databases lost
  MaxPackets  \* bound: HELLO and PEER_INFO under way

ASSUME IdentityAssumption == NoId \notin Id /\ MaxLosses \in Nat /\ MaxPackets \in Nat

VARIABLES
  users,      \* users[h]: peer_ids in the table of h, in its order
  peerId,     \* peerId[h]: the identity h runs with
  maker,      \* maker[i]: the host i was generated at, for generated ones
  hello,      \* HELLO broadcasts under way
  info,       \* PEER_INFO being sent in answer
  known,      \* <<h, g>>: h keeps a connection with its neighbour g alive
  lost        \* hosts that have lost their database

vars == <<users, peerId, maker, hello, info, known, lost>>

Hello    == [id : Id, at : Host, to : Host]
PeerInfo == [id : Id, at : Host, to : Host]

IdTypeOK ==
  /\ users \in [Host -> Seq(Id)]
  /\ peerId \in [Host -> Id \cup {NoId}]
  /\ DOMAIN maker \subseteq Id /\ maker \in [DOMAIN maker -> Host]
  /\ \A h \in Host : Range(users[h]) \subseteq DOMAIN maker
  /\ hello \subseteq Hello /\ info \subseteq PeerInfo
  /\ known \subseteq Host \X Host
  /\ lost \subseteq Host

Init ==
  /\ users = [h \in Host |-> <<>>]
  /\ peerId = [h \in Host |-> NoId]
  /\ maker = [i \in {} |-> i]
  /\ hello = {} /\ info = {} /\ known = {} /\ lost = {}

\* get_current_user
CurrentUser(h) == IF users[h] = <<>> THEN NoId ELSE Head(users[h])

\* Row i is inserted unless it is there.
WithUser(h, i) == IF i \in Range(users[h]) THEN users ELSE [users EXCEPT ![h] = Append(@, i)]

---------------------------------------------------------------------------

\* Fault: the running server keeps the empty identity.
RegisterUnapplied(h) ==
  /\ CurrentUser(h) = NoId
  /\ \E i \in Id \ DOMAIN maker :
       /\ maker' = [j \in DOMAIN maker \cup {i} |-> IF j = i THEN h ELSE maker[j]]
       /\ users' = WithUser(h, i)
  /\ UNCHANGED <<peerId, hello, info, known, lost>>

\* A new peer_id for the user, in the table and in the running server.
Register(h) ==
  /\ CurrentUser(h) = NoId
  /\ \E i \in Id \ DOMAIN maker :
       /\ maker' = [j \in DOMAIN maker \cup {i} |-> IF j = i THEN h ELSE maker[j]]
       /\ users' = WithUser(h, i)
       /\ peerId' = [peerId EXCEPT ![h] = i]
  /\ UNCHANGED <<hello, info, known, lost>>

RoomForPacket == Cardinality(hello) + Cardinality(info) < MaxPackets

\* Fault: nodes announce themselves before they are registered.
BroadcastAlways(h) ==
  /\ RoomForPacket
  /\ \E g \in Host \ {h} : hello' = hello \cup {[id |-> peerId[h], at |-> h, to |-> g]}
  /\ UNCHANGED <<users, peerId, maker, info, known, lost>>

\* HELLO to everybody who hears it, from registered nodes only.
Broadcast(h) ==
  /\ peerId[h] # NoId
  /\ RoomForPacket
  /\ \E g \in Host \ {h} : hello' = hello \cup {[id |-> peerId[h], at |-> h, to |-> g]}
  /\ UNCHANGED <<users, peerId, maker, info, known, lost>>

\* A registered node answers another; the answer is built before it is sent.
\* HELLO goes out on every interface: it can be heard again.
HandleHello(m) ==
  /\ peerId[m.to] \notin {NoId, m.id}
  /\ RoomForPacket
  /\ info' = info \cup {[id |-> peerId[m.to], at |-> m.to, to |-> m.at]}
  /\ UNCHANGED <<users, peerId, maker, hello, known, lost>>

\* The sender is saved, unless its name is taken. While it is the process
\* that sent the PEER_INFO it is a neighbour to keep in touch with.
HandlePeerInfo(m) ==
  /\ info' = info \ {m}
  /\ \/ users' = WithUser(m.to, m.id)
     \/ users[m.to] # <<>> /\ UNCHANGED users
  /\ known' = IF peerId[m.at] = m.id THEN known \cup {<<m.to, m.at>>} ELSE known
  /\ UNCHANGED <<peerId, maker, hello, lost>>

\* PEER_INFO of h on a connection that its neighbour g reads.
Keepalive(h, g) ==
  /\ <<h, g>> \in known /\ peerId[h] # NoId
  /\ \/ users' = WithUser(g, peerId[h])
     \/ users[g] # <<>> /\ UNCHANGED users
  /\ known' = known \cup {<<g, h>>}
  /\ UNCHANGED <<peerId, maker, hello, info, lost>>

\* A datagram is lost, or a send gives up.
Lose(m) ==
  /\ hello' = hello \ {m} /\ info' = info \ {m}
  /\ UNCHANGED <<users, peerId, maker, known, lost>>

\* Connections end with the process.
Disconnected(h) == {k \in known : h \notin {k[1], k[2]}}

\* A new process loads the identity from the table.
Restart(h) ==
  /\ peerId' = [peerId EXCEPT ![h] = CurrentUser(h)]
  /\ known' = Disconnected(h)
  /\ UNCHANGED <<users, maker, hello, info, lost>>

\* A new installation, or another node, at the address of h.
LoseDatabase(h) ==
  /\ Cardinality(lost) < MaxLosses
  /\ lost' = lost \cup {h}
  /\ users' = [users EXCEPT ![h] = <<>>]
  /\ peerId' = [peerId EXCEPT ![h] = NoId]
  /\ known' = Disconnected(h)
  /\ UNCHANGED <<maker, hello, info>>

Next ==
  \/ \E h \in Host : Register(h) \/ Broadcast(h) \/ Restart(h) \/ LoseDatabase(h)
  \/ \E m \in hello : HandleHello(m) \/ Lose(m)
  \/ \E m \in info : HandlePeerInfo(m) \/ Lose(m)
  \/ \E h, g \in Host : Keepalive(h, g)

Spec == Init /\ [][Next]_vars

---------------------------------------------------------------------------
(* Properties                                                            *)

\* A node that has kept its database takes nobody else for its user: no
\* PEER_INFO can put a peer into an empty table, because a node is silent,
\* and nobody answers it, until it has a row of its own.
OwnRowFirst == \A h \in Host \ lost : users[h] # <<>> => maker[Head(users[h])] = h

\* It announces the identity that the API reports.
RunsAsRegistered == \A h \in Host \ lost : peerId[h] = CurrentUser(h)

\* And keeps it, however often it is restarted.
IdentityKept ==
  [][\A h \in Host \ lost' : peerId[h] # NoId => peerId'[h] = peerId[h]]_vars

\* What get_current_user returns was registered at this node ("единственного
\* локально зарегистрированного пользователя", app/crud/users.py).
LocalUserIsOwn == \A h \in Host : users[h] # <<>> => maker[Head(users[h])] = h

=============================================================================
