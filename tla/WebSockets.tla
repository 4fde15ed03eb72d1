----------------------------- MODULE WebSockets -----------------------------
(* Class WebSocketManager (app/network/ws_manager.py): browsers connect   *)
(* (websocket_endpoint of app/api/peer.py) and handlers broadcast events. *)
(*                                                                        *)
(* An asyncio.Lock is not reentrant and wakes those who wait in order:    *)
(* the head of the queue holds it. A broadcast is suspended at each send, *)
(* until the client has taken the event or the send has failed.           *)
EXTENDS Naturals, Sequences, SequencesExt

CONSTANTS
  Client,  \* browsers, by connection
  Event    \* events, each broadcast once

ASSUME WebSocketAssumption == Client \cap Event = {}

VARIABLES
  connections,  \* _connections, in order
  lock,         \* the holder of _lock and those who wait for it, in order
  endpoint,     \* endpoint[c]: where websocket_endpoint is with c
  broken,       \* clients that have gone
  broadcast,    \* broadcast[e]: where broadcast is with e
  position,     \* position[e]: where its loop is in the list
  dead,         \* dead[e]: clients its sends failed for
  received      \* received[c]: events c was sent, in order

wsVars == <<connections, lock, endpoint, broken, broadcast, position, dead, received>>

\* The clients a broadcast has to remove are there to be removed.
WsTypeOK ==
  /\ connections \in Seq(Client) /\ IsInjective(connections)
  /\ lock \in Seq(Client \cup Event) /\ IsInjective(lock)
  /\ endpoint \in [Client -> {"new", "connecting", "reading", "leaving", "gone"}]
  /\ broken \subseteq Client
  /\ broadcast \in [Event -> {"new", "locking", "sending", "done"}]
  /\ position \in [Event -> Nat]
  /\ dead \in [Event -> SUBSET Client]
  /\ \A e \in Event : broadcast[e] = "sending" => dead[e] \subseteq ToSet(connections)
  /\ received \in [Client -> Seq(Event)]

WsInit ==
  /\ connections = <<>> /\ lock = <<>>
  /\ endpoint = [c \in Client |-> "new"] /\ broken = {}
  /\ broadcast = [e \in Event |-> "new"]
  /\ position = [e \in Event |-> 1] /\ dead = [e \in Event |-> {}]
  /\ received = [c \in Client |-> <<>>]

Holds(t) == lock # <<>> /\ Head(lock) = t

Released(t) == IF Holds(t) THEN Tail(lock) ELSE lock

\* What is left of list when the clients of a set are removed.
Without(list, gone) ==
  LET kept[i \in 0..Len(list)] ==
        IF i = 0 THEN <<>>
        ELSE IF list[i] \in gone THEN kept[i - 1] ELSE Append(kept[i - 1], list[i])
  IN  kept[Len(list)]

---------------------------------------------------------------------------
(* Clients                                                               *)

Connect(c) ==
  /\ endpoint[c] = "new"
  /\ endpoint' = [endpoint EXCEPT ![c] = "connecting"]
  /\ lock' = Append(lock, c)
  /\ UNCHANGED <<connections, broken, broadcast, position, dead, received>>

Connected(c) ==
  /\ endpoint[c] = "connecting" /\ Holds(c)
  /\ endpoint' = [endpoint EXCEPT ![c] = "reading"]
  /\ connections' = Append(connections, c)
  /\ lock' = Released(c)
  /\ UNCHANGED <<broken, broadcast, position, dead, received>>

\* The browser closes or loses its connection.
Break(c) ==
  /\ endpoint[c] \in {"connecting", "reading"} /\ c \notin broken
  /\ broken' = broken \cup {c}
  /\ UNCHANGED <<connections, lock, endpoint, broadcast, position, dead, received>>

\* Fault: the list is changed without the lock.
LeaveUnlocked(c) ==
  /\ endpoint[c] = "reading" /\ c \in broken
  /\ endpoint' = [endpoint EXCEPT ![c] = "gone"]
  /\ connections' = Without(connections, {c})
  /\ UNCHANGED <<lock, broken, broadcast, position, dead, received>>

\* Fault: disconnect does not wait.
LeaveIfUnlocked(c) ==
  /\ endpoint[c] = "reading" /\ c \in broken
  /\ endpoint' = [endpoint EXCEPT ![c] = "gone"]
  /\ connections' = IF lock = <<>> THEN Without(connections, {c}) ELSE connections
  /\ UNCHANGED <<lock, broken, broadcast, position, dead, received>>

\* receive_text fails; disconnect waits for the lock.
Leave(c) ==
  /\ endpoint[c] = "reading" /\ c \in broken
  /\ endpoint' = [endpoint EXCEPT ![c] = "leaving"]
  /\ lock' = Append(lock, c)
  /\ UNCHANGED <<connections, broken, broadcast, position, dead, received>>

\* A broadcast may have removed it already.
Disconnected(c) ==
  /\ endpoint[c] = "leaving" /\ Holds(c)
  /\ endpoint' = [endpoint EXCEPT ![c] = "gone"]
  /\ connections' = Without(connections, {c})
  /\ lock' = Released(c)
  /\ UNCHANGED <<broken, broadcast, position, dead, received>>

---------------------------------------------------------------------------
(* Broadcasts                                                            *)

\* Fault: a broadcast does not ask for the lock.
BroadcastUnlocked(e) ==
  /\ broadcast[e] = "new"
  /\ broadcast' = [broadcast EXCEPT ![e] = "sending"]
  /\ UNCHANGED <<connections, lock, endpoint, broken, position, dead, received>>

\* A handler has an event to report.
Broadcast(e) ==
  /\ broadcast[e] = "new"
  /\ broadcast' = [broadcast EXCEPT ![e] = "locking"]
  /\ lock' = Append(lock, e)
  /\ UNCHANGED <<connections, endpoint, broken, position, dead, received>>

\* Fault: the lock is held for a look at the list only.
StartReleased(e) ==
  /\ broadcast[e] = "locking" /\ Holds(e)
  /\ broadcast' = [broadcast EXCEPT ![e] = "sending"]
  /\ lock' = Released(e)
  /\ UNCHANGED <<connections, endpoint, broken, position, dead, received>>

StartSending(e) ==
  /\ broadcast[e] = "locking" /\ Holds(e)
  /\ broadcast' = [broadcast EXCEPT ![e] = "sending"]
  /\ UNCHANGED <<connections, lock, endpoint, broken, position, dead, received>>

\* The send the loop is at ends. To a client that has gone it fails, or
\* nobody notices.
SendNext(e) ==
  /\ broadcast[e] = "sending" /\ position[e] <= Len(connections)
  /\ position' = [position EXCEPT ![e] = @ + 1]
  /\ LET c == connections[position[e]]
     IN  \/ /\ c \notin broken
            /\ received' = [received EXCEPT ![c] = Append(@, e)]
            /\ UNCHANGED dead
         \/ /\ c \in broken
            /\ dead' = [dead EXCEPT ![e] = @ \cup {c}]
            /\ UNCHANGED received
         \/ /\ c \in broken
            /\ UNCHANGED <<dead, received>>
  /\ UNCHANGED <<connections, lock, endpoint, broken, broadcast>>

\* Fault: the dead are removed by disconnect, which waits for the lock.
StopByDisconnect(e) ==
  /\ broadcast[e] = "sending" /\ position[e] > Len(connections) /\ dead[e] = {}
  /\ broadcast' = [broadcast EXCEPT ![e] = "done"]
  /\ lock' = Released(e)
  /\ UNCHANGED <<connections, endpoint, broken, position, dead, received>>

\* The list is through: the dead are removed.
StopSending(e) ==
  /\ broadcast[e] = "sending" /\ position[e] > Len(connections)
  /\ broadcast' = [broadcast EXCEPT ![e] = "done"]
  /\ connections' = Without(connections, dead[e])
  /\ position' = [position EXCEPT ![e] = 1] /\ dead' = [dead EXCEPT ![e] = {}]
  /\ lock' = Released(e)
  /\ UNCHANGED <<endpoint, broken, received>>

Broadcasting(e) == StartSending(e) \/ SendNext(e) \/ StopSending(e)

WsNext ==
  \/ \E c \in Client : Connect(c) \/ Connected(c) \/ Break(c) \/ Leave(c) \/ Disconnected(c)
  \/ \E e \in Event : Broadcast(e) \/ Broadcasting(e)

WsSpec == WsInit /\ [][WsNext]_wsVars

\* Endpoints resume, and every send ends: the browser reads, or uvicorn
\* gives it up after its ping timeout.
WsFairSpec ==
  /\ WsSpec
  /\ \A c \in Client : WF_wsVars(Connected(c)) /\ WF_wsVars(Leave(c)) /\ WF_wsVars(Disconnected(c))
  /\ \A e \in Event : WF_wsVars(Broadcasting(e))

---------------------------------------------------------------------------
(* Properties                                                            *)

\* Whatever comes and goes during its sends, a broadcast passes nobody
\* over: the clients before its position have the event or have gone.
NobodyPassedOver ==
  \A e \in Event : broadcast[e] = "sending" =>
    \A i \in 1..Len(connections) : i < position[e] =>
      connections[i] \in broken \/ Contains(received[connections[i]], e)

\* Two clients are told of two events in the same order: an answer to a
\* call does not overtake the call in one window and not in another.
SameOrder ==
  \A c, d \in Client : \A i, j \in DOMAIN received[c], k, l \in DOMAIN received[d] :
    received[c][i] = received[d][k] /\ received[c][j] = received[d][l] => (i < j <=> k < l)

\* Handlers get their events out, and clients that have gone are forgotten.
BroadcastsEnd == \A e \in Event : broadcast[e] = "locking" ~> broadcast[e] = "done"

GoneIsForgotten ==
  \A c \in Client : c \in broken ~> endpoint[c] = "gone" /\ ~Contains(connections, c)

=============================================================================
