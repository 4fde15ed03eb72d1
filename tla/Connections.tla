---------------------------- MODULE Connections ----------------------------
(* The TCP connections of one peer: _clients, _peer_ids and the handlers  *)
(* of class Server, its send with its retries, and the first contact of   *)
(* UDPBroadcastProtocol (app/server.py).                                  *)
(*                                                                        *)
(* Everything between two awaits is one step. Two sends can be connecting *)
(* to one address at once, so an address can have two connections, but    *)
(* only one entry in each dictionary.                                     *)
EXTENDS Naturals

CONSTANTS
  Peer,         \* the other peers
  Addr,         \* addresses: servers of peers, and ends of connections they open
  Server,       \* the addresses among them peers listen at
  Owner,        \* Owner[a]: the peer at address a
  Conn,         \* bound: connections at a time
  Task,         \* bound: sends at a time
  SendRetries,  \* send_retries
  NoConn, NoPeer, NoAddr

ASSUME ConnectionAssumption ==
  /\ Server \subseteq Addr /\ Owner \in [Addr -> Peer]
  /\ SendRetries \in Nat \ {0}
  /\ NoConn \notin Conn /\ NoPeer \notin Peer /\ NoAddr \notin Addr

VARIABLES
  clients,      \* clients[a]: _clients, the connection written to at a
  peerIds,      \* peerIds[a]: _peer_ids, the peer at a
  neighbours,   \* peers with a direct row in the routing table
  addr,         \* addr[c]: the address of connection c, while it has a handler
  handler,      \* handler[c]: where handle_request is with c
  up,           \* connections that can still carry data
  closing,      \* connections whose writer is_closing
  task,         \* task[t]: a send in progress
  sendRetries,  \* send_retries of the server
  overlapped    \* whether two first contacts were ever under way at once

connVars == <<addr, handler, up, closing>>
vars == <<clients, peerIds, neighbours, connVars, task, sendRetries, overlapped>>

\* first, saved: a first contact, and the send_retries it is to restore.
\* left: attempts left, this one included. conn: what a drain waits for.
Sending == [phase : {"idle", "connecting", "draining", "sleeping"}, at : Addr \cup {NoAddr},
            first : BOOLEAN, saved : Nat, left : Nat, conn : Conn \cup {NoConn}]

NoSend == [phase |-> "idle", at |-> NoAddr, first |-> FALSE, saved |-> 0, left |-> 0,
           conn |-> NoConn]

ConnTypeOK ==
  /\ clients \in [Addr -> Conn \cup {NoConn}]
  /\ peerIds \in [Addr -> Peer \cup {NoPeer}]
  /\ neighbours \subseteq Peer
  /\ addr \in [Conn -> Addr \cup {NoAddr}]
  /\ handler \in [Conn -> {"none", "starting", "reading"}]
  /\ \A c \in Conn : handler[c] = "none" <=> addr[c] = NoAddr
  /\ up \subseteq Conn /\ closing \subseteq Conn
  /\ task \in [Task -> Sending]
  /\ sendRetries \in 1..SendRetries
  /\ \A t \in Task : task[t].saved <= SendRetries /\ task[t].left <= SendRetries
  /\ overlapped \in BOOLEAN

Init ==
  /\ clients = [a \in Addr |-> NoConn] /\ peerIds = [a \in Addr |-> NoPeer]
  /\ neighbours = {}
  /\ addr = [c \in Conn |-> NoAddr]
  /\ handler = [c \in Conn |-> "none"]
  /\ up = {} /\ closing = {}
  /\ task = [t \in Task |-> NoSend]
  /\ sendRetries = SendRetries
  /\ overlapped = FALSE

---------------------------------------------------------------------------
(* Connections and their handlers                                        *)

Open == {c \in Conn : handler[c] # "none"}

Fresh(c) == c \notin Open /\ \A t \in Task : task[t].conn # c

\* The connection exists and its handler is scheduled.
Opened(c, a) ==
  /\ addr' = [addr EXCEPT ![c] = a]
  /\ handler' = [handler EXCEPT ![c] = "starting"]
  /\ up' = up \cup {c}
  /\ closing' = closing \ {c}

\* A peer connects, from an address of its own.
Accept(c, a) ==
  /\ Fresh(c) /\ a \in Addr \ Server
  /\ \A d \in Open : addr[d] # a
  /\ Opened(c, a)
  /\ UNCHANGED <<clients, peerIds, neighbours, task, sendRetries, overlapped>>

\* handle_request registers its connection, over any other at the address.
HandlerStarts(c) ==
  /\ handler[c] = "starting"
  /\ handler' = [handler EXCEPT ![c] = "reading"]
  /\ clients' = [clients EXCEPT ![addr[c]] = c]
  /\ UNCHANGED <<peerIds, neighbours, addr, up, closing, task, sendRetries,
                 overlapped>>

\* _handle_peer_info: the neighbour and its address are noted together. A
\* PEER_INFO may have been received before the connection broke.
HandlePeerInfo(c) ==
  /\ handler[c] = "reading"
  /\ neighbours' = neighbours \cup {Owner[addr[c]]}
  /\ peerIds' = [peerIds EXCEPT ![addr[c]] = Owner[addr[c]]]
  /\ UNCHANGED <<clients, addr, handler, up, closing, task, sendRetries, overlapped>>

\* The network or the other end breaks the connection.
Break(c) ==
  /\ c \in Open \cap up
  /\ up' = up \ {c}
  /\ UNCHANGED <<clients, peerIds, neighbours, addr, handler, closing, task,
                 sendRetries, overlapped>>

\* Fault: the address is forgotten before it is looked up.
HandlerEndsUnbound(c) ==
  /\ handler[c] = "reading" /\ (c \notin up \/ c \in closing)
  /\ handler' = [handler EXCEPT ![c] = "none"] /\ addr' = [addr EXCEPT ![c] = NoAddr]
  /\ clients' = [clients EXCEPT ![addr[c]] = NoConn]
  /\ peerIds' = [peerIds EXCEPT ![addr[c]] = NoPeer]
  /\ up' = up \ {c} /\ closing' = closing \ {c}
  /\ UNCHANGED <<neighbours, task, sendRetries, overlapped>>

\* Fault: the connection stays registered.
HandlerEndsRegistered(c) ==
  /\ handler[c] = "reading" /\ (c \notin up \/ c \in closing)
  /\ handler' = [handler EXCEPT ![c] = "none"] /\ addr' = [addr EXCEPT ![c] = NoAddr]
  /\ neighbours' = neighbours \ {peerIds[addr[c]]}
  /\ peerIds' = [peerIds EXCEPT ![addr[c]] = NoPeer]
  /\ up' = up \ {c} /\ closing' = closing \ {c}
  /\ UNCHANGED <<clients, task, sendRetries, overlapped>>

\* The read loop ends, by an error, an end of file or its timeout. The
\* finally block forgets what is registered at the address, whichever
\* connection that is. What came before the end may be left unread.
HandlerEnds(c) ==
  /\ handler[c] = "reading" /\ (c \notin up \/ c \in closing)
  /\ handler' = [handler EXCEPT ![c] = "none"] /\ addr' = [addr EXCEPT ![c] = NoAddr]
  /\ neighbours' = neighbours \ {peerIds[addr[c]]}
  /\ clients' = [clients EXCEPT ![addr[c]] = NoConn]
  /\ peerIds' = [peerIds EXCEPT ![addr[c]] = NoPeer]
  /\ up' = up \ {c} /\ closing' = closing \ {c}
  /\ UNCHANGED <<task, sendRetries, overlapped>>

Closed(c) == closing \cup ({c} \cap Conn)

\* Fault: the routes of an idle peer stay.
IdleKeepsRoutes(a) ==
  /\ clients[a] # NoConn
  /\ clients' = [clients EXCEPT ![a] = NoConn]
  /\ peerIds' = [peerIds EXCEPT ![a] = NoPeer]
  /\ closing' = Closed(clients[a])
  /\ UNCHANGED <<neighbours, addr, handler, up, task, sendRetries, overlapped>>

\* _idle_cleanup_loop finds nothing was read or written at a for long.
IdleCleanup(a) ==
  /\ clients[a] # NoConn
  /\ neighbours' = neighbours \ {peerIds[a]}
  /\ clients' = [clients EXCEPT ![a] = NoConn]
  /\ peerIds' = [peerIds EXCEPT ![a] = NoPeer]
  /\ closing' = Closed(clients[a])
  /\ UNCHANGED <<addr, handler, up, task, sendRetries, overlapped>>

---------------------------------------------------------------------------
(* Sends                                                                 *)

FirstContacts == {t \in Task : task[t].phase # "idle" /\ task[t].first}

\* An attempt of send, up to its first await: to write to the registered
\* connection unless it is closing, or to open one.
Attempt(t, s) ==
  LET c == clients[s.at]
  IN  IF c # NoConn /\ c \notin closing
        THEN /\ peerIds' = [peerIds EXCEPT ![s.at] = Owner[s.at]]
             /\ task' = [task EXCEPT ![t] = [s EXCEPT !.phase = "draining", !.conn = c]]
        ELSE /\ task' = [task EXCEPT ![t] = [s EXCEPT !.phase = "connecting"]]
             /\ UNCHANGED peerIds

Lowered(first) == IF first THEN 1 ELSE sendRetries

\* A HELLO, or anything to be sent to a peer with a route. A peer without
\* one is tried once, by way of the shared send_retries.
Send(t, a, first) ==
  /\ task[t].phase = "idle" /\ a \in Server
  /\ first => Owner[a] \notin neighbours
  /\ sendRetries' = Lowered(first)
  /\ Attempt(t, [phase |-> "idle", at |-> a, first |-> first,
                 saved |-> IF first THEN sendRetries ELSE 0,
                 left |-> Lowered(first), conn |-> NoConn])
  /\ overlapped' = (overlapped \/ (first /\ FirstContacts # {}))
  /\ UNCHANGED <<clients, neighbours, connVars>>

\* Fault: an attempt that failed does not count.
RetryUncounted(t) ==
  /\ task[t].phase = "sleeping"
  /\ Attempt(t, task[t])
  /\ UNCHANGED <<clients, neighbours, connVars, sendRetries, overlapped>>

\* After retry_delay.
Retry(t) ==
  /\ task[t].phase = "sleeping"
  /\ Attempt(t, [task[t] EXCEPT !.left = @ - 1])
  /\ UNCHANGED <<clients, neighbours, connVars, sendRetries, overlapped>>

\* _connect succeeds: the connection is registered and written to.
Connected(t, c) ==
  /\ task[t].phase = "connecting" /\ Fresh(c)
  /\ Opened(c, task[t].at)
  /\ clients' = [clients EXCEPT ![task[t].at] = c]
  /\ peerIds' = [peerIds EXCEPT ![task[t].at] = Owner[task[t].at]]
  /\ task' = [task EXCEPT ![t] = [@ EXCEPT !.phase = "draining", !.conn = c]]
  /\ UNCHANGED <<neighbours, sendRetries, overlapped>>

Idle(t) == [task EXCEPT ![t] = NoSend]

Restored(t) == IF task[t].first THEN task[t].saved ELSE sendRetries

Drained(t) ==
  /\ task[t].phase = "draining"
  /\ task' = Idle(t) /\ sendRetries' = Restored(t)
  /\ UNCHANGED <<clients, peerIds, neighbours, connVars, overlapped>>

\* Fault: send_retries is not restored after an error.
FailUnrestored(t) ==
  /\ \/ task[t].phase = "connecting"
     \/ task[t].phase = "draining" /\ (task[t].conn \notin up \/ task[t].conn \in closing)
  /\ closing' = Closed(clients[task[t].at])
  /\ clients' = [clients EXCEPT ![task[t].at] = NoConn]
  /\ task' = IF task[t].left > 1
               THEN [task EXCEPT ![t] = [@ EXCEPT !.phase = "sleeping", !.conn = NoConn]]
               ELSE Idle(t)
  /\ UNCHANGED <<peerIds, neighbours, addr, handler, up, sendRetries, overlapped>>

\* The connect or the drain fails. Whatever is registered at the address by
\* then is closed and dropped, and its entry in _peer_ids left.
\* Left out: the pause after the last attempt, when an overlapping first
\* contact has raised send_retries in the meantime.
Fail(t) ==
  /\ \/ task[t].phase = "connecting"
     \/ task[t].phase = "draining" /\ (task[t].conn \notin up \/ task[t].conn \in closing)
  /\ closing' = Closed(clients[task[t].at])
  /\ clients' = [clients EXCEPT ![task[t].at] = NoConn]
  /\ IF task[t].left > 1
       THEN /\ task' = [task EXCEPT ![t] = [@ EXCEPT !.phase = "sleeping", !.conn = NoConn]]
            /\ UNCHANGED sendRetries
       ELSE task' = Idle(t) /\ sendRetries' = Restored(t)
  /\ UNCHANGED <<peerIds, neighbours, addr, handler, up, overlapped>>

Next ==
  \/ \E c \in Conn, a \in Addr : Accept(c, a)
  \/ \E c \in Conn : \/ HandlerStarts(c) \/ HandlerEnds(c)
                     \/ HandlePeerInfo(c) \/ Break(c)
  \/ \E a \in Addr : IdleCleanup(a)
  \/ \E t \in Task, a \in Addr, first \in BOOLEAN : Send(t, a, first)
  \/ \E t \in Task : \/ Retry(t) \/ Drained(t) \/ Fail(t)
                     \/ \E c \in Conn : Connected(t, c)

Spec == Init /\ [][Next]_vars

\* Handlers start, those of broken connections end, and sends come to an
\* end.
Fairness ==
  /\ \A c \in Conn : WF_vars(HandlerStarts(c)) /\ WF_vars(HandlerEnds(c))
  /\ \A t \in Task : /\ WF_vars(Retry(t))
                     /\ WF_vars(Drained(t) \/ Fail(t) \/ \E c \in Conn : Connected(t, c))

FairSpec == Spec /\ Fairness

---------------------------------------------------------------------------
(* Properties                                                            *)

\* A neighbour is the peer noted for an address with a handler, whose end
\* will take its routes away: no interleaving of connections, sends and
\* clean-ups leaves a neighbour that nothing removes.
NeighbourHasHandler ==
  \A p \in neighbours : \E a \in Addr : peerIds[a] = p /\ \E c \in Open : addr[c] = a

\* What is written goes to a connection that is read from, and to the
\* address meant.
RegisteredIsRead ==
  \A a \in Addr : clients[a] # NoConn => clients[a] \in Open /\ addr[clients[a]] = a

\* Once a first contact is over, sends have all their retries again,
\* unless two first contacts were ever under way at once: the second saves
\* the value the first has lowered.
RetriesRestored == FirstContacts = {} /\ ~overlapped => sendRetries = SendRetries

\* A peer that no connection reaches any more is at last no neighbour.
DepartedForgotten ==
  \A p \in Peer :
    <>[](\A c \in Open \cap up : Owner[addr[c]] # p) => <>[](p \notin neighbours)

\* Every send comes to an end.
SendsEnd == \A t \in Task : []<>(task[t].phase = "idle")

===========================================================================
