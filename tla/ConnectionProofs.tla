-------------------------- MODULE ConnectionProofs --------------------------
(* Safety of Connections for any peers, addresses, connections and sends. *)
EXTENDS Connections, TLAPS

\* A send that sleeps has an attempt left, and a first contact something to
\* restore.
TaskInv ==
  \A t \in Task : /\ task[t].phase = "sleeping" => task[t].left > 1
                  /\ task[t].phase # "idle" /\ task[t].first => task[t].saved >= 1

\* What is noted for an address is the peer there, while it has a handler.
NotedHasHandler ==
  \A a \in Addr : /\ peerIds[a] \in {NoPeer, Owner[a]}
                  /\ peerIds[a] # NoPeer => \E c \in Open : addr[c] = a

\* Every neighbour is noted for some address.
NeighbourNoted == \A p \in neighbours : \E a \in Addr : peerIds[a] = p

\* Without overlaps one first contact at most holds all the retries.
OneKeepsRetries ==
  ~overlapped => /\ \A t, u \in FirstContacts : t = u
                 /\ \A t \in FirstContacts : task[t].saved = SendRetries
                 /\ FirstContacts = {} => sendRetries = SendRetries

Tables == RegisteredIsRead /\ NotedHasHandler /\ NeighbourNoted

IInv == ConnTypeOK /\ TaskInv /\ Tables /\ OneKeepsRetries

\* The initial state satisfies the invariant.
LEMMA InitIInv == Init => IInv
<1> SUFFICES ASSUME Init PROVE IInv
  OBVIOUS
<1>1. /\ NoSend \in Sending /\ NoSend.phase = "idle" /\ NoSend.saved = 0 /\ NoSend.left = 0
      /\ task = [t \in Task |-> NoSend]
  BY DEF Init, NoSend, Sending
<1>2. \A t \in Task : task[t].saved <= SendRetries /\ task[t].left <= SendRetries
  BY <1>1, ConnectionAssumption
<1>3. ConnTypeOK
  <2>1. sendRetries \in 1..SendRetries /\ task \in [Task -> Sending]
    BY <1>1, ConnectionAssumption DEF Init
  <2> QED BY <1>2, <2>1 DEF Init, ConnTypeOK
<1>4. TaskInv /\ FirstContacts = {}
  BY <1>1 DEF TaskInv, FirstContacts
<1>5. Tables
  BY DEF Init, Tables, RegisteredIsRead, NotedHasHandler, NeighbourNoted
<1> QED BY <1>3, <1>4, <1>5 DEF Init, IInv, OneKeepsRetries

---------------------------------------------------------------------------
(* Connections                                                           *)

\* A connection that opens at a, registered or not, and noted or not.
LEMMA OpenStep ==
  ASSUME ConnTypeOK, Tables, NEW c \in Conn, NEW a \in Addr, Fresh(c), Opened(c, a),
         UNCHANGED neighbours,
         clients' = clients \/ clients' = [clients EXCEPT ![a] = c],
         peerIds' = peerIds \/ peerIds' = [peerIds EXCEPT ![a] = Owner[a]]
  PROVE  Tables'
<1>1. c \notin Open /\ Open' = Open \cup {c} /\ addr'[c] = a
  BY DEF Fresh, Open, Opened, ConnTypeOK
<1>2. \A d \in Open : addr'[d] = addr[d] /\ d \in Open'
  BY <1>1 DEF Opened, ConnTypeOK, Open
<1>3. RegisteredIsRead'
  BY <1>1, <1>2 DEF Tables, RegisteredIsRead, ConnTypeOK
<1>4. NotedHasHandler'
  BY <1>1, <1>2 DEF Tables, NotedHasHandler, ConnTypeOK
<1>5. NeighbourNoted'
  <2>1. \A b \in Addr : peerIds[b] # NoPeer => peerIds'[b] = peerIds[b]
    BY DEF Tables, NotedHasHandler, ConnTypeOK
  <2>2. \A p \in neighbours : p # NoPeer
    BY ConnectionAssumption DEF ConnTypeOK
  <2> QED BY <2>1, <2>2 DEF Tables, NeighbourNoted
<1> QED BY <1>3, <1>4, <1>5 DEF Tables

\* What is forgotten of address a, and with it the peer noted for it; the
\* handler of one connection there may end.
LEMMA ForgetStep ==
  ASSUME ConnTypeOK, Tables, NEW a \in Addr,
         neighbours' = neighbours \ {peerIds[a]},
         clients' = [clients EXCEPT ![a] = NoConn],
         peerIds' = [peerIds EXCEPT ![a] = NoPeer],
         \A c \in Open : addr[c] # a => c \in Open' /\ addr'[c] = addr[c]
  PROVE  Tables'
<1>1. RegisteredIsRead'
  BY DEF Tables, RegisteredIsRead, ConnTypeOK
<1>2. NotedHasHandler'
  BY DEF Tables, NotedHasHandler, ConnTypeOK
<1>3. NeighbourNoted'
  BY DEF Tables, NeighbourNoted, ConnTypeOK
<1> QED BY <1>1, <1>2, <1>3 DEF Tables

\* Noting the peer at an address that has a handler.
LEMMA NoteStep ==
  ASSUME ConnTypeOK, Tables, NEW c \in Open, NEW a \in Addr, addr[c] = a,
         peerIds' = [peerIds EXCEPT ![a] = Owner[a]],
         neighbours' \subseteq neighbours \cup {Owner[a]},
         UNCHANGED <<clients, addr, handler>>
  PROVE  Tables'
<1>1. Open' = Open
  BY DEF Open
<1>2. RegisteredIsRead'
  BY <1>1 DEF Tables, RegisteredIsRead
<1>3. NotedHasHandler'
  BY <1>1 DEF Tables, NotedHasHandler, ConnTypeOK
<1>4. NeighbourNoted'
  <2> SUFFICES ASSUME NEW p \in neighbours' PROVE \E b \in Addr : peerIds'[b] = p
    BY DEF NeighbourNoted
  <2>1. CASE p = Owner[a]
    BY <2>1 DEF ConnTypeOK
  <2>2. CASE p \in neighbours /\ p # Owner[a]
    <3>1. PICK b \in Addr : peerIds[b] = p
      BY <2>2 DEF Tables, NeighbourNoted
    <3>2. p # NoPeer
      BY <2>2, ConnectionAssumption DEF ConnTypeOK
    <3>3. b # a
      BY <2>2, <3>1, <3>2 DEF Tables, NotedHasHandler
    <3> QED BY <3>1, <3>3 DEF ConnTypeOK
  <2> QED BY <2>1, <2>2
<1> QED BY <1>2, <1>3, <1>4 DEF Tables

---------------------------------------------------------------------------
(* Steps of connections                                                  *)

\* Steps that leave the sends alone.
LEMMA TasksAlone ==
  ASSUME IInv, UNCHANGED <<task, sendRetries, overlapped>>
  PROVE  TaskInv' /\ OneKeepsRetries'
  BY DEF IInv, TaskInv, OneKeepsRetries, FirstContacts

\* A peer connects, its handler starts, and reads who it is; a connection
\* breaks.
LEMMA ConnectionStep ==
  ASSUME IInv, NEW c \in Conn,
         (\E a \in Addr : Accept(c, a)) \/ HandlerStarts(c) \/ HandlePeerInfo(c) \/ Break(c)
  PROVE  IInv'
<1>0. ConnTypeOK /\ Tables
  BY DEF IInv
<1>1. ASSUME NEW a \in Addr, Accept(c, a) PROVE ConnTypeOK' /\ Tables'
  <2>1. ConnTypeOK'
    BY <1>0, <1>1, ConnectionAssumption DEF Accept, Opened, ConnTypeOK
  <2>2. Tables'
    BY <1>0, <1>1, OpenStep DEF Accept
  <2> QED BY <2>1, <2>2
<1>2. CASE HandlerStarts(c)
  <2>1. handler[c] = "starting" /\ addr[c] \in Addr /\ c \in Open /\ Open' = Open
    BY <1>0, <1>2 DEF HandlerStarts, ConnTypeOK, Open
  <2>2. ConnTypeOK'
    BY <1>0, <1>2, <2>1 DEF HandlerStarts, ConnTypeOK
  <2>3. RegisteredIsRead' /\ NotedHasHandler' /\ NeighbourNoted'
    BY <1>0, <1>2, <2>1
    DEF HandlerStarts, ConnTypeOK, Tables, RegisteredIsRead, NotedHasHandler, NeighbourNoted
  <2> QED BY <1>2, <2>2, <2>3, TasksAlone DEF HandlerStarts, IInv, Tables
<1>3. CASE HandlePeerInfo(c)
  <2>1. c \in Open /\ addr[c] \in Addr /\ Owner[addr[c]] \in Peer
    BY <1>0, <1>3, ConnectionAssumption DEF HandlePeerInfo, ConnTypeOK, Open
  <2>2. ConnTypeOK'
    BY <1>0, <1>3, <2>1 DEF HandlePeerInfo, ConnTypeOK
  <2>3. Tables'
    BY <1>0, <1>3, <2>1, NoteStep DEF HandlePeerInfo
  <2> QED BY <1>3, <2>2, <2>3, TasksAlone DEF HandlePeerInfo, IInv
<1>4. CASE Break(c)
  <2>1. ConnTypeOK'
    BY <1>0, <1>4 DEF Break, ConnTypeOK
  <2>2. Tables'
    BY <1>0, <1>4 DEF Break, Tables, RegisteredIsRead, NotedHasHandler, NeighbourNoted, Open
  <2> QED BY <1>4, <2>1, <2>2, TasksAlone DEF Break, IInv
<1> QED BY <1>1, <1>2, <1>3, <1>4, TasksAlone DEF IInv, Accept

\* The end of a handler, and the clean-up of idle connections.
LEMMA ForgettingStep ==
  ASSUME IInv, (\E c \in Conn : HandlerEnds(c)) \/ (\E a \in Addr : IdleCleanup(a))
  PROVE  IInv'
<1>0. ConnTypeOK /\ Tables
  BY DEF IInv
<1>1. ASSUME NEW c \in Conn, HandlerEnds(c) PROVE ConnTypeOK' /\ Tables'
  <2>1. addr[c] \in Addr
    BY <1>0, <1>1 DEF HandlerEnds, ConnTypeOK
  <2>2. ConnTypeOK'
    BY <1>0, <1>1, <2>1 DEF HandlerEnds, ConnTypeOK
  <2>3. \A d \in Open : addr[d] # addr[c] => d \in Open' /\ addr'[d] = addr[d]
    BY <1>0, <1>1 DEF HandlerEnds, ConnTypeOK, Open
  <2>4. Tables'
    BY <1>0, <1>1, <2>1, <2>3, ForgetStep DEF HandlerEnds
  <2> QED BY <2>2, <2>4
<1>2. ASSUME NEW a \in Addr, IdleCleanup(a) PROVE ConnTypeOK' /\ Tables'
  <2>1. ConnTypeOK'
    BY <1>0, <1>2 DEF IdleCleanup, Closed, ConnTypeOK
  <2>2. \A d \in Open : addr[d] # a => d \in Open' /\ addr'[d] = addr[d]
    BY <1>2 DEF IdleCleanup, Open
  <2>3. Tables'
    BY <1>0, <1>2, <2>2, ForgetStep DEF IdleCleanup
  <2> QED BY <2>1, <2>3
<1> QED BY <1>1, <1>2, TasksAlone DEF HandlerEnds, IdleCleanup, IInv

---------------------------------------------------------------------------
(* Steps of sends                                                        *)

\* One attempt: a send waits for a drain or a connection.
LEMMA AttemptStep ==
  ASSUME ConnTypeOK, Tables, NEW t \in Task, NEW s \in Sending, s.at \in Addr, Attempt(t, s),
         UNCHANGED <<clients, neighbours, connVars>>
  PROVE  /\ Tables'
         /\ peerIds' \in [Addr -> Peer \cup {NoPeer}]
         /\ \E r \in Sending : /\ task' = [task EXCEPT ![t] = r]
                               /\ r.phase \in {"connecting", "draining"}
                               /\ r.first = s.first /\ r.saved = s.saved /\ r.left = s.left
<1>0. UNCHANGED <<addr, handler, up, closing>> /\ Open' = Open
  BY DEF connVars, Open
<1>1. CASE clients[s.at] # NoConn /\ clients[s.at] \notin closing
  <2> DEFINE r == [s EXCEPT !.phase = "draining", !.conn = clients[s.at]]
  <2>1. /\ clients[s.at] \in Open /\ addr[clients[s.at]] = s.at
        /\ peerIds' = [peerIds EXCEPT ![s.at] = Owner[s.at]]
        /\ task' = [task EXCEPT ![t] = r]
    BY <1>1 DEF Attempt, Tables, RegisteredIsRead
  <2>2. Tables'
    BY <1>0, <2>1, NoteStep
  <2>3. r \in Sending /\ r.phase = "draining" /\ r.first = s.first /\ r.saved = s.saved /\ r.left = s.left
    BY DEF ConnTypeOK, Sending
  <2>4. peerIds' \in [Addr -> Peer \cup {NoPeer}]
    BY <2>1, ConnectionAssumption DEF ConnTypeOK
  <2> QED BY <2>1, <2>2, <2>3, <2>4
<1>2. CASE ~(clients[s.at] # NoConn /\ clients[s.at] \notin closing)
  <2> DEFINE r == [s EXCEPT !.phase = "connecting"]
  <2>1. task' = [task EXCEPT ![t] = r] /\ peerIds' = peerIds
    BY <1>2 DEF Attempt
  <2>2. r \in Sending /\ r.phase = "connecting" /\ r.first = s.first /\ r.saved = s.saved /\ r.left = s.left
    BY DEF Sending
  <2>3. Tables'
    BY <1>0, <2>1 DEF Tables, RegisteredIsRead, NotedHasHandler, NeighbourNoted
  <2> QED BY <2>1, <2>2, <2>3 DEF ConnTypeOK
<1> QED BY <1>1, <1>2

\* A send that goes on as it was, for what it is and has still to restore.
LEMMA GoesOn ==
  ASSUME IInv, NEW t \in Task, NEW r \in Sending,
         task' = [task EXCEPT ![t] = r], task[t].phase # "idle",
         r.phase \in {"connecting", "draining"} \/ (r.phase = "sleeping" /\ r.left > 1),
         r.first = task[t].first, r.saved = task[t].saved, r.left <= task[t].left,
         UNCHANGED <<sendRetries, overlapped>>
  PROVE  /\ task' \in [Task -> Sending]
         /\ \A u \in Task : task'[u].saved <= SendRetries /\ task'[u].left <= SendRetries
         /\ TaskInv' /\ OneKeepsRetries'
<1>1. task \in [Task -> Sending] /\ task'[t] = r /\ \A u \in Task : u # t => task'[u] = task[u]
  BY DEF IInv, ConnTypeOK
<1>2. FirstContacts' = FirstContacts /\ \A u \in Task : task'[u].saved = task[u].saved
  BY <1>1 DEF FirstContacts
<1>3. task[t].left \in Nat /\ r.left \in Nat /\ SendRetries \in Nat
  BY <1>1, ConnectionAssumption DEF Sending
<1>4. \A u \in Task : task'[u].saved <= SendRetries /\ task'[u].left <= SendRetries
  BY <1>1, <1>2, <1>3 DEF IInv, ConnTypeOK
<1>5. TaskInv'
  BY <1>1, <1>2 DEF IInv, TaskInv
<1>6. OneKeepsRetries'
  BY <1>2 DEF IInv, OneKeepsRetries, FirstContacts
<1> QED BY <1>1, <1>4, <1>5, <1>6

\* A send that is over has restored what it held.
LEMMA GoesIdle ==
  ASSUME IInv, NEW t \in Task, task' = Idle(t), sendRetries' = Restored(t), task[t].phase # "idle",
         UNCHANGED overlapped
  PROVE  /\ task' \in [Task -> Sending] /\ sendRetries' \in 1..SendRetries
         /\ \A u \in Task : task'[u].saved <= SendRetries /\ task'[u].left <= SendRetries
         /\ TaskInv' /\ OneKeepsRetries'
<1>1. NoSend \in Sending /\ NoSend.saved = 0 /\ NoSend.left = 0 /\ NoSend.phase = "idle" /\ ~NoSend.first
  BY DEF NoSend, Sending
<1>2. task \in [Task -> Sending] /\ task'[t] = NoSend /\ \A u \in Task : u # t => task'[u] = task[u]
  BY DEF Idle, IInv, ConnTypeOK
<1>3. task' \in [Task -> Sending]
  BY <1>1 DEF Idle, IInv, ConnTypeOK
<1>4. \A u \in Task : task'[u].saved <= SendRetries /\ task'[u].left <= SendRetries
  BY <1>1, <1>2, ConnectionAssumption DEF IInv, ConnTypeOK
<1>5. TaskInv'
  BY <1>1, <1>2 DEF IInv, TaskInv
<1>6. task[t].saved \in Nat /\ task[t].saved <= SendRetries /\ SendRetries \in Nat
  BY <1>2, ConnectionAssumption DEF IInv, ConnTypeOK, Sending
<1>7. sendRetries' \in 1..SendRetries
  <2>1. CASE task[t].first
    BY <1>6, <2>1 DEF Restored, IInv, TaskInv
  <2>2. CASE ~task[t].first
    BY <2>2 DEF Restored, IInv, ConnTypeOK
  <2> QED BY <2>1, <2>2
<1>8. FirstContacts' = FirstContacts \ {t}
  BY <1>1, <1>2 DEF FirstContacts
<1>9. OneKeepsRetries'
  <2> SUFFICES ASSUME ~overlapped
               PROVE  /\ \A u, v \in FirstContacts' : u = v
                      /\ \A u \in FirstContacts' : task'[u].saved = SendRetries
                      /\ FirstContacts' = {} => sendRetries' = SendRetries
    BY DEF OneKeepsRetries
  <2>1. /\ \A u, v \in FirstContacts : u = v
        /\ \A u \in FirstContacts : task[u].saved = SendRetries
        /\ FirstContacts = {} => sendRetries = SendRetries
    BY DEF IInv, OneKeepsRetries
  <2>2. CASE t \in FirstContacts
    BY <1>8, <2>1, <2>2 DEF FirstContacts, Restored
  <2>3. CASE t \notin FirstContacts
    <3>1. ~task[t].first /\ FirstContacts' = FirstContacts
      BY <1>2, <1>8, <2>3 DEF FirstContacts, Sending
    <3>2. \A u \in FirstContacts : task'[u] = task[u]
      BY <1>2, <2>3 DEF FirstContacts
    <3> QED BY <2>1, <3>1, <3>2 DEF Restored
  <2> QED BY <2>2, <2>3
<1> QED BY <1>3, <1>4, <1>5, <1>7, <1>9

\* A new send, also one that is a first contact.
LEMMA SendStep ==
  ASSUME IInv, NEW t \in Task, NEW a \in Addr, NEW first \in BOOLEAN, Send(t, a, first)
  PROVE  IInv'
<1> DEFINE s == [phase |-> "idle", at |-> a, first |-> first,
                 saved |-> IF first THEN sendRetries ELSE 0,
                 left |-> Lowered(first), conn |-> NoConn]
<1>0. /\ ConnTypeOK /\ Tables /\ sendRetries \in 1..SendRetries /\ SendRetries \in Nat \ {0}
      /\ task \in [Task -> Sending] /\ task[t].phase = "idle" /\ sendRetries' = Lowered(first)
  BY ConnectionAssumption DEF IInv, ConnTypeOK, Send
<1>1. Lowered(first) \in 1..SendRetries
  BY <1>0 DEF Lowered
<1>2. /\ s \in Sending /\ s.at = a /\ s.first = first /\ s.left = Lowered(first)
      /\ s.saved = (IF first THEN sendRetries ELSE 0)
  BY <1>0, <1>1 DEF Sending
<1>3. Attempt(t, s) /\ UNCHANGED <<clients, neighbours, connVars>>
  BY DEF Send
<1>4. overlapped' = (overlapped \/ (first /\ FirstContacts # {}))
  BY DEF Send
<1> HIDE DEF s
<1>5. /\ Tables' /\ peerIds' \in [Addr -> Peer \cup {NoPeer}]
      /\ \E r \in Sending : /\ task' = [task EXCEPT ![t] = r]
                            /\ r.phase \in {"connecting", "draining"}
                            /\ r.first = s.first /\ r.saved = s.saved /\ r.left = s.left
  BY <1>0, <1>2, <1>3, AttemptStep
<1>6. PICK r \in Sending : /\ task' = [task EXCEPT ![t] = r]
                           /\ r.phase \in {"connecting", "draining"}
                           /\ r.first = first /\ r.left = Lowered(first)
                           /\ r.saved = IF first THEN sendRetries ELSE 0
  BY <1>2, <1>5
<1>7. task' \in [Task -> Sending] /\ task'[t] = r /\ \A u \in Task : u # t => task'[u] = task[u]
  BY <1>0, <1>6
<1>8. \A u \in Task : task'[u].saved <= SendRetries /\ task'[u].left <= SendRetries
  BY <1>0, <1>1, <1>6, <1>7 DEF ConnTypeOK
<1>9. overlapped' \in BOOLEAN
  BY <1>0, <1>4 DEF ConnTypeOK
<1>10. ConnTypeOK'
  <2>1. UNCHANGED <<clients, neighbours, addr, handler, up, closing>>
    BY <1>3 DEF connVars
  <2> QED BY <1>0, <1>1, <1>5, <1>7, <1>8, <1>9, <2>1 DEF ConnTypeOK
<1>11. TaskInv'
  <2>1. r.phase # "sleeping" /\ (r.first => r.saved >= 1)
    BY <1>0, <1>6
  <2> QED BY <1>7, <2>1 DEF IInv, TaskInv
<1>12. OneKeepsRetries'
  <2>1. FirstContacts' = IF first THEN FirstContacts \cup {t} ELSE FirstContacts
    BY <1>0, <1>6, <1>7 DEF FirstContacts
  <2>2. t \notin FirstContacts
    BY <1>0 DEF FirstContacts
  <2> SUFFICES ASSUME ~overlapped'
               PROVE  /\ \A u, v \in FirstContacts' : u = v
                      /\ \A u \in FirstContacts' : task'[u].saved = SendRetries
                      /\ FirstContacts' = {} => sendRetries' = SendRetries
    BY DEF OneKeepsRetries
  <2>3. ~overlapped /\ (first => FirstContacts = {})
    BY <1>4
  <2>4. /\ \A u, v \in FirstContacts : u = v
        /\ \A u \in FirstContacts : task[u].saved = SendRetries
        /\ FirstContacts = {} => sendRetries = SendRetries
    BY <2>3 DEF IInv, OneKeepsRetries
  <2>5. CASE first
    BY <1>6, <1>7, <2>1, <2>3, <2>4, <2>5
  <2>6. CASE ~first
    <3>1. FirstContacts' = FirstContacts /\ sendRetries' = sendRetries
      BY <1>0, <2>1, <2>6 DEF Lowered
    <3>2. \A u \in FirstContacts : task'[u] = task[u]
      BY <1>7, <2>2 DEF FirstContacts
    <3> QED BY <2>4, <3>1, <3>2
  <2> QED BY <2>5, <2>6
<1> QED BY <1>5, <1>10, <1>11, <1>12 DEF IInv

\* A send that is under way is for an address.
ActiveHasAddr == \A t \in Task : task[t].phase # "idle" => task[t].at \in Addr

\* Another attempt.
LEMMA RetryStep ==
  ASSUME IInv, ActiveHasAddr, NEW t \in Task, Retry(t)
  PROVE  IInv'
<1> DEFINE s == [task[t] EXCEPT !.left = @ - 1]
<1>0. /\ ConnTypeOK /\ Tables /\ task[t] \in Sending /\ task[t].phase = "sleeping"
      /\ task[t].left > 1 /\ task[t].at \in Addr
  BY DEF IInv, ConnTypeOK, Retry, TaskInv, ActiveHasAddr
<1>1. /\ s \in Sending /\ s.at \in Addr /\ s.first = task[t].first /\ s.saved = task[t].saved
      /\ s.left <= task[t].left
  BY <1>0 DEF Sending
<1>2. Attempt(t, s) /\ UNCHANGED <<clients, neighbours, connVars, sendRetries, overlapped>>
  BY DEF Retry
<1> HIDE DEF s
<1>3. /\ Tables' /\ peerIds' \in [Addr -> Peer \cup {NoPeer}]
      /\ \E r \in Sending : /\ task' = [task EXCEPT ![t] = r]
                            /\ r.phase \in {"connecting", "draining"}
                            /\ r.first = s.first /\ r.saved = s.saved /\ r.left = s.left
  BY <1>0, <1>1, <1>2, AttemptStep
<1>4. /\ task' \in [Task -> Sending]
      /\ \A u \in Task : task'[u].saved <= SendRetries /\ task'[u].left <= SendRetries
      /\ TaskInv' /\ OneKeepsRetries'
  BY <1>0, <1>1, <1>2, <1>3, GoesOn
<1>5. ConnTypeOK'
  BY <1>0, <1>2, <1>3, <1>4 DEF ConnTypeOK, connVars
<1> QED BY <1>3, <1>4, <1>5 DEF IInv

\* The end of a wait: a connection is there, the data is out, or neither.
LEMMA OutcomeStep ==
  ASSUME IInv, ActiveHasAddr, NEW t \in Task,
         (\E c \in Conn : Connected(t, c)) \/ Drained(t) \/ Fail(t)
  PROVE  IInv'
<1>0. /\ ConnTypeOK /\ Tables /\ task[t] \in Sending /\ task[t].phase # "idle" /\ task[t].at \in Addr
  BY DEF IInv, ConnTypeOK, Connected, Drained, Fail, ActiveHasAddr
<1>1. ASSUME NEW c \in Conn, Connected(t, c) PROVE IInv'
  <2> DEFINE r == [task[t] EXCEPT !.phase = "draining", !.conn = c]
  <2>1. /\ r \in Sending /\ r.phase = "draining" /\ r.first = task[t].first
        /\ r.saved = task[t].saved /\ r.left = task[t].left /\ r.left <= task[t].left
    <3>1. task[t].left \in Nat
      BY <1>0 DEF Sending
    <3>2. /\ r \in Sending /\ r.phase = "draining" /\ r.first = task[t].first
          /\ r.saved = task[t].saved /\ r.left = task[t].left
      BY <1>0 DEF Sending
    <3>3. r.left <= task[t].left
      <4> HIDE DEF r
      <4> QED BY <3>1, <3>2
    <3> HIDE DEF r
    <3> QED BY <3>2, <3>3
  <2>2. task' = [task EXCEPT ![t] = r] /\ UNCHANGED <<neighbours, sendRetries, overlapped>>
    BY <1>1 DEF Connected
  <2> HIDE DEF r
  <2>3. /\ task' \in [Task -> Sending]
        /\ \A u \in Task : task'[u].saved <= SendRetries /\ task'[u].left <= SendRetries
        /\ TaskInv' /\ OneKeepsRetries'
    BY <1>0, <2>1, <2>2, GoesOn
  <2>4. /\ Fresh(c) /\ Opened(c, task[t].at)
        /\ clients' = [clients EXCEPT ![task[t].at] = c]
        /\ peerIds' = [peerIds EXCEPT ![task[t].at] = Owner[task[t].at]]
    BY <1>1 DEF Connected
  <2>5. Tables'
    BY <1>0, <2>2, <2>4, OpenStep
  <2>6. /\ addr' \in [Conn -> Addr \cup {NoAddr}] /\ up' \subseteq Conn /\ closing' \subseteq Conn
        /\ handler' \in [Conn -> {"none", "starting", "reading"}]
        /\ \A d \in Conn : handler'[d] = "none" <=> addr'[d] = NoAddr
    BY <1>0, <2>4, ConnectionAssumption DEF Opened, ConnTypeOK
  <2>7. /\ clients' \in [Addr -> Conn \cup {NoConn}] /\ peerIds' \in [Addr -> Peer \cup {NoPeer}]
    BY <1>0, <2>4, ConnectionAssumption DEF ConnTypeOK
  <2>8. ConnTypeOK'
    BY <1>0, <2>2, <2>3, <2>6, <2>7 DEF ConnTypeOK
  <2> QED BY <2>3, <2>5, <2>8 DEF IInv
<1>2. CASE Drained(t)
  <2>1. task' = Idle(t) /\ sendRetries' = Restored(t)
        /\ UNCHANGED <<clients, peerIds, neighbours, connVars, overlapped>>
    BY <1>2 DEF Drained
  <2>2. /\ task' \in [Task -> Sending] /\ sendRetries' \in 1..SendRetries
        /\ \A u \in Task : task'[u].saved <= SendRetries /\ task'[u].left <= SendRetries
        /\ TaskInv' /\ OneKeepsRetries'
    BY <1>0, <2>1, GoesIdle
  <2>3. ConnTypeOK' /\ Tables'
    BY <1>0, <2>1, <2>2
    DEF ConnTypeOK, connVars, Tables, RegisteredIsRead, NotedHasHandler, NeighbourNoted, Open
  <2> QED BY <2>2, <2>3 DEF IInv
<1>3. CASE Fail(t)
  <2>1. /\ clients' = [clients EXCEPT ![task[t].at] = NoConn]
        /\ closing' = Closed(clients[task[t].at])
        /\ UNCHANGED <<peerIds, neighbours, addr, handler, up, overlapped>>
    BY <1>3 DEF Fail
  <2>2. Tables'
    BY <1>0, <2>1
    DEF ConnTypeOK, Tables, RegisteredIsRead, NotedHasHandler, NeighbourNoted, Open
  <2>3. /\ task' \in [Task -> Sending] /\ sendRetries' \in 1..SendRetries
        /\ \A u \in Task : task'[u].saved <= SendRetries /\ task'[u].left <= SendRetries
        /\ TaskInv' /\ OneKeepsRetries'
    <3>1. CASE task[t].left > 1
      <4> DEFINE r == [task[t] EXCEPT !.phase = "sleeping", !.conn = NoConn]
      <4>1. /\ r \in Sending /\ r.phase = "sleeping" /\ r.first = task[t].first
            /\ r.saved = task[t].saved /\ r.left = task[t].left /\ r.left <= task[t].left
        <5>1. task[t].left \in Nat
          BY <1>0 DEF Sending
        <5>2. /\ r \in Sending /\ r.phase = "sleeping" /\ r.first = task[t].first
              /\ r.saved = task[t].saved /\ r.left = task[t].left
          BY <1>0 DEF Sending
        <5>3. r.left <= task[t].left
          <6> HIDE DEF r
          <6> QED BY <5>1, <5>2
        <5> HIDE DEF r
        <5> QED BY <5>2, <5>3
      <4>2. task' = [task EXCEPT ![t] = r] /\ UNCHANGED <<sendRetries, overlapped>>
        BY <1>3, <2>1, <3>1 DEF Fail
      <4> HIDE DEF r
      <4> QED BY <1>0, <3>1, <4>1, <4>2, GoesOn DEF ConnTypeOK
    <3>2. CASE ~(task[t].left > 1)
      BY <1>0, <1>3, <2>1, <3>2, GoesIdle DEF Fail
    <3> QED BY <3>1, <3>2
  <2>4. ConnTypeOK'
    BY <1>0, <2>1, <2>3 DEF ConnTypeOK, Closed
  <2> QED BY <2>2, <2>3, <2>4 DEF IInv
<1> QED BY <1>1, <1>2, <1>3

\* A send keeps its address.
LEMMA ActiveStep ==
  ASSUME IInv, ActiveHasAddr, [Next]_vars
  PROVE  ActiveHasAddr'
<1>0. task \in [Task -> Sending]
  BY DEF IInv, ConnTypeOK
<1>1. ASSUME NEW t \in Task, NEW s \in Sending, s.at \in Addr, Attempt(t, s) PROVE ActiveHasAddr'
  <2>1. \A u \in Task : u # t => task'[u] = task[u]
    BY <1>0, <1>1 DEF Attempt
  <2>2. task'[t].at = s.at
    <3>1. PICK r \in {[s EXCEPT !.phase = "draining", !.conn = clients[s.at]],
                      [s EXCEPT !.phase = "connecting"]} : task' = [task EXCEPT ![t] = r]
      BY <1>1 DEF Attempt
    <3>2. r.at = s.at
      BY DEF Sending
    <3> QED BY <1>0, <3>1, <3>2
  <2> QED BY <1>1, <2>1, <2>2 DEF ActiveHasAddr
<1>2. ASSUME NEW t \in Task, NEW a \in Addr, NEW first \in BOOLEAN, Send(t, a, first)
      PROVE  ActiveHasAddr'
  <2> DEFINE s == [phase |-> "idle", at |-> a, first |-> first,
                   saved |-> IF first THEN sendRetries ELSE 0,
                   left |-> Lowered(first), conn |-> NoConn]
  <2>1. s \in Sending /\ s.at = a
    BY ConnectionAssumption DEF Sending, Lowered, IInv, ConnTypeOK
  <2>2. Attempt(t, s)
    BY <1>2 DEF Send
  <2> HIDE DEF s
  <2> QED BY <1>1, <2>1, <2>2
<1>3. ASSUME NEW t \in Task, Retry(t) PROVE ActiveHasAddr'
  <2>1. task[t] \in Sending /\ task[t].left > 1 /\ task[t].at \in Addr
    BY <1>0, <1>3 DEF Retry, ActiveHasAddr, IInv, TaskInv
  <2>2. [task[t] EXCEPT !.left = @ - 1] \in Sending /\ [task[t] EXCEPT !.left = @ - 1].at \in Addr
    BY <2>1 DEF Sending
  <2> QED BY <1>1, <1>3, <2>2 DEF Retry
<1>4. ASSUME NEW t \in Task, NEW r, task' = [task EXCEPT ![t] = r],
             r = NoSend \/ (task[t].phase # "idle" /\ r.at = task[t].at)
      PROVE  ActiveHasAddr'
  <2>1. NoSend.phase = "idle"
    BY DEF NoSend
  <2> QED BY <1>0, <1>4, <2>1 DEF ActiveHasAddr
<1>5. ASSUME NEW t \in Task, (\E c \in Conn : Connected(t, c)) \/ Drained(t) \/ Fail(t)
      PROVE  ActiveHasAddr'
  <2>1. task[t] \in Sending /\ task[t].phase # "idle"
    BY <1>0, <1>5 DEF Connected, Drained, Fail
  <2>2. ASSUME NEW c \in Conn, Connected(t, c) PROVE ActiveHasAddr'
    <3>1. [task[t] EXCEPT !.phase = "draining", !.conn = c].at = task[t].at
      BY <2>1 DEF Sending
    <3> QED BY <1>4, <2>1, <2>2, <3>1 DEF Connected
  <2>3. ASSUME Drained(t) PROVE ActiveHasAddr'
    BY <1>4, <2>3 DEF Drained, Idle
  <2>4. ASSUME Fail(t) PROVE ActiveHasAddr'
    <3>1. [task[t] EXCEPT !.phase = "sleeping", !.conn = NoConn].at = task[t].at
      BY <2>1 DEF Sending
    <3> QED BY <1>4, <2>1, <2>4, <3>1 DEF Fail, Idle
  <2> QED BY <1>5, <2>2, <2>3, <2>4
<1>6. ASSUME UNCHANGED task PROVE ActiveHasAddr'
  BY <1>6 DEF ActiveHasAddr
<1> QED
  BY <1>2, <1>3, <1>5, <1>6
  DEF Next, vars, Accept, HandlerStarts, HandlerEnds, HandlePeerInfo, Break, IdleCleanup

\* Every step keeps the invariant.
LEMMA Step == IInv /\ ActiveHasAddr /\ [Next]_vars => IInv'
<1> SUFFICES ASSUME IInv, ActiveHasAddr, [Next]_vars PROVE IInv'
  OBVIOUS
<1>1. CASE UNCHANGED vars
  BY <1>1 DEF vars, connVars, IInv, ConnTypeOK, TaskInv, Tables, RegisteredIsRead, NotedHasHandler,
     NeighbourNoted, OneKeepsRetries, FirstContacts, Open
<1> QED BY <1>1, ConnectionStep, ForgettingStep, SendStep, RetryStep, OutcomeStep DEF Next

---------------------------------------------------------------------------
(* Theorems                                                              *)

\* The invariant holds in every behaviour.
THEOREM Invariant == Spec => [](IInv /\ ActiveHasAddr)
<1>1. Init => ActiveHasAddr
  <2>1. NoSend.phase = "idle"
    BY DEF NoSend
  <2> QED BY <2>1 DEF Init, ActiveHasAddr
<1> QED BY <1>1, InitIInv, Step, ActiveStep, PTL DEF Spec

\* Dictionaries, connections and sends stay well typed; no send has more
\* attempts than the server started with.
THEOREM ConnTypeCorrect == Spec => []ConnTypeOK
<1>1. IInv => ConnTypeOK
  BY DEF IInv
<1> QED BY <1>1, Invariant, PTL

\* Data is only written to connections that are read from.
THEOREM RegisteredRead == Spec => []RegisteredIsRead
<1>1. IInv => RegisteredIsRead
  BY DEF IInv, Tables
<1> QED BY <1>1, Invariant, PTL

\* Every neighbour is noted for an address with a handler, whose end takes
\* the neighbour's routes away.
THEOREM NeighboursHandled == Spec => []NeighbourHasHandler
<1>1. IInv => NeighbourHasHandler
  <2> SUFFICES ASSUME IInv, NEW p \in neighbours
               PROVE  \E a \in Addr : peerIds[a] = p /\ \E c \in Open : addr[c] = a
    BY DEF NeighbourHasHandler
  <2>1. PICK a \in Addr : peerIds[a] = p
    BY DEF IInv, Tables, NeighbourNoted
  <2>2. p # NoPeer
    BY ConnectionAssumption DEF IInv, ConnTypeOK
  <2> QED BY <2>1, <2>2 DEF IInv, Tables, NotedHasHandler
<1> QED BY <1>1, Invariant, PTL

\* As long as first contacts do not overlap, none of them costs the server
\* its retries.
THEOREM RetriesKept == Spec => []RetriesRestored
<1>1. IInv => RetriesRestored
  BY DEF IInv, OneKeepsRetries, RetriesRestored
<1> QED BY <1>1, Invariant, PTL

===========================================================================
