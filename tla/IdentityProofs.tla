--------------------------- MODULE IdentityProofs ---------------------------
(* Safety of Identity for any hosts, losses and packets.                 *)
EXTENDS Identity, SequenceTheorems, TLAPS

\* Nobody has heard of h, nor is about to tell it anything.
Unheard(h) ==
  /\ \A m \in hello : m.at # h
  /\ \A m \in info : m.to # h /\ m.at # h
  /\ \A k \in known : k[1] # h /\ k[2] # h

\* A node without a row is silent and unheard of; the first row is its own.
OwnUser(h) ==
  /\ users[h] = <<>> => peerId[h] = NoId /\ Unheard(h)
  /\ users[h] # <<>> => maker[Head(users[h])] = h /\ peerId[h] = Head(users[h])

Kept == \A h \in Host \ lost : OwnUser(h)

\* Every peer_id in use was generated.
Made ==
  /\ \A h \in Host : peerId[h] # NoId => peerId[h] \in DOMAIN maker
  /\ \A m \in info : m.id \in DOMAIN maker

IInv == IdTypeOK /\ Made /\ Kept

---------------------------------------------------------------------------
(* The table                                                             *)

\* A row that is new is the last one.
LEMMA NewRow ==
  ASSUME NEW s \in Seq(Id), NEW i \in Id
  PROVE  /\ Append(s, i) \in Seq(Id) /\ Append(s, i) # <<>>
         /\ Range(Append(s, i)) = Range(s) \cup {i}
         /\ s # <<>> => Head(Append(s, i)) = Head(s)
         /\ s = <<>> => Head(Append(s, i)) = i
<1>1. Append(s, i) \in Seq(Id) /\ Append(s, i) # <<>>
  BY AppendProperties
<1>2. Range(Append(s, i)) = Range(s) \cup {i}
  <2>1. /\ DOMAIN Append(s, i) = 1..(Len(s) + 1) /\ DOMAIN s = 1..Len(s) /\ Len(s) \in Nat
        /\ \A k \in 1..Len(s) : Append(s, i)[k] = s[k]
        /\ Append(s, i)[Len(s) + 1] = i
    OBVIOUS
  <2>2. \A k \in 1..(Len(s) + 1) : k \in 1..Len(s) \/ k = Len(s) + 1
    BY <2>1
  <2>3. 1..Len(s) \subseteq 1..(Len(s) + 1) /\ Len(s) + 1 \in 1..(Len(s) + 1)
    BY <2>1
  <2> QED BY <2>1, <2>2, <2>3 DEF Range
<1>3. s # <<>> => Head(Append(s, i)) = Head(s)
  OBVIOUS
<1>4. s = <<>> => Head(Append(s, i)) = i
  OBVIOUS
<1> QED BY <1>1, <1>2, <1>3, <1>4

\* Saving a peer in a table.
LEMMA SaveUser ==
  ASSUME IdTypeOK, NEW h \in Host, NEW i \in DOMAIN maker, users' = WithUser(h, i)
  PROVE  /\ users' \in [Host -> Seq(Id)]
         /\ \A g \in Host : Range(users'[g]) \subseteq DOMAIN maker
         /\ \A g \in Host : g # h => users'[g] = users[g]
         /\ users[h] # <<>> => users'[h] # <<>> /\ Head(users'[h]) = Head(users[h])
<1>1. i \in Id /\ users[h] \in Seq(Id)
  BY DEF IdTypeOK
<1>2. CASE users' = users
  BY <1>2 DEF IdTypeOK
<1>3. CASE users' = [users EXCEPT ![h] = Append(@, i)]
  <2>1. users'[h] = Append(users[h], i) /\ \A g \in Host : g # h => users'[g] = users[g]
    BY <1>3 DEF IdTypeOK
  <2>2. Append(users[h], i) \in Seq(Id)
    BY <1>1, NewRow
  <2>3. users' \in [Host -> Seq(Id)]
    BY <1>3, <2>2 DEF IdTypeOK
  <2>4. /\ Range(Append(users[h], i)) = Range(users[h]) \cup {i}
        /\ Append(users[h], i) # <<>>
        /\ users[h] # <<>> => Head(Append(users[h], i)) = Head(users[h])
    BY <1>1, NewRow
  <2>5. \A g \in Host : Range(users'[g]) \subseteq DOMAIN maker
    BY <2>1, <2>4 DEF IdTypeOK
  <2> QED BY <2>1, <2>3, <2>4, <2>5
<1> QED BY <1>2, <1>3 DEF WithUser

\* A row that names its node.
LEMMA FirstRow ==
  ASSUME IdTypeOK, NEW h \in Host, users[h] # <<>>
  PROVE  Head(users[h]) \in DOMAIN maker
<1>1. users[h] \in Seq(Id)
  BY DEF IdTypeOK
<1>2. Head(users[h]) = users[h][1] /\ 1 \in DOMAIN users[h]
  BY <1>1
<1> QED BY <1>2 DEF IdTypeOK, Range

---------------------------------------------------------------------------
(* Steps                                                                 *)

\* Registration makes the only row, with a peer_id nobody has.
LEMMA RegisterStep ==
  ASSUME IInv, NEW h \in Host, Register(h)
  PROVE  IInv'
<1>1. PICK i \in Id \ DOMAIN maker :
        /\ maker' = [j \in DOMAIN maker \cup {i} |-> IF j = i THEN h ELSE maker[j]]
        /\ users' = WithUser(h, i)
        /\ peerId' = [peerId EXCEPT ![h] = i]
  BY DEF Register
<1>2. users[h] = <<>>
  <2>1. users[h] # <<>> => Head(users[h]) \in Id
    BY FirstRow DEF IInv, IdTypeOK
  <2> QED BY <2>1, IdentityAssumption DEF Register, CurrentUser
<1>3. UNCHANGED <<hello, info, known, lost>>
  BY DEF Register
<1>4. i \notin Range(users[h])
  BY <1>1 DEF IInv, IdTypeOK
<1>5. users' = [users EXCEPT ![h] = Append(@, i)]
  BY <1>1, <1>4 DEF WithUser
<1>6. /\ users'[h] = Append(users[h], i) /\ peerId'[h] = i
      /\ \A g \in Host : g # h => users'[g] = users[g] /\ peerId'[g] = peerId[g]
  BY <1>1, <1>5 DEF IInv, IdTypeOK
<1>7. users[h] \in Seq(Id)
  BY DEF IInv, IdTypeOK
<1>8. /\ users'[h] \in Seq(Id) /\ users'[h] # <<>> /\ Head(users'[h]) = i
      /\ Range(users'[h]) = Range(users[h]) \cup {i}
  <2>1. /\ Append(users[h], i) \in Seq(Id) /\ Append(users[h], i) # <<>>
        /\ Range(Append(users[h], i)) = Range(users[h]) \cup {i}
        /\ Head(Append(users[h], i)) = i
    BY <1>1, <1>2, <1>7, NewRow
  <2> QED BY <1>6, <2>1
<1>9. /\ DOMAIN maker' = DOMAIN maker \cup {i} /\ maker' \in [DOMAIN maker' -> Host]
      /\ maker'[i] = h /\ \A j \in DOMAIN maker : maker'[j] = maker[j]
  BY <1>1 DEF IInv, IdTypeOK
<1>10. IdTypeOK'
  <2>1. users' \in [Host -> Seq(Id)] /\ peerId' \in [Host -> Id \cup {NoId}]
    BY <1>1, <1>5, <1>6, <1>8 DEF IInv, IdTypeOK
  <2>2. \A g \in Host : Range(users'[g]) \subseteq DOMAIN maker'
    BY <1>6, <1>8, <1>9 DEF IInv, IdTypeOK
  <2> QED BY <1>1, <1>3, <1>9, <2>1, <2>2 DEF IInv, IdTypeOK
<1>11. ASSUME NEW g \in Host \ lost PROVE OwnUser(g)'
  <2>1. CASE g = h
    BY <1>6, <1>8, <1>9, <2>1 DEF OwnUser
  <2>2. CASE g # h
    <3>1. users'[g] = users[g] /\ peerId'[g] = peerId[g] /\ OwnUser(g)
      BY <1>6, <2>2 DEF IInv, Kept
    <3>2. users[g] # <<>> => maker'[Head(users[g])] = maker[Head(users[g])]
      BY <1>9, FirstRow DEF IInv
    <3> QED BY <1>3, <3>1, <3>2 DEF OwnUser, Unheard
  <2> QED BY <2>1, <2>2
<1>12. Made'
  BY <1>3, <1>6, <1>9 DEF IInv, Made
<1> QED BY <1>3, <1>10, <1>11, <1>12 DEF IInv, Kept

\* Only nodes with a row of their own are heard.
LEMMA BroadcastStep ==
  ASSUME IInv, NEW h \in Host, Broadcast(h)
  PROVE  IInv'
<1>1. PICK g \in Host \ {h} : hello' = hello \cup {[id |-> peerId[h], at |-> h, to |-> g]}
  BY DEF Broadcast
<1>2. /\ peerId[h] \in Id /\ peerId[h] # NoId
      /\ UNCHANGED <<users, peerId, maker, info, known, lost>>
  BY DEF Broadcast, IInv, IdTypeOK
<1>3. IdTypeOK'
  BY <1>1, <1>2 DEF IInv, IdTypeOK, Hello
<1>4. ASSUME NEW o \in Host \ lost PROVE OwnUser(o)'
  <2>1. OwnUser(o)
    BY DEF IInv, Kept
  <2>2. users[o] = <<>> => o # h
    BY <1>2, <2>1 DEF OwnUser
  <2> QED BY <1>1, <1>2, <2>1, <2>2 DEF OwnUser, Unheard
<1>5. Made'
  BY <1>1, <1>2 DEF IInv, Made
<1> QED BY <1>2, <1>3, <1>4, <1>5 DEF IInv, Kept

\* Only nodes that were heard are answered.
LEMMA HelloStep ==
  ASSUME IInv, NEW m \in hello, HandleHello(m)
  PROVE  IInv'
<1>1. info' = info \cup {[id |-> peerId[m.to], at |-> m.to, to |-> m.at]}
  BY DEF HandleHello
<1>2. /\ m.to \in Host /\ m.at \in Host /\ peerId[m.to] \in Id /\ peerId[m.to] # NoId
      /\ UNCHANGED <<users, peerId, maker, hello, known, lost>>
  BY DEF HandleHello, IInv, IdTypeOK, Hello
<1>3. IdTypeOK'
  BY <1>1, <1>2 DEF IInv, IdTypeOK, PeerInfo
<1>4. ASSUME NEW o \in Host \ lost PROVE OwnUser(o)'
  <2>1. OwnUser(o)
    BY DEF IInv, Kept
  <2>2. users[o] = <<>> => o # m.to /\ o # m.at
    BY <1>2, <2>1 DEF OwnUser, Unheard
  <2> QED BY <1>1, <1>2, <2>1, <2>2 DEF OwnUser, Unheard
<1>5. Made'
  BY <1>1, <1>2 DEF IInv, Made
<1> QED BY <1>2, <1>3, <1>4, <1>5 DEF IInv, Kept

\* Saving i at h, where h has a row already unless it is not to be trusted.
LEMMA SaveStep ==
  ASSUME IInv, NEW h \in Host, NEW i \in DOMAIN maker,
         users' = WithUser(h, i) \/ UNCHANGED users,
         h \notin lost => users[h] # <<>>,
         UNCHANGED <<peerId, maker, hello, lost>>,
         info' \subseteq info, known' \subseteq Host \X Host,
         \A k \in known' \ known :
           \A g \in {k[1], k[2]} : g \notin lost => users[g] # <<>>
  PROVE  IInv'
<1>1. /\ users' \in [Host -> Seq(Id)]
      /\ \A g \in Host : Range(users'[g]) \subseteq DOMAIN maker
      /\ \A g \in Host : g # h => users'[g] = users[g]
      /\ users[h] # <<>> => users'[h] # <<>> /\ Head(users'[h]) = Head(users[h])
  BY SaveUser DEF IInv, IdTypeOK
<1>2. IdTypeOK' /\ Made'
  BY <1>1 DEF IInv, IdTypeOK, Made
<1>3. ASSUME NEW g \in Host \ lost PROVE OwnUser(g)'
  <2>1. OwnUser(g)
    BY DEF IInv, Kept
  <2>2. CASE users[g] # <<>>
    BY <1>1, <2>1, <2>2 DEF OwnUser
  <2>3. CASE users[g] = <<>>
    <3>1. users'[g] = users[g]
      BY <1>1, <2>3
    <3>2. \A k \in known' : k[1] # g /\ k[2] # g
      BY <2>1, <2>3 DEF OwnUser, Unheard
    <3> QED BY <2>1, <2>3, <3>1, <3>2 DEF OwnUser, Unheard
  <2> QED BY <2>2, <2>3
<1> QED BY <1>2, <1>3 DEF IInv, Kept

\* PEER_INFO goes to nodes that were heard, from nodes that were.
LEMMA PeerInfoStep ==
  ASSUME IInv, NEW m \in info, HandlePeerInfo(m)
  PROVE  IInv'
<1>1. m.to \in Host /\ m.at \in Host /\ m.id \in DOMAIN maker
  BY DEF IInv, IdTypeOK, Made, PeerInfo
<1>2. /\ info' \subseteq info /\ UNCHANGED <<peerId, maker, hello, lost>>
      /\ users' = WithUser(m.to, m.id) \/ UNCHANGED users
      /\ known' \subseteq known \cup {<<m.to, m.at>>}
  BY DEF HandlePeerInfo
<1>3. \A g \in {m.to, m.at} : g \notin lost => users[g] # <<>>
  BY <1>1 DEF IInv, Kept, OwnUser, Unheard
<1>4. known' \subseteq Host \X Host
  BY <1>1, <1>2 DEF IInv, IdTypeOK
<1>5. \A k \in known' \ known : k[1] = m.to /\ k[2] = m.at
  BY <1>2
<1> QED BY <1>1, <1>2, <1>3, <1>4, <1>5, SaveStep

\* So does a keepalive.
LEMMA KeepaliveStep ==
  ASSUME IInv, NEW h \in Host, NEW g \in Host, Keepalive(h, g)
  PROVE  IInv'
<1>1. peerId[h] \in DOMAIN maker /\ <<h, g>> \in known
  BY DEF Keepalive, IInv, Made
<1>2. /\ UNCHANGED <<peerId, maker, hello, info, lost>>
      /\ users' = WithUser(g, peerId[h]) \/ UNCHANGED users
      /\ known' = known \cup {<<g, h>>}
  BY DEF Keepalive
<1>3. \A o \in {g, h} : o \notin lost => users[o] # <<>>
  <2>1. \A o \in {g, h} : ~Unheard(o)
    BY <1>1 DEF Unheard
  <2> QED BY <2>1 DEF IInv, Kept, OwnUser
<1>4. known' \subseteq Host \X Host
  BY <1>2 DEF IInv, IdTypeOK
<1>5. \A k \in known' \ known : k[1] = g /\ k[2] = h
  BY <1>2
<1> QED BY <1>1, <1>2, <1>3, <1>4, <1>5, SaveStep

\* A process that is replaced, with its database or without.
LEMMA ProcessStep ==
  ASSUME IInv, NEW h \in Host, Restart(h) \/ LoseDatabase(h)
  PROVE  IInv'
<1>1. known' \subseteq known /\ UNCHANGED <<maker, hello, info>>
  BY DEF Restart, LoseDatabase, Disconnected
<1>2. \A g \in Host : g # h => users'[g] = users[g] /\ peerId'[g] = peerId[g]
  BY DEF Restart, LoseDatabase, IInv, IdTypeOK
<1>3. CASE Restart(h)
  <2>1. UNCHANGED <<users, lost>> /\ peerId' = [peerId EXCEPT ![h] = CurrentUser(h)]
    BY <1>3 DEF Restart
  <2>2. CurrentUser(h) = NoId \/ (CurrentUser(h) \in DOMAIN maker /\ CurrentUser(h) \in Id)
    BY FirstRow DEF CurrentUser, IInv, IdTypeOK
  <2>3. IdTypeOK' /\ Made'
    BY <1>1, <2>1, <2>2 DEF IInv, IdTypeOK, Made
  <2>4. peerId'[h] = CurrentUser(h)
    BY <2>1 DEF IInv, IdTypeOK
  <2>5. ASSUME NEW g \in Host \ lost PROVE OwnUser(g)'
    BY <1>1, <1>2, <2>1, <2>4 DEF IInv, Kept, OwnUser, Unheard, CurrentUser
  <2> QED BY <2>1, <2>3, <2>5 DEF IInv, Kept
<1>4. CASE LoseDatabase(h)
  <2>1. /\ users' = [users EXCEPT ![h] = <<>>] /\ peerId' = [peerId EXCEPT ![h] = NoId]
        /\ lost' = lost \cup {h}
    BY <1>4 DEF LoseDatabase
  <2>2. users'[h] = <<>> /\ Range(users'[h]) = {} /\ peerId'[h] = NoId
    BY <2>1 DEF IInv, IdTypeOK, Range
  <2>3. users' \in [Host -> Seq(Id)] /\ peerId' \in [Host -> Id \cup {NoId}]
    BY <2>1 DEF IInv, IdTypeOK
  <2>4. \A g \in Host : Range(users'[g]) \subseteq DOMAIN maker
    BY <1>2, <2>2 DEF IInv, IdTypeOK
  <2>5. IdTypeOK' /\ Made'
    BY <1>1, <1>2, <2>1, <2>2, <2>3, <2>4 DEF IInv, IdTypeOK, Made
  <2>6. ASSUME NEW g \in Host \ lost' PROVE OwnUser(g)'
    BY <1>1, <1>2, <2>1 DEF IInv, Kept, OwnUser, Unheard
  <2> QED BY <2>5, <2>6 DEF IInv, Kept
<1> QED BY <1>3, <1>4

\* A loss, or no step.
LEMMA QuietStep ==
  ASSUME IInv, (\E m : Lose(m)) \/ UNCHANGED vars
  PROVE  IInv'
<1>1. /\ hello' \subseteq hello /\ info' \subseteq info
      /\ UNCHANGED <<users, peerId, maker, known, lost>>
  BY DEF Lose, vars
<1>2. IdTypeOK' /\ Made'
  BY <1>1 DEF IInv, IdTypeOK, Made
<1>3. Kept'
  BY <1>1 DEF IInv, Kept, OwnUser, Unheard
<1> QED BY <1>2, <1>3 DEF IInv

\* Every step keeps the invariant.
LEMMA Step == IInv /\ [Next]_vars => IInv'
<1> SUFFICES ASSUME IInv, [Next]_vars PROVE IInv'
  OBVIOUS
<1> QED
  BY RegisterStep, BroadcastStep, HelloStep, PeerInfoStep, KeepaliveStep, ProcessStep, QuietStep
  DEF Next

---------------------------------------------------------------------------
(* Theorems                                                              *)

\* The invariant holds in every behaviour.
THEOREM Invariant == Spec => []IInv
<1>1. Init => IInv
  <2> SUFFICES ASSUME Init PROVE IInv
    OBVIOUS
  <2>1. \A h \in Host : users[h] = <<>> /\ Range(users[h]) = {} /\ peerId[h] = NoId
    BY DEF Init, Range
  <2>2. users \in [Host -> Seq(Id)] /\ peerId \in [Host -> Id \cup {NoId}]
    BY DEF Init
  <2>3. IdTypeOK
    BY <2>1, <2>2 DEF Init, IdTypeOK
  <2> QED BY <2>1, <2>3 DEF Init, IInv, Made, Kept, OwnUser, Unheard
<1> QED BY <1>1, Step, PTL DEF Spec

\* Tables, identities and packets stay well typed.
THEOREM IdTypeCorrect == Spec => []IdTypeOK
<1>1. IInv => IdTypeOK
  BY DEF IInv
<1> QED BY <1>1, Invariant, PTL

\* The first row of a node that has kept its database is its own.
THEOREM OwnRowIsFirst == Spec => []OwnRowFirst
<1>1. IInv => OwnRowFirst
  BY DEF IInv, Kept, OwnUser, OwnRowFirst
<1> QED BY <1>1, Invariant, PTL

\* It runs with the identity the API reports.
THEOREM IdentityReported == Spec => []RunsAsRegistered
<1>1. IInv => RunsAsRegistered
  BY DEF IInv, Kept, OwnUser, RunsAsRegistered, CurrentUser
<1> QED BY <1>1, Invariant, PTL

\* And keeps it.
THEOREM IdentityStays == Spec => IdentityKept
<1>1. ASSUME IInv, IInv', [Next]_vars, NEW h \in Host \ lost', peerId[h] # NoId
      PROVE  peerId'[h] = peerId[h]
  <2>1. lost \subseteq lost'
    BY <1>1 DEF Next, Register, Broadcast, HandleHello, HandlePeerInfo, Keepalive, Lose,
                Restart, LoseDatabase, vars
  <2>2. users[h] # <<>> /\ peerId[h] = Head(users[h]) /\ OwnUser(h)'
    BY <1>1, <2>1 DEF IInv, Kept, OwnUser
  <2>3. CASE \E g \in Host : Register(g)
    BY <1>1, <2>2, <2>3, FirstRow, IdentityAssumption
    DEF Register, CurrentUser, IInv, IdTypeOK
  <2>4. CASE \E g \in Host : Restart(g) \/ LoseDatabase(g)
    BY <1>1, <2>2, <2>4 DEF Restart, LoseDatabase, CurrentUser, IInv, IdTypeOK
  <2>5. CASE UNCHANGED peerId
    BY <2>5
  <2> QED
    BY <1>1, <2>3, <2>4, <2>5
    DEF Next, Broadcast, HandleHello, HandlePeerInfo, Keepalive, Lose, vars
<1>2. IInv /\ IInv' /\ [Next]_vars =>
        \A h \in Host \ lost' : peerId[h] # NoId => peerId'[h] = peerId[h]
  BY <1>1
<1>3. IInv /\ IInv' /\ [Next]_vars =>
        [\A h \in Host \ lost' : peerId[h] # NoId => peerId'[h] = peerId[h]]_vars
  BY <1>2
<1> QED BY <1>3, Invariant, PTL DEF Spec, IdentityKept

=============================================================================
