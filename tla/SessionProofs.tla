--------------------------- MODULE SessionProofs ---------------------------
(* Safety of Sessions for any calls, pings and disturbances.              *)
EXTENDS Sessions, SequenceTheorems, TLAPS

\* Packets that can be there: offers are of calls that were offered.
Genuine == {x \in Packet : x.type = "offer" => x.id \in offered}

Offers == held \subseteq offered /\ wire \in [Peer -> Seq(Genuine)]

IInv == SessionTypeOK /\ Offers /\ PendingIsWaiting

---------------------------------------------------------------------------
(* Peers and packets                                                     *)

\* Each of the two peers has another, and there is no third.
LEMMA OtherPeer ==
  ASSUME NEW p \in Peer
  PROVE  Other(p) \in Peer /\ Other(p) # p /\ Peer = {p, Other(p)}
  BY SessionAssumption DEF Other

\* More calls, more packets that are genuine.
LEMMA GenuineGrows ==
  ASSUME offered \subseteq offered', NEW s \in Seq(Genuine)
  PROVE  s \in Seq(Genuine')
<1>1. Genuine \subseteq Genuine'
  BY DEF Genuine
<1> QED BY <1>1, SeqDef

\* Sending keeps what is under way genuine.
LEMMA SendGenuine ==
  ASSUME Offers, offered \subseteq offered', NEW p \in Peer, NEW x \in Genuine',
         NEW w, w = [wire EXCEPT ![Other(p)] = Append(@, x)]
  PROVE  w \in [Peer -> Seq(Genuine')]
<1>1. Other(p) \in Peer
  BY OtherPeer
<1>2. \A q \in Peer : wire[q] \in Seq(Genuine')
  BY GenuineGrows DEF Offers
<1>3. Append(wire[Other(p)], x) \in Seq(Genuine')
  BY <1>1, <1>2
<1> QED BY <1>1, <1>2, <1>3 DEF Offers

\* So does receiving.
LEMMA TakenGenuine ==
  ASSUME Offers, NEW p \in Peer, wire[p] # <<>>
  PROVE  /\ Taken(p) \in [Peer -> Seq(Genuine)]
         /\ Head(wire[p]) \in Genuine
<1>1. wire[p] \in Seq(Genuine)
  BY DEF Offers
<1>2. Tail(wire[p]) \in Seq(Genuine) /\ Head(wire[p]) \in Genuine
  BY <1>1
<1> QED BY <1>2 DEF Taken, Offers

\* s, with the packet behind i before it.
Swapped(s, i) == [s EXCEPT ![i] = s[i + 1], ![i + 1] = s[i]]

\* A packet that overtakes another leaves the same packets.
LEMMA SwappedTyped ==
  ASSUME NEW S, NEW s \in Seq(S), NEW i \in 1..Len(s) - 1
  PROVE  Swapped(s, i) \in Seq(S)
<1>1. s \in [1..Len(s) -> S] /\ i \in 1..Len(s) /\ i + 1 \in 1..Len(s) /\ Len(s) \in Nat
  OBVIOUS
<1>2. Swapped(s, i) \in [1..Len(s) -> S]
  BY <1>1 DEF Swapped
<1> QED BY <1>1, <1>2, SeqDef

\* Genuine packets are packets.
LEMMA GenuineTyped ==
  ASSUME Offers PROVE wire \in [Peer -> Seq(Packet)]
<1>1. Genuine \subseteq Packet
  BY DEF Genuine
<1> QED BY <1>1, SeqDef DEF Offers

---------------------------------------------------------------------------
(* The steps                                                             *)

\* The initial state satisfies the invariant.
LEMMA InitIInv == Init => IInv
<1> SUFFICES ASSUME Init PROVE IInv
  OBVIOUS
<1>1. << >> \in Seq(Genuine)
  OBVIOUS
<1>2. Offers
  BY <1>1 DEF Init, Offers
<1> QED BY <1>2, GenuineTyped, SessionAssumption DEF Init, IInv, SessionTypeOK, PendingIsWaiting

\* What users do to calls leaves the pings alone.
LEMMA CallStep ==
  ASSUME IInv, NEW c \in Call, NEW p \in Peer,
         (OfferCall(c) /\ p = Caller[c]) \/ RejectCall(p, c) \/ RemoveRejected(p, c) \/ EndCall(p, c)
  PROVE  IInv'
<1> USE DEF IInv, SessionTypeOK
<1>1. Offers' /\ offered \subseteq offered' /\ offered' \subseteq Call
  <2>1. CASE OfferCall(c) /\ p = Caller[c]
    <3>1. [type |-> "offer", id |-> c] \in Genuine' /\ Caller[c] \in Peer
      BY <2>1, SessionAssumption DEF OfferCall, Genuine, Packet
    <3>2. wire' = [wire EXCEPT ![Other(Caller[c])] = Append(@, [type |-> "offer", id |-> c])]
      BY <2>1 DEF OfferCall, SentBy
    <3> QED BY <2>1, <3>1, <3>2, SendGenuine DEF OfferCall, Offers
  <2>2. CASE RejectCall(p, c) \/ EndCall(p, c)
    <3>1. PICK type \in {"reject", "end"} : wire' = SentBy(p, type, c)
      BY <2>2 DEF RejectCall, EndCall
    <3>2. [type |-> type, id |-> c] \in Genuine'
      BY DEF Genuine, Packet
    <3>3. wire' = [wire EXCEPT ![Other(p)] = Append(@, [type |-> type, id |-> c])]
      BY <3>1 DEF SentBy
    <3>4. UNCHANGED <<offered, held>>
      BY <2>2 DEF RejectCall, EndCall
    <3> QED BY <3>2, <3>3, <3>4, SendGenuine DEF Offers
  <2>3. CASE RemoveRejected(p, c)
    BY <2>3 DEF RemoveRejected, Offers, Genuine
  <2> QED BY <2>1, <2>2, <2>3
<1>2. /\ active' \in [Peer -> SUBSET Call] /\ leaving' \in [Peer -> SUBSET Call]
      /\ \A q \in Peer : active'[q] \cup leaving'[q] \subseteq offered'
  BY <1>1, SessionAssumption DEF OfferCall, RejectCall, RemoveRejected, EndCall
<1>3. UNCHANGED <<pingVars, held, disturbances>>
  BY DEF OfferCall, RejectCall, RemoveRejected, EndCall
<1>4. wire' \in [Peer -> Seq(Packet)]
  <2>1. Genuine' \subseteq Packet
    BY DEF Genuine, Packet
  <2> QED BY <1>1, <2>1, SeqDef DEF Offers
<1> QED BY <1>1, <1>2, <1>3, <1>4 DEF pingVars, PendingIsWaiting

\* The endpoint of a ping.
LEMMA PingStep ==
  ASSUME IInv, NEW i \in Ping, SendPing(i) \/ WaitForPong(i) \/ Timeout(i) \/ FinishPing(i)
  PROVE  IInv'
<1> USE DEF IInv, SessionTypeOK
<1>1. Offers'
  <2>1. CASE SendPing(i)
    <3>1. [type |-> "ping", id |-> i] \in Genuine' /\ Pinger[i] \in Peer
      BY SessionAssumption DEF Genuine, Packet
    <3>2. /\ wire' = [wire EXCEPT ![Other(Pinger[i])] = Append(@, [type |-> "ping", id |-> i])]
          /\ UNCHANGED <<offered, held>>
      BY <2>1 DEF SendPing, SentBy, callVars
    <3> QED BY <3>1, <3>2, SendGenuine DEF Offers
  <2>2. CASE WaitForPong(i) \/ Timeout(i) \/ FinishPing(i)
    BY <2>2 DEF WaitForPong, Timeout, FinishPing, callVars, Offers, Genuine
  <2> QED BY <2>1, <2>2
<1>2. UNCHANGED <<callVars, held, disturbances>>
  BY DEF SendPing, WaitForPong, Timeout, FinishPing
<1>3. wire' \in [Peer -> Seq(Packet)]
  <2>1. Genuine' \subseteq Packet
    BY DEF Genuine, Packet
  <2> QED BY <1>1, <2>1, SeqDef DEF Offers
<1>4. /\ pending' \subseteq Ping
      /\ future' \in [Ping -> {"none", "open", "set", "cancelled"}]
      /\ endpoint' \in [Ping -> {"new", "sending", "waiting", "answered", "timed_out", "gone"}]
      /\ \A j \in Ping : future'[j] = "none" <=> endpoint'[j] = "new"
  BY DEF SendPing, WaitForPong, Timeout, FinishPing
<1>5. PendingIsWaiting'
  <2>1. CASE SendPing(i)
    BY <2>1 DEF SendPing, PendingIsWaiting
  <2>2. CASE WaitForPong(i)
    BY <2>2 DEF WaitForPong, PendingIsWaiting
  <2>3. CASE Timeout(i)
    BY <2>3 DEF Timeout, PendingIsWaiting
  <2>4. CASE FinishPing(i)
    BY <2>4 DEF FinishPing, PendingIsWaiting
  <2> QED BY <2>1, <2>2, <2>3, <2>4
<1> QED BY <1>1, <1>2, <1>3, <1>4, <1>5 DEF callVars

\* What a peer does with the next packet it reads.
LEMMA HandleStep ==
  ASSUME IInv, NEW p \in Peer, Handle(p)
  PROVE  IInv'
<1> USE DEF IInv, SessionTypeOK
<1>1. ASSUME NEW c \in Call, HandleCallOffer(p, c) \/ HandleCallOver(p, c) PROVE IInv'
  <2>1. wire[p] # <<>> /\ wire' = Taken(p) /\ UNCHANGED <<leaving, offered, pingVars, held, disturbances>>
    BY <1>1 DEF HandleCallOffer, HandleCallOver, Receives
  <2>2. Offers'
    BY <2>1, TakenGenuine DEF Offers, Genuine
  <2>3. HandleCallOffer(p, c) => c \in offered
    BY <2>1, TakenGenuine DEF HandleCallOffer, Receives, Genuine
  <2>4. active' \in [Peer -> SUBSET Call] /\ \A q \in Peer : active'[q] \subseteq offered
    <3>1. CASE HandleCallOffer(p, c)
      BY <2>3, <3>1 DEF HandleCallOffer
    <3>2. CASE HandleCallOver(p, c)
      BY <3>2 DEF HandleCallOver
    <3> QED BY <1>1, <3>1, <3>2
  <2>5. wire' \in [Peer -> Seq(Packet)]
    <3>1. Genuine' \subseteq Packet
      BY DEF Genuine, Packet
    <3> QED BY <2>2, <3>1, SeqDef DEF Offers
  <2> QED BY <2>1, <2>2, <2>4, <2>5 DEF pingVars, PendingIsWaiting
<1>2. ASSUME NEW i \in Ping, HandlePing(p, i) PROVE IInv'
  <2>1. /\ wire[p] # <<>> /\ UNCHANGED <<callVars, pingVars, held, disturbances>>
        /\ wire' = [Taken(p) EXCEPT ![Other(p)] = Append(@, [type |-> "pong", id |-> i])]
    BY <1>2 DEF HandlePing, Receives
  <2>2. [type |-> "pong", id |-> i] \in Genuine /\ Other(p) \in Peer
    BY OtherPeer DEF Genuine, Packet
  <2>3. Taken(p) \in [Peer -> Seq(Genuine)]
    BY <2>1, TakenGenuine
  <2>4. wire' \in [Peer -> Seq(Genuine)]
    BY <2>1, <2>2, <2>3
  <2>5. Offers'
    BY <2>1, <2>4 DEF Offers, Genuine, callVars
  <2>6. wire' \in [Peer -> Seq(Packet)]
    <3>1. Genuine \subseteq Packet
      BY DEF Genuine
    <3> QED BY <2>4, <3>1, SeqDef
  <2> QED BY <2>1, <2>5, <2>6 DEF callVars, pingVars, PendingIsWaiting
<1>3. ASSUME NEW i \in Ping, HandlePong(p, i) PROVE IInv'
  <2>1. wire[p] # <<>> /\ wire' = Taken(p) /\ UNCHANGED <<callVars, endpoint, held, disturbances>>
    BY <1>3 DEF HandlePong, Receives
  <2>2. Offers'
    BY <2>1, TakenGenuine DEF Offers, Genuine, callVars
  <2>3. wire' \in [Peer -> Seq(Packet)]
    <3>1. Genuine' \subseteq Packet
      BY DEF Genuine, Packet
    <3> QED BY <2>2, <3>1, SeqDef DEF Offers
  <2>4. /\ pending' = pending \ {i}
        /\ future' = IF i \in pending /\ future[i] = "open" THEN [future EXCEPT ![i] = "set"] ELSE future
    BY <1>3 DEF HandlePong
  <2>5. PendingIsWaiting'
    BY <2>1, <2>4 DEF PendingIsWaiting
  <2> QED BY <2>1, <2>2, <2>3, <2>4, <2>5 DEF callVars
<1> QED BY <1>1, <1>2, <1>3 DEF Handle

\* What is lost, late or forgotten.
LEMMA DisturbStep ==
  ASSUME IInv, NEW p \in Peer, NEW c,
         Drop(p) \/ Overtake(p) \/ Restart(p) \/ (c \in Call /\ (Hold(p, c) \/ Flush(c)))
  PROVE  IInv'
<1> USE DEF IInv, SessionTypeOK
<1>1. disturbances' \in 0..MaxDisturbances /\ UNCHANGED offered
  BY SessionAssumption DEF Drop, Overtake, Hold, Flush, Restart, Disturb, callVars
<1>2. Offers'
  <2>1. CASE Drop(p) \/ (c \in Call /\ Hold(p, c))
    <3>1. wire[p] # <<>> /\ wire' = Taken(p)
      BY <2>1 DEF Drop, Hold, Receives
    <3>2. Hold(p, c) => c \in offered
      BY <3>1, TakenGenuine DEF Hold, Receives, Genuine
    <3>3. held' \subseteq offered
      BY <2>1, <3>2 DEF Drop, Hold, Offers
    <3> QED BY <1>1, <3>1, <3>3, TakenGenuine DEF Offers, Genuine
  <2>2. CASE c \in Call /\ Flush(c)
    <3>1. [type |-> "offer", id |-> c] \in Genuine' /\ Caller[c] \in Peer
      BY <1>1, <2>2, SessionAssumption DEF Flush, Genuine, Packet, Offers
    <3>2. wire' = [wire EXCEPT ![Other(Caller[c])] = Append(@, [type |-> "offer", id |-> c])]
      BY <2>2 DEF Flush, SentBy
    <3>3. held' \subseteq offered'
      BY <1>1, <2>2 DEF Flush, Offers
    <3> QED BY <1>1, <3>1, <3>2, <3>3, SendGenuine DEF Offers
  <2>3. CASE Restart(p)
    <3>1. PICK lost \in SUBSET Peer : wire' = [q \in Peer |-> IF q \in lost THEN <<>> ELSE wire[q]]
      BY <2>3 DEF Restart
    <3>2. << >> \in Seq(Genuine)
      OBVIOUS
    <3>3. wire' \in [Peer -> Seq(Genuine)]
      BY <3>1, <3>2 DEF Offers
    <3> QED BY <1>1, <2>3, <3>3 DEF Restart, Offers, Genuine
  <2>4. CASE Overtake(p)
    <3>1. PICK i \in 1..Len(wire[p]) - 1 :
            wire' = [wire EXCEPT ![p] = Swapped(wire[p], i)]
      BY <2>4 DEF Overtake, Swapped, Offers
    <3>2. Swapped(wire[p], i) \in Seq(Genuine)
      BY SwappedTyped DEF Offers
    <3>3. wire' \in [Peer -> Seq(Genuine)]
      BY <3>1, <3>2 DEF Offers
    <3> QED BY <1>1, <2>4, <3>3 DEF Overtake, Offers, Genuine
  <2> QED BY <2>1, <2>2, <2>3, <2>4
<1>3. wire' \in [Peer -> Seq(Packet)]
  <2>1. Genuine' \subseteq Packet
    BY DEF Genuine, Packet
  <2> QED BY <1>2, <2>1, SeqDef DEF Offers
<1>4. held' \subseteq Call
  BY <1>1, <1>2 DEF Offers
<1>5. CASE Drop(p) \/ Overtake(p) \/ (c \in Call /\ (Hold(p, c) \/ Flush(c)))
  BY <1>1, <1>2, <1>3, <1>4, <1>5 DEF Drop, Overtake, Hold, Flush, callVars, pingVars, PendingIsWaiting
<1>6. CASE Restart(p)
  <2>1. /\ active' = [active EXCEPT ![p] = {}] /\ leaving' = [leaving EXCEPT ![p] = {}]
        /\ pending' = {i \in pending : Pinger[i] # p}
        /\ endpoint' = [i \in Ping |-> IF Pinger[i] = p /\ endpoint[i] \in {"sending", "waiting"}
                                         THEN "gone" ELSE endpoint[i]]
        /\ UNCHANGED <<offered, future, held>>
    BY <1>6 DEF Restart
  <2>2. /\ active' \in [Peer -> SUBSET Call] /\ leaving' \in [Peer -> SUBSET Call]
        /\ \A q \in Peer : active'[q] \cup leaving'[q] \subseteq offered'
    BY <2>1
  <2>3. PendingIsWaiting'
    BY <2>1 DEF PendingIsWaiting
  <2> QED BY <1>1, <1>2, <1>3, <1>4, <2>1, <2>2, <2>3
<1> QED BY <1>5, <1>6

\* Every step keeps the invariant.
LEMMA Step == IInv /\ [Next]_vars => IInv'
<1> SUFFICES ASSUME IInv, [Next]_vars PROVE IInv'
  OBVIOUS
<1>1. CASE UNCHANGED vars
  BY <1>1 DEF vars, callVars, pingVars, IInv, SessionTypeOK, Offers, Genuine, PendingIsWaiting
<1>2. ASSUME NEW c \in Call, OfferCall(c) PROVE IInv'
  BY <1>2, CallStep, SessionAssumption
<1>3. ASSUME NEW c \in Call, Flush(c) PROVE IInv'
  BY <1>3, DisturbStep, SessionAssumption
<1>4. ASSUME NEW p \in Peer, Drop(p) \/ Overtake(p) \/ Restart(p) PROVE IInv'
  BY <1>4, DisturbStep
<1> QED BY <1>1, <1>2, <1>3, <1>4, CallStep, PingStep, HandleStep, DisturbStep DEF Next

---------------------------------------------------------------------------
(* Agreement on calls                                                    *)

Offer(c)    == [type |-> "offer", id |-> c]
Overs(c)    == {[type |-> "reject", id |-> c], [type |-> "end", id |-> c]}
OfferIn(s, c) == \E k \in 1..Len(s) : s[k] = Offer(c)
OverIn(s, c)  == \E k \in 1..Len(s) : s[k] \in Overs(c)

\* Nothing about c is before its offer.
OfferFirst(s, c) ==
  \A j, k \in 1..Len(s) : s[k] = Offer(c) /\ j < k => s[j] \notin Overs(c) \cup {Offer(c)}

\* The call is there for p, or will be, and p neither leaves it nor is to
\* hear that it is over.
Live(p, c) ==
  (c \in active[p] \/ OfferIn(wire[p], c)) /\ c \notin leaving[p] /\ ~OverIn(wire[p], c)

Agreed(c) ==
  /\ \A p \in Peer : c \notin offered => ~OfferIn(wire[p], c) /\ ~OverIn(wire[p], c)
  /\ \A p \in Peer : OfferFirst(wire[p], c)
  /\ \A p \in Peer : OfferIn(wire[p], c) => c \notin active[p] /\ c \notin leaving[p]
  /\ \A p, q \in Peer : Live(p, c) <=> Live(q, c)

\* While nothing disturbs them, peers agree on what will be of every call.
AgreeInv == disturbances = 0 => held = {} /\ \A c \in Call : Agreed(c)

\* What a sequence says of a call, with one packet more.
LEMMA AppendFacts ==
  ASSUME NEW S, NEW s \in Seq(S), NEW x \in S, NEW c
  PROVE  /\ OfferIn(Append(s, x), c) <=> OfferIn(s, c) \/ x = Offer(c)
         /\ OverIn(Append(s, x), c) <=> OverIn(s, c) \/ x \in Overs(c)
         /\ OfferFirst(s, c) /\ (x = Offer(c) => ~OfferIn(s, c) /\ ~OverIn(s, c))
              => OfferFirst(Append(s, x), c)
<1> DEFINE n == Len(s)
           t == Append(s, x)
<1>1. n \in Nat /\ Len(t) = n + 1 /\ t[n + 1] = x /\ \A k \in 1..n : t[k] = s[k]
  OBVIOUS
<1> HIDE DEF t
<1>2. \A k \in 1..(n + 1) : k \in 1..n \/ k = n + 1
  BY <1>1
<1>3. \A k \in 1..n : k \in 1..(n + 1)
  BY <1>1
<1>4. n + 1 \in 1..(n + 1)
  BY <1>1
<1>5. OfferIn(t, c) <=> OfferIn(s, c) \/ x = Offer(c)
  BY <1>1, <1>2, <1>3, <1>4 DEF OfferIn
<1>6. OverIn(t, c) <=> OverIn(s, c) \/ x \in Overs(c)
  BY <1>1, <1>2, <1>3, <1>4 DEF OverIn
<1>7. ASSUME OfferFirst(s, c), x = Offer(c) => ~OfferIn(s, c) /\ ~OverIn(s, c)
      PROVE  OfferFirst(t, c)
  <2> SUFFICES ASSUME NEW j \in 1..(n + 1), NEW k \in 1..(n + 1), t[k] = Offer(c), j < k
               PROVE  t[j] \notin Overs(c) \cup {Offer(c)}
    BY <1>1 DEF OfferFirst
  <2>1. j \in 1..n /\ t[j] = s[j]
    BY <1>1
  <2>2. CASE k \in 1..n
    BY <1>1, <1>7, <2>1, <2>2 DEF OfferFirst
  <2>3. CASE k = n + 1
    BY <1>1, <1>7, <2>1, <2>3 DEF OfferIn, OverIn
  <2> QED BY <1>2, <2>2, <2>3
<1> QED BY <1>5, <1>6, <1>7 DEF t

\* And without its first.
LEMMA TailFacts ==
  ASSUME NEW S, NEW s \in Seq(S), s # << >>, NEW c
  PROVE  /\ OfferIn(s, c) <=> OfferIn(Tail(s), c) \/ Head(s) = Offer(c)
         /\ OverIn(s, c) <=> OverIn(Tail(s), c) \/ Head(s) \in Overs(c)
         /\ OfferFirst(s, c) => OfferFirst(Tail(s), c)
         /\ OfferFirst(s, c) /\ Head(s) \in Overs(c) \cup {Offer(c)} => ~OfferIn(Tail(s), c)
<1> DEFINE n == Len(s)
           t == Tail(s)
<1>1. n \in Nat \ {0} /\ Len(t) = n - 1 /\ Head(s) = s[1] /\ \A k \in 1..(n - 1) : t[k] = s[k + 1]
  OBVIOUS
<1> HIDE DEF t
<1>2. \A k \in 1..n : k = 1 \/ (k - 1 \in 1..(n - 1) /\ t[k - 1] = s[k])
  BY <1>1
<1>3. 1 \in 1..n /\ \A k \in 1..(n - 1) : k + 1 \in 1..n
  BY <1>1
<1>4. OfferIn(s, c) <=> OfferIn(t, c) \/ s[1] = Offer(c)
  BY <1>1, <1>2, <1>3 DEF OfferIn
<1>5. OverIn(s, c) <=> OverIn(t, c) \/ s[1] \in Overs(c)
  BY <1>1, <1>2, <1>3 DEF OverIn
<1>6. OfferFirst(s, c) => OfferFirst(t, c)
  <2> SUFFICES ASSUME OfferFirst(s, c), NEW j \in 1..(n - 1), NEW k \in 1..(n - 1),
                      t[k] = Offer(c), j < k
               PROVE  t[j] \notin Overs(c) \cup {Offer(c)}
    BY <1>1 DEF OfferFirst
  <2>1. j + 1 \in 1..n /\ k + 1 \in 1..n /\ j + 1 < k + 1
    BY <1>1
  <2> QED BY <1>1, <2>1 DEF OfferFirst
<1>7. ASSUME OfferFirst(s, c), s[1] \in Overs(c) \cup {Offer(c)} PROVE ~OfferIn(t, c)
  <2> SUFFICES ASSUME NEW k \in 1..(n - 1), t[k] = Offer(c) PROVE FALSE
    BY <1>1 DEF OfferIn
  <2>1. 1 \in 1..n /\ k + 1 \in 1..n /\ 1 < k + 1
    BY <1>1
  <2> QED BY <1>1, <1>7, <2>1 DEF OfferFirst
<1> QED BY <1>1, <1>4, <1>5, <1>6, <1>7 DEF t

\* What a step says about other calls, or about none.
LEMMA OtherCall ==
  ASSUME NEW c, Agreed(c),
         c \in offered' <=> c \in offered,
         \A q \in Peer : /\ OfferIn(wire'[q], c) <=> OfferIn(wire[q], c)
                         /\ OverIn(wire'[q], c) <=> OverIn(wire[q], c)
                         /\ OfferFirst(wire'[q], c)
                         /\ c \in active'[q] <=> c \in active[q]
                         /\ c \in leaving'[q] <=> c \in leaving[q]
  PROVE  Agreed(c)'
<1>1. \A q \in Peer : Live(q, c)' <=> Live(q, c)
  BY DEF Live
<1>2. \A p, q \in Peer : Live(p, c)' <=> Live(q, c)'
  BY <1>1 DEF Agreed
<1>3. \A p \in Peer : c \notin offered' => ~OfferIn(wire'[p], c) /\ ~OverIn(wire'[p], c)
  BY DEF Agreed
<1>4. \A p \in Peer : OfferIn(wire'[p], c) => c \notin active'[p] /\ c \notin leaving'[p]
  BY DEF Agreed
<1> QED BY <1>2, <1>3, <1>4 DEF Agreed

\* A packet that p sends, for all that is under way.
LEMMA SentFacts ==
  ASSUME wire \in [Peer -> Seq(Packet)], NEW p \in Peer, NEW x \in Packet, NEW c,
         wire' = [wire EXCEPT ![Other(p)] = Append(@, x)]
  PROVE  LET q == Other(p) IN
         /\ wire'[p] = wire[p]
         /\ OfferIn(wire'[q], c) <=> OfferIn(wire[q], c) \/ x = Offer(c)
         /\ OverIn(wire'[q], c) <=> OverIn(wire[q], c) \/ x \in Overs(c)
         /\ OfferFirst(wire[q], c) /\ (x = Offer(c) => ~OfferIn(wire[q], c) /\ ~OverIn(wire[q], c))
              => OfferFirst(wire'[q], c)
<1>1. Other(p) \in Peer /\ Other(p) # p
  BY OtherPeer
<1>2. wire'[p] = wire[p] /\ wire'[Other(p)] = Append(wire[Other(p)], x) /\ wire[Other(p)] \in Seq(Packet)
  BY <1>1
<1> QED BY <1>2, AppendFacts

\* A packet that p takes.
LEMMA TakenFacts ==
  ASSUME wire \in [Peer -> Seq(Packet)], NEW p \in Peer, NEW c, wire[p] # << >>
  PROVE  /\ Taken(p) \in [Peer -> Seq(Packet)]
         /\ \A q \in Peer : q # p => Taken(p)[q] = wire[q]
         /\ OfferIn(wire[p], c) <=> OfferIn(Taken(p)[p], c) \/ Head(wire[p]) = Offer(c)
         /\ OverIn(wire[p], c) <=> OverIn(Taken(p)[p], c) \/ Head(wire[p]) \in Overs(c)
         /\ OfferFirst(wire[p], c) => OfferFirst(Taken(p)[p], c)
         /\ OfferFirst(wire[p], c) /\ Head(wire[p]) \in Overs(c) \cup {Offer(c)}
              => ~OfferIn(Taken(p)[p], c)
<1>1. wire[p] \in Seq(Packet) /\ Tail(wire[p]) \in Seq(Packet)
  OBVIOUS
<1>2. /\ Taken(p)[p] = Tail(wire[p]) /\ Taken(p) \in [Peer -> Seq(Packet)]
      /\ \A q \in Peer : q # p => Taken(p)[q] = wire[q]
  BY <1>1 DEF Taken
<1> QED BY <1>1, <1>2, TailFacts

\* What a user does to call c, for c and for every other call d.
LEMMA AgreedAfterUser ==
  ASSUME SessionTypeOK, NEW c \in Call, NEW d \in Call, Agreed(d), NEW p \in Peer,
         (OfferCall(c) /\ p = Caller[c]) \/ RejectCall(p, c) \/ RemoveRejected(p, c) \/ EndCall(p, c)
  PROVE  Agreed(d)'
<1> DEFINE q == Other(p)
<1>0. q \in Peer /\ q # p /\ Peer = {p, q} /\ wire \in [Peer -> Seq(Packet)]
  BY OtherPeer DEF SessionTypeOK
<1>1. CASE RemoveRejected(p, c)
  <2>1. /\ c \in leaving[p] /\ wire' = wire /\ offered' = offered
        /\ \A r \in Peer : active'[r] = (IF r = p THEN active[r] \ {c} ELSE active[r])
        /\ \A r \in Peer : leaving'[r] = (IF r = p THEN leaving[r] \ {c} ELSE leaving[r])
    BY <1>1 DEF RemoveRejected, SessionTypeOK
  <2>2. CASE d = c
    BY <1>0, <2>1, <2>2 DEF Agreed, Live
  <2>3. CASE d # c
    BY <2>1, <2>3, OtherCall DEF Agreed
  <2> QED BY <2>2, <2>3
<1>2. CASE OfferCall(c) /\ p = Caller[c]
  <2>1. /\ c \notin offered /\ leaving' = leaving /\ offered' = offered \cup {c}
        /\ \A r \in Peer : active'[r] = (IF r = p THEN active[r] \cup {c} ELSE active[r])
        /\ wire' = [wire EXCEPT ![q] = Append(@, Offer(c))]
        /\ \A r \in Peer : c \notin active[r] /\ c \notin leaving[r]
    BY <1>2 DEF OfferCall, SentBy, Offer, SessionTypeOK
  <2>2. Offer(c) \in Packet /\ Offer(c) \notin Overs(d) /\ (Offer(c) = Offer(d) <=> c = d)
    BY DEF Offer, Overs, Packet
  <2> HIDE DEF q
  <2>3. /\ wire'[p] = wire[p]
        /\ OfferIn(wire'[q], d) <=> OfferIn(wire[q], d) \/ c = d
        /\ OverIn(wire'[q], d) <=> OverIn(wire[q], d)
        /\ OfferFirst(wire[q], d) /\ (c = d => ~OfferIn(wire[q], d) /\ ~OverIn(wire[q], d))
             => OfferFirst(wire'[q], d)
    BY <1>0, <2>1, <2>2, SentFacts DEF q
  <2>4. CASE d = c
    <3>1. OfferFirst(wire'[p], d) /\ OfferFirst(wire'[q], d)
      BY <1>0, <2>1, <2>3, <2>4 DEF Agreed
    <3>2. Live(p, d)' /\ Live(q, d)'
      BY <1>0, <2>1, <2>3, <2>4 DEF Agreed, Live
    <3>3. ~OfferIn(wire'[p], d) /\ d \notin active'[q] /\ d \notin leaving'[q] /\ d \in offered'
      BY <1>0, <2>1, <2>3, <2>4 DEF Agreed
    <3> QED BY <1>0, <3>1, <3>2, <3>3 DEF Agreed
  <2>5. CASE d # c
    <3>1. \A r \in Peer : /\ OfferIn(wire'[r], d) <=> OfferIn(wire[r], d)
                          /\ OverIn(wire'[r], d) <=> OverIn(wire[r], d)
                          /\ OfferFirst(wire'[r], d)
      BY <1>0, <2>3, <2>5 DEF Agreed
    <3> QED BY <2>1, <2>5, <3>1, OtherCall
  <2> QED BY <2>4, <2>5
<1>3. CASE RejectCall(p, c) \/ EndCall(p, c)
  <2>1. PICK type \in {"reject", "end"} : wire' = [wire EXCEPT ![q] = Append(@, [type |-> type, id |-> c])]
    BY <1>3 DEF RejectCall, EndCall, SentBy
  <2> DEFINE x == [type |-> type, id |-> c]
  <2>2. x \in Packet /\ x # Offer(d) /\ (x \in Overs(d) <=> c = d)
    BY DEF Offer, Overs, Packet
  <2>3. /\ c \in active[p] /\ offered' = offered
        /\ \A r \in Peer : r # p => active'[r] = active[r] /\ leaving'[r] = leaving[r]
        /\ \A e \in Call : e # c => /\ e \in active'[p] <=> e \in active[p]
                                    /\ e \in leaving'[p] <=> e \in leaving[p]
        /\ c \notin active'[p] \/ c \in leaving'[p]
    BY <1>3 DEF RejectCall, EndCall, SessionTypeOK
  <2>4. wire' = [wire EXCEPT ![q] = Append(@, x)]
    BY <2>1
  <2> HIDE DEF q, x
  <2>5. /\ wire'[p] = wire[p]
        /\ OfferIn(wire'[q], d) <=> OfferIn(wire[q], d)
        /\ OverIn(wire'[q], d) <=> OverIn(wire[q], d) \/ c = d
        /\ OfferFirst(wire[q], d) => OfferFirst(wire'[q], d)
    BY <1>0, <2>2, <2>4, SentFacts DEF q
  <2>6. CASE d = c
    <3>1. d \in offered /\ ~OfferIn(wire[p], d)
      BY <2>3, <2>6 DEF SessionTypeOK, Agreed
    <3>2. ~Live(p, d)' /\ ~Live(q, d)'
      BY <1>0, <2>3, <2>5, <2>6, <3>1 DEF Live
    <3>3. \A r \in Peer : OfferFirst(wire'[r], d)
      BY <1>0, <2>5 DEF Agreed
    <3>4. \A r \in Peer : OfferIn(wire'[r], d) => d \notin active'[r] /\ d \notin leaving'[r]
      BY <1>0, <2>3, <2>5, <3>1 DEF Agreed
    <3> QED BY <1>0, <2>3, <3>1, <3>2, <3>3, <3>4 DEF Agreed
  <2>7. CASE d # c
    <3>1. \A r \in Peer : /\ OfferIn(wire'[r], d) <=> OfferIn(wire[r], d)
                          /\ OverIn(wire'[r], d) <=> OverIn(wire[r], d)
                          /\ OfferFirst(wire'[r], d)
      BY <1>0, <2>5, <2>7 DEF Agreed
    <3>2. ASSUME NEW r \in Peer
          PROVE  (d \in active'[r] <=> d \in active[r]) /\ (d \in leaving'[r] <=> d \in leaving[r])
      <4>1. CASE r = p
        BY <2>3, <2>7, <4>1
      <4>2. CASE r # p
        BY <2>3, <4>2
      <4> QED BY <4>1, <4>2
    <3>3. d \in offered' <=> d \in offered
      BY <2>3
    <3> QED BY <2>3, <3>1, <3>2, <3>3, OtherCall
  <2> QED BY <2>6, <2>7
<1> QED BY <1>1, <1>2, <1>3

\* What a peer does with the next packet, for every call d.
LEMMA AgreedAfterHandling ==
  ASSUME SessionTypeOK, NEW d \in Call, Agreed(d), NEW p \in Peer, Handle(p)
  PROVE  Agreed(d)'
<1> DEFINE h == Head(wire[p])
<1>0. wire \in [Peer -> Seq(Packet)]
  BY DEF SessionTypeOK
<1>1. wire[p] # << >>
  BY DEF Handle, HandleCallOffer, HandleCallOver, HandlePing, HandlePong, Receives
<1>2. /\ Taken(p) \in [Peer -> Seq(Packet)]
      /\ \A q \in Peer : q # p => Taken(p)[q] = wire[q]
      /\ OfferIn(wire[p], d) <=> OfferIn(Taken(p)[p], d) \/ h = Offer(d)
      /\ OverIn(wire[p], d) <=> OverIn(Taken(p)[p], d) \/ h \in Overs(d)
      /\ OfferFirst(Taken(p)[p], d)
      /\ h \in Overs(d) \cup {Offer(d)} => ~OfferIn(Taken(p)[p], d)
  BY <1>0, <1>1, TakenFacts DEF Agreed
<1>3. ASSUME h # Offer(d), h \notin Overs(d)
      PROVE  \A q \in Peer : /\ OfferIn(Taken(p)[q], d) <=> OfferIn(wire[q], d)
                             /\ OverIn(Taken(p)[q], d) <=> OverIn(wire[q], d)
                             /\ OfferFirst(Taken(p)[q], d)
  <2> TAKE q \in Peer
  <2>1. CASE q = p
    BY <1>2, <1>3, <2>1
  <2>2. CASE q # p
    BY <1>2, <2>2 DEF Agreed
  <2> QED BY <2>1, <2>2
<1>4. ASSUME NEW c \in Call, HandleCallOffer(p, c) PROVE Agreed(d)'
  <2>1. /\ h = Offer(c) /\ wire' = Taken(p) /\ UNCHANGED <<leaving, offered>>
        /\ \A q \in Peer : active'[q] = (IF q = p THEN active[q] \cup {c} ELSE active[q])
    BY <1>4 DEF HandleCallOffer, Receives, Offer, SessionTypeOK
  <2>2. h \notin Overs(d) /\ (h = Offer(d) <=> c = d)
    BY <2>1 DEF Offer, Overs
  <2> HIDE DEF h
  <2>3. CASE d = c
    <3>1. OfferIn(wire[p], d) /\ ~OfferIn(wire'[p], d) /\ (OverIn(wire'[p], d) <=> OverIn(wire[p], d))
      BY <1>2, <2>1, <2>2, <2>3
    <3>2. d \in offered /\ d \notin leaving[p] /\ d \in active'[p]
      BY <2>1, <2>3, <3>1 DEF Agreed
    <3>3. Live(p, d)' <=> Live(p, d)
      BY <2>1, <3>1, <3>2 DEF Live
    <3>4. \A q \in Peer : Live(q, d)' <=> Live(q, d)
      <4> TAKE q \in Peer
      <4>1. CASE q = p
        BY <3>3, <4>1
      <4>2. CASE q # p
        BY <1>2, <2>1, <4>2 DEF Live
      <4> QED BY <4>1, <4>2
    <3>5. \A q \in Peer : OfferFirst(wire'[q], d) /\ (OfferIn(wire'[q], d) => d \notin active'[q])
      <4> TAKE q \in Peer
      <4>1. CASE q = p
        BY <1>2, <2>1, <3>1, <4>1
      <4>2. CASE q # p
        BY <1>2, <2>1, <4>2 DEF Agreed
      <4> QED BY <4>1, <4>2
    <3>6. \A q \in Peer : OfferIn(wire'[q], d) => d \notin leaving'[q]
      <4> TAKE q \in Peer
      <4>1. CASE q = p
        BY <3>1, <4>1
      <4>2. CASE q # p
        BY <1>2, <2>1, <4>2 DEF Agreed
      <4> QED BY <4>1, <4>2
    <3>7. \A q, r \in Peer : Live(q, d)' <=> Live(r, d)'
      BY <3>4 DEF Agreed
    <3> QED BY <2>1, <3>2, <3>5, <3>6, <3>7 DEF Agreed
  <2>4. CASE d # c
    BY <1>3, <2>1, <2>2, <2>4, OtherCall
  <2> QED BY <2>3, <2>4
<1>5. ASSUME NEW c \in Call, HandleCallOver(p, c) PROVE Agreed(d)'
  <2>1. /\ h \in Overs(c) /\ wire' = Taken(p) /\ UNCHANGED <<leaving, offered>>
        /\ \A q \in Peer : active'[q] = (IF q = p THEN active[q] \ {c} ELSE active[q])
    BY <1>5 DEF HandleCallOver, Receives, Overs, SessionTypeOK
  <2>2. h # Offer(d) /\ (h \in Overs(d) <=> c = d)
    BY <2>1 DEF Offer, Overs
  <2> HIDE DEF h
  <2>3. CASE d = c
    <3>1. OverIn(wire[p], d) /\ ~OfferIn(wire'[p], d) /\ d \notin active'[p]
      BY <1>2, <2>1, <2>2, <2>3
    <3>2. \A q \in Peer : ~Live(q, d)
      BY <3>1 DEF Agreed, Live
    <3>3. \A q \in Peer : ~Live(q, d)'
      <4> TAKE q \in Peer
      <4>1. CASE q = p
        BY <3>1, <4>1 DEF Live
      <4>2. CASE q # p
        BY <1>2, <2>1, <3>2, <4>2 DEF Live
      <4> QED BY <4>1, <4>2
    <3>4. d \in offered'
      BY <2>1, <3>1 DEF Agreed
    <3>5. \A q \in Peer : /\ OfferFirst(wire'[q], d)
                          /\ OfferIn(wire'[q], d) => d \notin active'[q] /\ d \notin leaving'[q]
      <4> TAKE q \in Peer
      <4>1. CASE q = p
        BY <1>2, <2>1, <3>1, <4>1
      <4>2. CASE q # p
        BY <1>2, <2>1, <4>2 DEF Agreed
      <4> QED BY <4>1, <4>2
    <3> QED BY <3>3, <3>4, <3>5 DEF Agreed
  <2>4. CASE d # c
    BY <1>3, <2>1, <2>2, <2>4, OtherCall
  <2> QED BY <2>3, <2>4
<1>6. ASSUME NEW i \in Ping, HandlePong(p, i) PROVE Agreed(d)'
  <2>1. h = [type |-> "pong", id |-> i] /\ wire' = Taken(p) /\ UNCHANGED callVars
    BY <1>6 DEF HandlePong, Receives
  <2>2. h # Offer(d) /\ h \notin Overs(d)
    BY <2>1 DEF Offer, Overs
  <2> QED BY <1>3, <2>1, <2>2, OtherCall DEF callVars
<1>7. ASSUME NEW i \in Ping, HandlePing(p, i) PROVE Agreed(d)'
  <2> DEFINE x == [type |-> "pong", id |-> i]
             q == Other(p)
             t == Taken(p)
  <2>1. h = [type |-> "ping", id |-> i] /\ wire' = [t EXCEPT ![q] = Append(@, x)] /\ UNCHANGED callVars
    BY <1>7 DEF HandlePing, Receives
  <2>2. h # Offer(d) /\ h \notin Overs(d) /\ x # Offer(d) /\ x \notin Overs(d) /\ x \in Packet
    BY <2>1 DEF Offer, Overs, Packet
  <2>3. q \in Peer /\ q # p /\ t \in [Peer -> Seq(Packet)]
    BY <1>2, OtherPeer
  <2>4. \A r \in Peer : wire'[r] = IF r = q THEN Append(t[r], x) ELSE t[r]
    BY <2>1, <2>3
  <2>5. \A r \in Peer : /\ OfferIn(t[r], d) <=> OfferIn(wire[r], d)
                        /\ OverIn(t[r], d) <=> OverIn(wire[r], d)
                        /\ OfferFirst(t[r], d)
    BY <1>3, <2>2
  <2> HIDE DEF x, q, t
  <2>6. \A r \in Peer : /\ OfferIn(wire'[r], d) <=> OfferIn(wire[r], d)
                        /\ OverIn(wire'[r], d) <=> OverIn(wire[r], d)
                        /\ OfferFirst(wire'[r], d)
    <3> TAKE r \in Peer
    <3>1. CASE r = q
      <4>1. t[r] \in Seq(Packet) /\ wire'[r] = Append(t[r], x)
        BY <2>3, <2>4, <3>1
      <4>2. /\ OfferIn(Append(t[r], x), d) <=> OfferIn(t[r], d)
            /\ OverIn(Append(t[r], x), d) <=> OverIn(t[r], d)
            /\ OfferFirst(t[r], d) => OfferFirst(Append(t[r], x), d)
        BY <2>2, <4>1, AppendFacts
      <4> QED BY <2>5, <4>1, <4>2
    <3>2. CASE r # q
      BY <2>4, <2>5, <3>2
    <3> QED BY <3>1, <3>2
  <2> QED BY <2>1, <2>6, OtherCall DEF callVars
<1> QED BY <1>4, <1>5, <1>6, <1>7 DEF Handle

\* A ping that is sent says nothing of calls.
LEMMA AgreedAfterPing ==
  ASSUME SessionTypeOK, NEW d \in Call, Agreed(d), NEW i \in Ping, SendPing(i)
  PROVE  Agreed(d)'
<1> DEFINE p == Pinger[i]
           q == Other(p)
           x == [type |-> "ping", id |-> i]
<1>1. /\ p \in Peer /\ q \in Peer /\ q # p /\ Peer = {p, q}
      /\ wire \in [Peer -> Seq(Packet)]
  BY OtherPeer, SessionAssumption DEF SessionTypeOK
<1>2. wire' = [wire EXCEPT ![q] = Append(@, x)] /\ UNCHANGED callVars
  BY DEF SendPing, SentBy
<1>3. x \in Packet /\ x # Offer(d) /\ x \notin Overs(d)
  BY DEF Packet, Offer, Overs
<1> HIDE DEF x
<1>4. /\ wire'[p] = wire[p]
      /\ OfferIn(wire'[q], d) <=> OfferIn(wire[q], d)
      /\ OverIn(wire'[q], d) <=> OverIn(wire[q], d)
      /\ OfferFirst(wire'[q], d)
  BY <1>1, <1>2, <1>3, SentFacts DEF Agreed
<1> HIDE DEF p, q
<1>5. \A r \in Peer : /\ OfferIn(wire'[r], d) <=> OfferIn(wire[r], d)
                      /\ OverIn(wire'[r], d) <=> OverIn(wire[r], d)
                      /\ OfferFirst(wire'[r], d)
  BY <1>1, <1>4 DEF Agreed
<1> QED BY <1>2, <1>5, OtherCall DEF callVars

\* Every step keeps the agreement, or disturbs.
LEMMA AgreeStep == IInv /\ AgreeInv /\ [Next]_vars => AgreeInv'
<1> SUFFICES ASSUME IInv, AgreeInv, [Next]_vars PROVE AgreeInv'
  OBVIOUS
<1>0. SessionTypeOK /\ disturbances \in Nat
  BY SessionAssumption DEF IInv, SessionTypeOK
<1>1. ASSUME NEW p \in Peer, NEW c \in Call, Drop(p) \/ Hold(p, c) \/ Restart(p) PROVE AgreeInv'
  BY <1>0, <1>1 DEF Drop, Hold, Restart, Disturb, AgreeInv
<1>2. ASSUME NEW p \in Peer, Drop(p) \/ Overtake(p) \/ Restart(p) PROVE AgreeInv'
  BY <1>0, <1>2 DEF Drop, Overtake, Restart, Disturb, AgreeInv
<1>3. ASSUME NEW c \in Call, Flush(c) PROVE AgreeInv'
  BY <1>3 DEF Flush, AgreeInv
<1>4. ASSUME NEW p \in Peer, NEW c \in Call,
             (OfferCall(c) /\ p = Caller[c]) \/ RejectCall(p, c) \/ RemoveRejected(p, c) \/ EndCall(p, c)
      PROVE  AgreeInv'
  <2>1. UNCHANGED <<held, disturbances>>
    BY <1>4 DEF OfferCall, RejectCall, RemoveRejected, EndCall
  <2> QED BY <1>0, <1>4, <2>1, AgreedAfterUser DEF AgreeInv
<1>5. ASSUME NEW p \in Peer, Handle(p) PROVE AgreeInv'
  <2>1. UNCHANGED <<held, disturbances>>
    BY <1>5 DEF Handle, HandleCallOffer, HandleCallOver, HandlePing, HandlePong
  <2> QED BY <1>0, <1>5, <2>1, AgreedAfterHandling DEF AgreeInv
<1>6. ASSUME NEW i \in Ping, SendPing(i) PROVE AgreeInv'
  BY <1>0, <1>6, AgreedAfterPing DEF SendPing, AgreeInv
<1>7. ASSUME UNCHANGED <<callVars, wire, held, disturbances>> PROVE AgreeInv'
  BY <1>7 DEF callVars, AgreeInv, Agreed, Live
<1>8. ASSUME NEW i \in Ping, WaitForPong(i) \/ Timeout(i) \/ FinishPing(i) PROVE AgreeInv'
  BY <1>7, <1>8 DEF WaitForPong, Timeout, FinishPing
<1>9. CASE UNCHANGED vars
  BY <1>7, <1>9 DEF vars
<1> QED
  BY <1>1, <1>2, <1>3, <1>4, <1>5, <1>6, <1>8, <1>9, SessionAssumption DEF Next

---------------------------------------------------------------------------
(* Theorems                                                              *)

\* The invariant holds in every behaviour.
THEOREM Invariant == Spec => []IInv
  BY InitIInv, Step, PTL DEF Spec

\* Calls, pings and packets stay well typed; a future exists from the
\* moment its PING is sent.
THEOREM SessionTypeCorrect == Spec => []SessionTypeOK
<1>1. IInv => SessionTypeOK
  BY DEF IInv
<1> QED BY <1>1, Invariant, PTL

\* An entry of pending_pings is one an endpoint still waits for, and
\* whoever waits without an answer has one.
THEOREM PendingWaits == Spec => []PendingIsWaiting
<1>1. IInv => PendingIsWaiting
  BY DEF IInv
<1> QED BY <1>1, Invariant, PTL

\* For any number of calls, offered, rejected and ended by either peer in
\* any order, both have the same calls once nothing is under way.
THEOREM CallsSettle == Spec => []CallsAgree
<1>1. Init => AgreeInv
  <2> SUFFICES ASSUME Init PROVE AgreeInv
    OBVIOUS
  <2>1. \A p \in Peer, c \in Call : ~OfferIn(wire[p], c) /\ ~OverIn(wire[p], c) /\ OfferFirst(wire[p], c)
    BY DEF Init, OfferIn, OverIn, OfferFirst
  <2>2. \A p \in Peer : active[p] = {} /\ leaving[p] = {} /\ held = {}
    BY DEF Init
  <2> QED BY <2>1, <2>2 DEF Init, AgreeInv, Agreed, Live
<1>2. AgreeInv /\ SessionTypeOK => CallsAgree
  <2> SUFFICES ASSUME AgreeInv, SessionTypeOK, disturbances = 0,
                      \A p \in Peer : wire[p] = << >> /\ leaving[p] = {},
                      NEW p \in Peer, NEW q \in Peer
               PROVE  active[p] = active[q]
    BY DEF CallsAgree
  <2>1. ASSUME NEW r \in Peer, NEW c \in Call PROVE Live(r, c) <=> c \in active[r]
    BY DEF Live, OfferIn, OverIn
  <2>2. \A c \in Call : c \in active[p] <=> c \in active[q]
    BY <2>1 DEF AgreeInv, Agreed
  <2>3. active[p] \subseteq Call /\ active[q] \subseteq Call
    BY DEF SessionTypeOK
  <2> QED BY <2>2, <2>3
<1>3. IInv => SessionTypeOK
  BY DEF IInv
<1> QED BY <1>1, <1>2, <1>3, Invariant, AgreeStep, PTL DEF Spec

===========================================================================
