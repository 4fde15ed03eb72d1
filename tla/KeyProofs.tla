----------------------------- MODULE KeyProofs -----------------------------
(* Safety of KeyExchange for any set of peers and key pairs. The lemmas  *)
(* speak of single steps, so that Delivery can use them for its own.     *)
EXTENDS KeyExchange, TLAPS

KeyInv == KeyTypeOK /\ KeysAreGenuine

\* add_peer replaces one key and keeps the others.
LEMMA StoredKeys ==
  ASSUME NEW p \in Peer, NEW q \in Peer, NEW k \in Key, KeyTypeOK
  PROVE  /\ DOMAIN Stored(p, q, k) = DOMAIN peers[p] \cup {q}
         /\ Stored(p, q, k) \in [DOMAIN Stored(p, q, k) -> Key]
         /\ Stored(p, q, k)[q] = k
         /\ \A r \in DOMAIN peers[p] : r # q => Stored(p, q, k)[r] = peers[p][r]
  BY DEF Stored, KeyTypeOK

\* The keys every peer starts with are its own.
LEMMA InitialKeys ==
  ASSUME key \in {k \in [Peer -> Key] : IsInjective(k)},
         owner = [k \in Range(key) |-> CHOOSE p \in Peer : key[p] = k]
  PROVE  /\ DOMAIN owner \subseteq Key /\ owner \in [DOMAIN owner -> Peer]
         /\ \A p \in Peer : key[p] \in DOMAIN owner /\ owner[key[p]] = p
<1>1. key \in [Peer -> Key] /\ DOMAIN owner = {key[p] : p \in Peer}
  BY DEF Range
<1>2. \A p, q \in Peer : key[p] = key[q] => p = q
  BY DEF IsInjective
<1>3. ASSUME NEW p \in Peer
      PROVE  key[p] \in DOMAIN owner /\ owner[key[p]] = p
  <2>1. owner[key[p]] = CHOOSE q \in Peer : key[q] = key[p]
    BY <1>1
  <2>2. (CHOOSE q \in Peer : key[q] = key[p]) = p
    BY <1>2
  <2> QED BY <1>1, <2>1, <2>2
<1>4. owner \in [DOMAIN owner -> Peer]
  <2>1. \A k \in DOMAIN owner : owner[k] \in Peer
    BY <1>1, <1>3
  <2> QED BY <2>1
<1> QED BY <1>1, <1>3, <1>4

\* A packet with the key of a peer is genuine.
LEMMA KeyPacketGenuine ==
  ASSUME KeyTypeOK, NEW p \in Peer, NEW q \in Peer, NEW isReply \in BOOLEAN
  PROVE  /\ KeyPacketOf(p, q, isReply) \in KeyPacket
         /\ KeyPacketOf(p, q, isReply).key \in DOMAIN owner
         /\ owner[KeyPacketOf(p, q, isReply).key] = KeyPacketOf(p, q, isReply).from
  BY DEF KeyTypeOK, KeyPacketOf, KeyPacket

\* Requests for keys, however they come about, keep the invariant.
LEMMA RequestStep ==
  ASSUME KeyInv, NEW p \in Peer, NEW q \in Peer,
         kex' = kex \cup Sent(p, q, KeyPacketOf(p, q, FALSE)),
         UNCHANGED <<cryptoVars, routes>>
  PROVE  KeyInv'
<1>1. \A k \in kex' : k \in KeyPacket /\ k.key \in DOMAIN owner /\ owner[k.key] = k.from
  <2> DEFINE r == KeyPacketOf(p, q, FALSE)
  <2>1. r \in KeyPacket /\ r.key \in DOMAIN owner /\ owner[r.key] = r.from
    BY KeyPacketGenuine DEF KeyInv
  <2>2. kex' \subseteq kex \cup {r} /\ owner' = owner
    BY DEF Sent, cryptoVars
  <2> HIDE DEF r
  <2> QED BY <2>1, <2>2 DEF KeyInv, KeyTypeOK, KeysAreGenuine
<1>2. UNCHANGED <<key, owner, peers, verified, shown, routes>>
  BY DEF cryptoVars
<1>3. KeyTypeOK'
  BY <1>1, <1>2 DEF KeyInv, KeyTypeOK
<1>4. KeysAreGenuine'
  BY <1>1, <1>2 DEF KeyInv, KeysAreGenuine
<1> QED BY <1>3, <1>4 DEF KeyInv

\* Handling a KEY_EXCHANGE keeps the invariant.
LEMMA HandleStep ==
  ASSUME KeyInv, NEW k \in kex, HandleKeyExchange(k)
  PROVE  KeyInv'
<1>1. /\ k.from \in Peer /\ k.to \in Peer /\ k.key \in Key
      /\ k.key \in DOMAIN owner /\ owner[k.key] = k.from
  BY DEF KeyInv, KeyTypeOK, KeysAreGenuine, KeyPacket
<1> DEFINE s == Stored(k.to, k.from, k.key)
<1>2. /\ DOMAIN s = DOMAIN peers[k.to] \cup {k.from}
      /\ s \in [DOMAIN s -> Key]
      /\ s[k.from] = k.key
      /\ \A r \in DOMAIN peers[k.to] : r # k.from => s[r] = peers[k.to][r]
  BY <1>1, StoredKeys DEF KeyInv
<1>3. /\ DOMAIN peers' = Peer
      /\ \A p \in Peer : peers'[p] = IF p = k.to THEN s ELSE peers[p]
  BY DEF HandleKeyExchange, KeyInv, KeyTypeOK
<1> HIDE DEF s
<1>4. \A p \in Peer : DOMAIN peers'[p] \subseteq Peer /\ peers'[p] \in [DOMAIN peers'[p] -> Key]
  BY <1>1, <1>2, <1>3 DEF KeyInv, KeyTypeOK
<1>5. \A p \in Peer : \A q \in DOMAIN peers'[p] :
        peers'[p][q] \in DOMAIN owner /\ owner[peers'[p][q]] = q
  BY <1>1, <1>2, <1>3 DEF KeyInv, KeysAreGenuine
<1>6. \A j \in kex' : j \in KeyPacket /\ j.key \in DOMAIN owner /\ owner[j.key] = j.from
  <2> DEFINE r == KeyPacketOf(k.to, k.from, TRUE)
  <2>1. r \in KeyPacket /\ r.key \in DOMAIN owner /\ owner[r.key] = r.from
    BY <1>1, KeyPacketGenuine DEF KeyInv
  <2>2. kex' \subseteq kex \cup {r}
    BY DEF HandleKeyExchange, Sent
  <2> HIDE DEF r
  <2> QED BY <2>1, <2>2 DEF KeyInv, KeyTypeOK, KeysAreGenuine
<1>7. /\ verified' \in [Peer -> SUBSET Peer] /\ UNCHANGED <<key, owner, shown, routes>>
      /\ \A p \in Peer : verified'[p] \subseteq DOMAIN peers'[p]
  BY <1>2, <1>3 DEF HandleKeyExchange, KeyInv, KeyTypeOK
<1> QED BY <1>3, <1>4, <1>5, <1>6, <1>7 DEF KeyInv, KeyTypeOK, KeysAreGenuine

\* A restart with a new key pair leaves every old key with its owner.
LEMMA RegenerateStep ==
  ASSUME KeyInv, NEW p \in Peer, RegenerateKeys(p)
  PROVE  KeyInv'
<1>1. PICK k \in Key \ DOMAIN owner :
        /\ key' = [key EXCEPT ![p] = k]
        /\ owner' = [j \in DOMAIN owner \cup {k} |-> IF j = k THEN p ELSE owner[j]]
  BY DEF RegenerateKeys
<1>2. \A j \in DOMAIN owner : j \in DOMAIN owner' /\ owner'[j] = owner[j]
  BY <1>1
<1>3. DOMAIN owner' \subseteq Key /\ owner' \in [DOMAIN owner' -> Peer]
  BY <1>1 DEF KeyInv, KeyTypeOK
<1>4. \A q \in Peer : key'[q] \in Key /\ key'[q] \in DOMAIN owner' /\ owner'[key'[q]] = q
  BY <1>1, <1>2 DEF KeyInv, KeyTypeOK
<1>5. key' \in [Peer -> Key]
  BY <1>1 DEF KeyInv, KeyTypeOK
<1>6. routes' \in [Peer -> SUBSET Peer] /\ UNCHANGED <<peers, verified, shown, kex>>
  BY DEF RegenerateKeys, KeyInv, KeyTypeOK
<1>7. KeyTypeOK'
  BY <1>3, <1>4, <1>5, <1>6 DEF KeyInv, KeyTypeOK
<1>8. KeysAreGenuine'
  BY <1>2, <1>6 DEF KeyInv, KeyTypeOK, KeysAreGenuine
<1> QED BY <1>7, <1>8 DEF KeyInv

\* The steps that change neither a key nor a packet but for losing it.
LEMMA OtherSteps ==
  ASSUME KeyInv, NEW p \in Peer, NEW q \in Peer,
         \/ ShowSafetyNumber(p, q) \/ Verify(p, q) \/ Unverify(p, q) \/ Shutdown(p)
         \/ GainRoute(p, q) \/ LoseRoute(p, q) \/ \E k \in kex : LoseKex(k)
         \/ UNCHANGED keyVars
  PROVE  KeyInv'
<1>1. /\ UNCHANGED <<key, owner, peers>> /\ kex' \subseteq kex
      /\ verified' \in [Peer -> SUBSET Peer] /\ routes' \in [Peer -> SUBSET Peer]
      /\ \A r \in Peer : verified'[r] \subseteq DOMAIN peers[r]
      /\ shown' \in [Peer -> [Peer -> SUBSET Key]]
  <2> USE DEF KeyInv, KeyTypeOK
  <2>1. CASE Verify(p, q)
    BY <2>1 DEF Verify, Knows
  <2>2. CASE Unverify(p, q)
    BY <2>2 DEF Unverify
  <2>3. CASE Shutdown(p)
    BY <2>3 DEF Shutdown
  <2>4. CASE GainRoute(p, q)
    BY <2>4 DEF GainRoute, cryptoVars
  <2>5. CASE LoseRoute(p, q)
    BY <2>5 DEF LoseRoute, cryptoVars
  <2>6. CASE \E k \in kex : LoseKex(k)
    BY <2>6 DEF LoseKex, cryptoVars
  <2>7. CASE UNCHANGED keyVars
    BY <2>7 DEF keyVars
  <2>8. CASE ShowSafetyNumber(p, q)
    <3>1. SafetyNumber(p, q) \in SUBSET Key
      BY <2>8 DEF ShowSafetyNumber, SafetyNumber, Knows
    <3> QED BY <2>8, <3>1 DEF ShowSafetyNumber
  <2> QED BY <2>1, <2>2, <2>3, <2>4, <2>5, <2>6, <2>7, <2>8
<1>2. KeyTypeOK'
  BY <1>1 DEF KeyInv, KeyTypeOK
<1>3. KeysAreGenuine'
  BY <1>1 DEF KeyInv, KeysAreGenuine
<1> QED BY <1>2, <1>3 DEF KeyInv

\* Every step of the key exchange keeps the invariant.
LEMMA KeyStep == KeyInv /\ [KeyNext]_keyVars => KeyInv'
<1> SUFFICES ASSUME KeyInv, [KeyNext]_keyVars PROVE KeyInv'
  OBVIOUS
<1>1. ASSUME NEW p \in Peer, NEW q \in Peer, RequestKey(p, q) PROVE KeyInv'
  <2>1. kex' = kex \cup Sent(p, q, KeyPacketOf(p, q, FALSE))
    BY <1>1 DEF RequestKey, Sent
  <2> QED BY <1>1, <2>1, RequestStep DEF RequestKey
<1>2. ASSUME NEW k \in kex, LoseKex(k) PROVE KeyInv'
  <2>1. k.to \in Peer
    BY DEF KeyInv, KeyTypeOK, KeyPacket
  <2> QED BY <1>2, <2>1, OtherSteps
<1>3. CASE UNCHANGED keyVars
  BY <1>3 DEF keyVars, cryptoVars, KeyInv, KeyTypeOK, KeysAreGenuine
<1> QED
  BY <1>1, <1>2, <1>3, HandleStep, RegenerateStep, OtherSteps
  DEF KeyNext, InitiateKex, ReexchangeKeys, DeliverKex

\* The initial state satisfies the invariant.
LEMMA KeyInitInv == KeyInit => KeyInv
<1> SUFFICES ASSUME KeyInit PROVE KeyInv
  OBVIOUS
<1>1. /\ DOMAIN owner \subseteq Key /\ owner \in [DOMAIN owner -> Peer]
      /\ \A p \in Peer : key[p] \in DOMAIN owner /\ owner[key[p]] = p
  <2>1. owner = [k \in Range(key) |-> CHOOSE p \in Peer : key[p] = k]
    BY DEF KeyInit
  <2>2. key \in {k \in [Peer -> Key] : IsInjective(k)}
    BY DEF KeyInit
  <2> QED BY <2>1, <2>2, InitialKeys
<1>2. /\ key \in [Peer -> Key] /\ verified \in [Peer -> SUBSET Peer]
      /\ routes \in [Peer -> SUBSET Peer] /\ kex = {}
      /\ DOMAIN peers = Peer /\ \A p \in Peer : DOMAIN peers[p] = {}
      /\ \A p \in Peer : peers[p] \in [DOMAIN peers[p] -> Key] /\ verified[p] = {}
      /\ shown \in [Peer -> [Peer -> SUBSET Key]]
  BY DEF KeyInit
<1> QED BY <1>1, <1>2 DEF KeyInv, KeyTypeOK, KeysAreGenuine

---------------------------------------------------------------------------
(* Theorems                                                              *)

\* The invariant holds in every behaviour of the key exchange.
THEOREM KeyInvariant == KeySpec => []KeyInv
  BY KeyInitInv, KeyStep, PTL DEF KeySpec

\* The key state stays well typed, and every peer owns its key pair.
THEOREM KeyTypeCorrect == KeySpec => []KeyTypeOK
<1>1. KeyInv => KeyTypeOK
  BY DEF KeyInv
<1> QED BY <1>1, KeyInvariant, PTL

\* No reordering, loss or restart attributes a key to another peer than
\* the one that generated it.
THEOREM KeysGenuine == KeySpec => []KeysAreGenuine
<1>1. KeyInv => KeysAreGenuine
  BY DEF KeyInv
<1> QED BY <1>1, KeyInvariant, PTL

\* Users who see equal safety numbers hold each other's current keys.
THEOREM EqualNumbers == KeySpec => []EqualNumbersMeanCurrentKeys
<1>1. KeyInv => EqualNumbersMeanCurrentKeys
  <2> SUFFICES ASSUME KeyInv,
                      NEW p \in Peer, NEW q \in Peer, p # q, Knows(p, q), Knows(q, p),
                      SafetyNumber(p, q) = SafetyNumber(q, p)
               PROVE  peers[p][q] = key[q] /\ peers[q][p] = key[p]
    BY DEF EqualNumbersMeanCurrentKeys
  <2>1. owner[key[p]] = p /\ owner[key[q]] = q
    BY DEF KeyInv, KeyTypeOK
  <2>2. owner[peers[p][q]] = q /\ owner[peers[q][p]] = p
    BY DEF KeyInv, KeysAreGenuine, Knows
  <2>3. {key[p], peers[p][q]} = {key[q], peers[q][p]}
    BY DEF SafetyNumber
  <2>4. key[q] \in {key[p], peers[p][q]} /\ key[p] \in {key[q], peers[q][p]}
    BY <2>3
  <2> QED BY <2>1, <2>2, <2>4
<1> QED BY <1>1, KeyInvariant, PTL

\* What MarkStaysWithKey says of one step.
MarksStay ==
  \A p \in Peer : \A q \in verified[p] \cap verified'[p] : peers'[p][q] = peers[p][q]

\* A verification mark never moves to another key.
THEOREM MarksStayWithKeys == KeySpec => MarkStaysWithKey
<1>1. KeyInv /\ [KeyNext]_keyVars => [MarksStay]_keyVars
  <2> SUFFICES ASSUME KeyInv, KeyNext PROVE MarksStay
    OBVIOUS
  <2>1. ASSUME NEW k \in kex, HandleKeyExchange(k) PROVE MarksStay
    <3>1. k.from \in Peer /\ k.to \in Peer /\ k.key \in Key
      BY DEF KeyInv, KeyTypeOK, KeyPacket
    <3>2. ASSUME NEW p \in Peer, NEW q \in verified[p] \cap verified'[p]
          PROVE  peers'[p][q] = peers[p][q]
      <4>1. CASE p = k.to
        <5>1. q # k.from /\ peers'[p] = Stored(k.to, k.from, k.key)
          BY <2>1, <3>1, <4>1 DEF HandleKeyExchange, KeyInv, KeyTypeOK
        <5>2. q \in DOMAIN peers[p]
          BY <3>2 DEF KeyInv, KeyTypeOK
        <5> QED BY <4>1, <5>1, <5>2 DEF Stored
      <4>2. CASE p # k.to
        BY <2>1, <4>2 DEF HandleKeyExchange, KeyInv, KeyTypeOK
      <4> QED BY <4>1, <4>2
    <3> QED BY <3>2 DEF MarksStay
  <2>2. ASSUME peers' = peers PROVE MarksStay
    BY <2>2 DEF MarksStay
  <2> QED
    BY <2>1, <2>2 DEF KeyNext, InitiateKex, ReexchangeKeys, RequestKey, DeliverKex, LoseKex,
       ShowSafetyNumber, Verify, Unverify, Shutdown, RegenerateKeys, GainRoute, LoseRoute, cryptoVars
<1> QED BY <1>1, KeyInvariant, PTL DEF KeySpec, MarkStaysWithKey, MarksStay

===========================================================================
