---------------------------- MODULE KeyExchange ----------------------------
(* Public keys: class Crypto of app/crypto/crypto.py, the keys table of   *)
(* the database, the KEY_EXCHANGE handler of app/server.py and the        *)
(* verification marks of app/api/peer.py.                                 *)
(*                                                                        *)
(* Crypto.peers and the keys table are written together and the first is  *)
(* read from the second at start-up, so one variable stands for both.     *)
(* Relaying is left to module Relay: here a packet reaches its            *)
(* destination, in any order, or is lost.                                 *)
EXTENDS Naturals, FiniteSets, Functions

CONSTANTS
  Peer,      \* the peers, by peer_id
  Key,       \* key pairs; a key pair stands for both its halves
  MaxKex     \* bound: KEY_EXCHANGE packets under way

ASSUME MaxKexAssumption == MaxKex \in Nat

VARIABLES
  key,       \* key[p]: the key pair of p, in its keys directory
  owner,     \* owner[k]: who generated key pair k, for those generated so far
  peers,     \* peers[p]: the public keys p has stored, by peer
  verified,  \* verified[p]: peers whose row in p's keys table is marked verified
  shown,     \* shown[p][q]: the safety number with q on the screen of p's user, or {}
  routes,    \* routes[p]: peers p has a route to
  kex        \* KEY_EXCHANGE packets under way

cryptoVars == <<key, owner, peers, verified, shown>>
keyVars == <<key, owner, peers, verified, shown, routes, kex>>

KeyPacket == [from : Peer, to : Peer, key : Key, reply : BOOLEAN]

KeyTypeOK ==
  /\ key \in [Peer -> Key]
  /\ DOMAIN owner \subseteq Key /\ owner \in [DOMAIN owner -> Peer]
  /\ \A p \in Peer : key[p] \in DOMAIN owner /\ owner[key[p]] = p
  /\ DOMAIN peers = Peer
  /\ \A p \in Peer : DOMAIN peers[p] \subseteq Peer /\ peers[p] \in [DOMAIN peers[p] -> Key]
  /\ verified \in [Peer -> SUBSET Peer] /\ \A p \in Peer : verified[p] \subseteq DOMAIN peers[p]
  /\ shown \in [Peer -> [Peer -> SUBSET Key]]
  /\ routes \in [Peer -> SUBSET Peer]
  /\ kex \subseteq KeyPacket

KeyInit ==
  /\ key \in {k \in [Peer -> Key] : IsInjective(k)}
  /\ owner = [k \in Range(key) |-> CHOOSE p \in Peer : key[p] = k]
  /\ peers = [p \in Peer |-> [q \in {} |-> key[p]]]
  /\ verified = [p \in Peer |-> {}]
  /\ shown = [p \in Peer |-> [q \in Peer |-> {}]]
  /\ routes = [p \in Peer |-> {}]
  /\ kex = {}

Knows(p, q) == q \in DOMAIN peers[p]

\* add_peer
Stored(p, q, k) == [r \in DOMAIN peers[p] \cup {q} |-> IF r = q THEN k ELSE peers[p][r]]

\* What send_to_peer puts on its way: nothing without a route.
Sent(p, q, packet) == IF q \in routes[p] THEN {packet} ELSE {}

KeyPacketOf(p, q, isReply) == [from |-> p, to |-> q, key |-> key[p], reply |-> isReply]

---------------------------------------------------------------------------
\* p sends its key to q and asks for q's.
RequestKey(p, q) ==
  /\ q \in routes[p]
  /\ Cardinality(kex) < MaxKex
  /\ kex' = kex \cup {KeyPacketOf(p, q, FALSE)}
  /\ UNCHANGED <<cryptoVars, routes>>

\* The API wants to send to q and has a route but no key.
InitiateKex(p, q) == ~Knows(p, q) /\ RequestKey(p, q)

\* p could not decrypt what q sent.
ReexchangeKeys(p, q) == Knows(q, p) /\ RequestKey(p, q)

\* Fault: the answer sends the received key back.
EchoKey(k) ==
  /\ peers' = [peers EXCEPT ![k.to] = Stored(k.to, k.from, k.key)]
  /\ verified' = [verified EXCEPT ![k.to] = @ \ {k.from}]
  /\ kex' = (kex \ {k}) \cup IF k.reply THEN {} ELSE
       Sent(k.to, k.from, [KeyPacketOf(k.to, k.from, TRUE) EXCEPT !.key = k.key])
  /\ UNCHANGED <<key, owner, shown, routes>>

\* Fault: a changed key keeps the mark of the old one.
KeepMark(k) ==
  /\ peers' = [peers EXCEPT ![k.to] = Stored(k.to, k.from, k.key)]
  /\ kex' = (kex \ {k}) \cup
       IF k.reply THEN {} ELSE Sent(k.to, k.from, KeyPacketOf(k.to, k.from, TRUE))
  /\ UNCHANGED <<key, owner, verified, shown, routes>>

\* Fault: answers are answered.
AnswerAlways(k) ==
  /\ peers' = [peers EXCEPT ![k.to] = Stored(k.to, k.from, k.key)]
  /\ verified' = [verified EXCEPT ![k.to] = @ \ {k.from}]
  /\ kex' = (kex \ {k}) \cup Sent(k.to, k.from, KeyPacketOf(k.to, k.from, FALSE))
  /\ UNCHANGED <<key, owner, shown, routes>>

\* The key is stored whether it changed or not. Storing replaces the row,
\* so the mark goes in either case. A request is always answered.
HandleKeyExchange(k) ==
  /\ peers' = [peers EXCEPT ![k.to] = Stored(k.to, k.from, k.key)]
  /\ verified' = [verified EXCEPT ![k.to] = @ \ {k.from}]
  /\ kex' = (kex \ {k}) \cup
       IF k.reply THEN {} ELSE Sent(k.to, k.from, KeyPacketOf(k.to, k.from, TRUE))
  /\ UNCHANGED <<key, owner, shown, routes>>

DeliverKex(p, q) == \E k \in kex : k.from = p /\ k.to = q /\ HandleKeyExchange(k)

LoseKex(k) ==
  /\ kex' = kex \ {k}
  /\ UNCHANGED <<cryptoVars, routes>>

\* The digits the users of p and q compare are computed from both public
\* keys, whichever side computes them. Collisions of eight digits are left
\* out.
SafetyNumber(p, q) == {key[p], peers[p][q]}

\* The page of p's user asks for the number and shows it until it asks again.
ShowSafetyNumber(p, q) ==
  /\ Knows(p, q)
  /\ shown' = [shown EXCEPT ![p][q] = SafetyNumber(p, q)]
  /\ UNCHANGED <<key, owner, peers, verified, routes, kex>>

\* The user marks q after looking at the number, however long ago. The
\* request names the peer and not the key or the number it is about.
Verify(p, q) ==
  /\ shown[p][q] # {}
  /\ Knows(p, q)
  /\ verified' = [verified EXCEPT ![p] = @ \cup {q}]
  /\ UNCHANGED <<key, owner, peers, shown, routes, kex>>

\* The user takes the mark back.
Unverify(p, q) ==
  /\ Knows(p, q)
  /\ verified' = [verified EXCEPT ![p] = @ \ {q}]
  /\ UNCHANGED <<key, owner, peers, shown, routes, kex>>

\* p stops and starts again. A clean shutdown writes every stored key back,
\* which replaces the rows once more.
Shutdown(p) ==
  /\ verified' = [verified EXCEPT ![p] = {}]
  /\ routes' = [routes EXCEPT ![p] = {}]
  /\ UNCHANGED <<key, owner, peers, shown, kex>>

\* p starts without its keys directory and generates a key pair.
RegenerateKeys(p) ==
  /\ \E k \in Key \ DOMAIN owner :
       /\ key' = [key EXCEPT ![p] = k]
       /\ owner' = [j \in DOMAIN owner \cup {k} |-> IF j = k THEN p ELSE owner[j]]
  /\ routes' = [routes EXCEPT ![p] = {}]
  /\ UNCHANGED <<peers, verified, shown, kex>>

\* The routing table gains or loses a route.
GainRoute(p, q) ==
  /\ p # q /\ q \notin routes[p]
  /\ routes' = [routes EXCEPT ![p] = @ \cup {q}]
  /\ UNCHANGED <<cryptoVars, kex>>

LoseRoute(p, q) ==
  /\ q \in routes[p]
  /\ routes' = [routes EXCEPT ![p] = @ \ {q}]
  /\ UNCHANGED <<cryptoVars, kex>>

KeyNext ==
  \/ \E p, q \in Peer : \/ InitiateKex(p, q)
                        \/ ReexchangeKeys(p, q)
                        \/ DeliverKex(p, q)
                        \/ ShowSafetyNumber(p, q)
                        \/ Verify(p, q)
                        \/ Unverify(p, q)
                        \/ GainRoute(p, q)
                        \/ LoseRoute(p, q)
  \/ \E p \in Peer : Shutdown(p) \/ RegenerateKeys(p)
  \/ \E k \in kex : LoseKex(k)

KeySpec == KeyInit /\ [][KeyNext]_keyVars

\* Read loops handle what they read; nothing else is scheduled by the
\* program.
KeyFairSpec == KeySpec /\ \A p, q \in Peer : WF_keyVars(DeliverKex(p, q))

---------------------------------------------------------------------------
(* Properties                                                            *)

\* Whatever is reordered or lost, a key that is stored for a peer, or under
\* way from it, was generated by that peer.
KeysAreGenuine ==
  /\ \A p \in Peer : \A q \in DOMAIN peers[p] :
       peers[p][q] \in DOMAIN owner /\ owner[peers[p][q]] = q
  /\ \A k \in kex : k.key \in DOMAIN owner /\ owner[k.key] = k.from

\* A verification mark never moves to another key: a mark that survives a
\* step still marks the key it marked before.
MarkStaysWithKey ==
  [][\A p \in Peer : \A q \in verified[p] \cap verified'[p] :
       peers'[p][q] = peers[p][q]]_keyVars

\* Two users who see the same number each hold the current key of the
\* other: a stale or missed KEY_EXCHANGE shows as different numbers.
EqualNumbersMeanCurrentKeys ==
  \A p, q \in Peer :
    p # q /\ Knows(p, q) /\ Knows(q, p) /\ SafetyNumber(p, q) = SafetyNumber(q, p) =>
      peers[p][q] = key[q] /\ peers[q][p] = key[p]

\* Requests do not breed: unless peers keep asking for keys, the exchange
\* comes to an end (is_reply, "prevents an infinite ping-pong loop").
ExchangeEnds ==
  []<><<\E p, q \in Peer : InitiateKex(p, q) \/ ReexchangeKeys(p, q)>>_keyVars
    \/ <>[](kex = {})

\* A handled KEY_EXCHANGE costs the mark only when the key is new or has
\* changed (reset_verified=key_changed in _handle_key_exchange).
MarkLostOnlyOnKeyChange ==
  [][\A k \in kex : HandleKeyExchange(k) =>
       \A q \in verified[k.to] \ verified'[k.to] : peers'[k.to][q] # peers[k.to][q]]_keyVars

\* A peer is marked "after out-of-band safety number comparison"
\* (verify_peer): the key that gets the mark is one whose number the user
\* saw.
MarkIsForShownKey ==
  [][\A p, q \in Peer : Verify(p, q) => peers[p][q] \in shown[p][q]]_keyVars

===========================================================================
