----------------------------- MODULE Delivery -----------------------------
(* A chat message from one peer to another: the send endpoints of        *)
(* app/api/peer.py, the MESSAGE and ACK handlers and the resend loop of  *)
(* app/server.py, and the messages table (app/crud/messages.py).         *)
(*                                                                       *)
(* Handlers run on one event loop and can be suspended wherever they     *)
(* send, so what follows a send is an action of its own. A packet that   *)
(* is delayed, reordered or lost stands for every delay and loss on the  *)
(* way: connecting, retrying, relaying and buffering.                    *)
EXTENDS KeyExchange

CONSTANTS
  Message,         \* messages, by message_id
  Sender,          \* Sender[m]: who writes m
  Recipient,       \* Recipient[m]: whom m is for
  MaxRetries,      \* MESSAGE_MAX_RETRIES
  Worlds           \* the circumstances considered

\* Lost packets, peers that die and start again, lost routes.
Fault == {"loss", "restart", "outage"}

\* Whether the peers have exchanged keys before, whether delays and outages
\* are shorter than resend_interval, and as bounds the messages that users
\* write and how many faults of each kind there are.
World == [acquainted : BOOLEAN, prompt : BOOLEAN, written : SUBSET Message,
          max : [Fault -> Nat]]

ASSUME MessageAssumption ==
  /\ Sender \in [Message -> Peer] /\ Recipient \in [Message -> Peer]
  /\ \A m \in Message : Sender[m] # Recipient[m]
  /\ MaxRetries \in Nat /\ Worlds \subseteq World

VARIABLES
  status,     \* status[m]: the row of m in the sender's messages table
  retries,    \* retries[m]: its retry_count
  queue,      \* queue[p]: rows p's resend loop has still to go through
  mail,       \* MESSAGE packets under way
  acks,       \* ACK packets under way, by message_id
  storing,    \* messages acknowledged and about to be stored
  unstored,   \* history: messages in storing when their recipient died
  inbox,      \* messages stored by their recipient
  decrypted,  \* messages their recipient ever decrypted
  faults,     \* how many losses, restarts and outages there were
  world

mailVars == <<status, retries, queue, mail, acks, storing, unstored, inbox, decrypted>>
vars == <<keyVars, mailVars, faults, world>>

\* "new": not written yet. "sending": the endpoint has not saved the row.
\* "failed": the process died before it did. "deleted": given up.
Status == {"new", "sending", "pending", "delivered", "deleted", "failed"}

\* A sealed message opens for the pair of keys it was sealed with.
Sealed == [id : Message, by : Key, for : Key]

DeliveryTypeOK ==
  /\ KeyTypeOK
  /\ status \in [Message -> Status]
  /\ retries \in [Message -> 0..MaxRetries]
  /\ queue \in [Peer -> SUBSET Message]
  /\ mail \subseteq Sealed /\ acks \subseteq Message
  /\ storing \subseteq Message /\ unstored \subseteq Message
  /\ inbox \subseteq Message /\ decrypted \subseteq Message
  /\ faults \in [Fault -> Nat] /\ world \in World

Init ==
  /\ world \in Worlds
  /\ key \in {k \in [Peer -> Key] : IsInjective(k)}
  /\ owner = [k \in Range(key) |-> CHOOSE p \in Peer : key[p] = k]
  /\ peers = [p \in Peer |-> [q \in IF world.acquainted THEN Peer \ {p} ELSE {} |-> key[q]]]
  /\ verified = [p \in Peer |-> {}]
  /\ shown = [p \in Peer |-> [q \in Peer |-> {}]]
  /\ routes = [p \in Peer |-> Peer \ {p}]
  /\ kex = {}
  /\ status = [m \in Message |-> "new"]
  /\ retries = [m \in Message |-> 0]
  /\ queue = [p \in Peer |-> {}]
  /\ mail = {} /\ acks = {} /\ storing = {} /\ unstored = {}
  /\ inbox = {} /\ decrypted = {}
  /\ faults = [f \in Fault |-> 0]

---------------------------------------------------------------------------
(* The sender                                                            *)

\* Seal m for the key p has of its recipient now and send it.
Transmitted(m) ==
  LET p == Sender[m]  q == Recipient[m]
  IN  IF Knows(p, q) THEN Sent(p, q, [id |-> m, by |-> key[p], for |-> peers[p][q]])
                     ELSE {}

\* The endpoint sends m, or asks for the missing key when there is a route.
SendMessage(m) ==
  LET p == Sender[m]  q == Recipient[m]
  IN  /\ status[m] = "new" /\ m \in world.written
      /\ status' = [status EXCEPT ![m] = "sending"]
      /\ mail' = mail \cup Transmitted(m)
      /\ kex' = IF Knows(p, q) THEN kex ELSE kex \cup Sent(p, q, KeyPacketOf(p, q, FALSE))
      /\ UNCHANGED <<cryptoVars, routes, retries, queue, acks, storing, unstored, inbox,
                     decrypted, faults, world>>

\* save_message, once the endpoint's send is over.
SaveMessage(m) ==
  /\ status[m] = "sending"
  /\ status' = [status EXCEPT ![m] = "pending"]
  /\ UNCHANGED <<keyVars, retries, queue, mail, acks, storing, unstored, inbox,
                 decrypted, faults, world>>

Pending(p) == {m \in Message : Sender[m] = p /\ status[m] = "pending"}
Exhausted  == {m \in Message : retries[m] >= MaxRetries}

\* Nothing is under way and every route is there.
Quiet ==
  /\ mail = {} /\ acks = {} /\ kex = {}
  /\ routes = [p \in Peer |-> Peer \ {p}]

\* MESSAGE_TTL is an hour and retries are used up within a minute: a row
\* gets that old only while the process is down.
MayHaveExpired(p) == IF faults["restart"] > 0 /\ ~world.prompt THEN Pending(p) ELSE {}

\* The resend loop wakes up: exhausted and expired rows are deleted, the
\* others taken down for this round.
StartResending(p) ==
  /\ queue[p] = {} /\ Pending(p) # {}
  /\ world.prompt => Quiet
  /\ \E expired \in SUBSET MayHaveExpired(p) :
       LET gone == expired \cup (Pending(p) \cap Exhausted)
       IN  /\ status' = [m \in Message |-> IF m \in gone THEN "deleted" ELSE status[m]]
           /\ queue' = [queue EXCEPT ![p] = Pending(p) \ gone]
  /\ UNCHANGED <<keyVars, retries, mail, acks, storing, unstored, inbox, decrypted,
                 faults, world>>

\* Fault: only an attempt that sends something counts.
ResendCountingSent(m) ==
  /\ m \in queue[Sender[m]]
  /\ queue' = [queue EXCEPT ![Sender[m]] = @ \ {m}]
  /\ retries' = IF Transmitted(m) = {} THEN retries ELSE [retries EXCEPT ![m] = @ + 1]
  /\ mail' = mail \cup Transmitted(m)
  /\ UNCHANGED <<keyVars, status, acks, storing, unstored, inbox, decrypted, faults, world>>

\* Fault: a message that was sent again counts as delivered.
ResendDelivering(m) ==
  /\ m \in queue[Sender[m]]
  /\ queue' = [queue EXCEPT ![Sender[m]] = @ \ {m}]
  /\ retries' = [retries EXCEPT ![m] = @ + 1]
  /\ mail' = mail \cup Transmitted(m)
  /\ status' = IF Transmitted(m) = {} THEN status ELSE [status EXCEPT ![m] = "delivered"]
  /\ UNCHANGED <<keyVars, acks, storing, unstored, inbox, decrypted, faults, world>>

\* The attempt counts before the loop looks for a route and a key, and
\* even if the row was acknowledged since it was taken down.
Resend(m) ==
  /\ m \in queue[Sender[m]]
  /\ queue' = [queue EXCEPT ![Sender[m]] = @ \ {m}]
  /\ retries' = [retries EXCEPT ![m] = @ + 1]
  /\ mail' = mail \cup Transmitted(m)
  /\ UNCHANGED <<keyVars, status, acks, storing, unstored, inbox, decrypted, faults, world>>

\* mark_delivered touches a row only if there is one.
HandleAck(m) ==
  /\ m \in acks
  /\ acks' = acks \ {m}
  /\ status' = [status EXCEPT ![m] = IF @ = "pending" THEN "delivered" ELSE @]
  /\ UNCHANGED <<keyVars, retries, queue, mail, storing, unstored, inbox, decrypted,
                 faults, world>>

---------------------------------------------------------------------------
(* The recipient                                                         *)

Opens(s) ==
  LET p == Recipient[s.id]  q == Sender[s.id]
  IN  Knows(p, q) /\ peers[p][q] = s.by /\ key[p] = s.for

\* Acknowledge a message that opens, and go on to store it.
AcceptMessage(s) ==
  /\ Opens(s)
  /\ mail' = mail \ {s}
  /\ acks' = acks \cup Sent(Recipient[s.id], Sender[s.id], s.id)
  /\ storing' = storing \cup {s.id}
  /\ decrypted' = decrypted \cup {s.id}
  /\ UNCHANGED <<keyVars, status, retries, queue, unstored, inbox, faults, world>>

\* Fault: a message that does not open asks for no key.
RejectSilently(s) ==
  /\ ~Opens(s)
  /\ mail' = mail \ {s}
  /\ UNCHANGED <<keyVars, status, retries, queue, acks, storing, unstored, inbox,
                 decrypted, faults, world>>

\* Drop a message that does not, and send the own key, asking for theirs.
RejectMessage(s) ==
  LET p == Recipient[s.id]  q == Sender[s.id]
  IN  /\ ~Opens(s)
      /\ mail' = mail \ {s}
      /\ kex' = kex \cup Sent(p, q, KeyPacketOf(p, q, FALSE))
      /\ UNCHANGED <<cryptoVars, routes, status, retries, queue, acks, storing, unstored,
                     inbox, decrypted, faults, world>>

HandleMessage(m) == \E s \in mail : s.id = m /\ (AcceptMessage(s) \/ RejectMessage(s))

\* INSERT OR IGNORE: a message that came before is not stored again.
StoreMessage(m) ==
  /\ m \in storing
  /\ storing' = storing \ {m}
  /\ inbox' = inbox \cup {m}
  /\ UNCHANGED <<keyVars, status, retries, queue, mail, acks, unstored, decrypted,
                 faults, world>>

---------------------------------------------------------------------------
(* Keys, routes and faults                                               *)

HandleKex(p, q) == DeliverKex(p, q) /\ UNCHANGED <<mailVars, faults, world>>

Counted(f) ==
  /\ faults[f] < world.max[f]
  /\ faults' = [faults EXCEPT ![f] = @ + 1]
  /\ UNCHANGED world

Lose ==
  /\ Counted("loss")
  /\ \/ \E s \in mail : mail' = mail \ {s} /\ UNCHANGED <<kex, acks>>
     \/ \E m \in acks : acks' = acks \ {m} /\ UNCHANGED <<kex, mail>>
     \/ \E k \in kex  : kex' = kex \ {k} /\ UNCHANGED <<mail, acks>>
  /\ UNCHANGED <<cryptoVars, routes, status, retries, queue, storing, unstored, inbox,
                 decrypted>>

Outage(p, q) ==
  /\ Counted("outage")
  /\ LoseRoute(p, q)
  /\ UNCHANGED mailVars

Repair(p, q) == GainRoute(p, q) /\ UNCHANGED <<mailVars, faults, world>>

\* What p was doing is gone; its tables stay.
Forget(p) ==
  /\ Counted("restart")
  /\ status' = [m \in Message |->
       IF Sender[m] = p /\ status[m] = "sending" THEN "failed" ELSE status[m]]
  /\ queue' = [queue EXCEPT ![p] = {}]
  /\ storing' = {m \in storing : Recipient[m] # p}
  /\ unstored' = unstored \cup (storing \ storing')
  /\ UNCHANGED <<retries, mail, acks, inbox, decrypted>>

Restart(p)        == Shutdown(p) /\ Forget(p)
RestartNewKeys(p) == RegenerateKeys(p) /\ Forget(p)

Next ==
  \/ \E m \in Message : \/ SendMessage(m)
                        \/ SaveMessage(m)
                        \/ Resend(m)
                        \/ HandleAck(m)
                        \/ HandleMessage(m)
                        \/ StoreMessage(m)
  \/ \E p \in Peer : StartResending(p) \/ Restart(p) \/ RestartNewKeys(p)
  \/ \E p, q \in Peer : HandleKex(p, q) \/ Outage(p, q) \/ Repair(p, q)
  \/ Lose

Spec == Init /\ [][Next]_vars

\* Suspended handlers resume, every read loop handles what it reads, the
\* resend loop keeps waking up and routes come back. Users owe nothing.
Fairness ==
  /\ \A m \in Message : /\ WF_vars(SaveMessage(m))
                        /\ WF_vars(Resend(m))
                        /\ WF_vars(HandleAck(m))
                        /\ WF_vars(HandleMessage(m))
                        /\ WF_vars(StoreMessage(m))
  /\ \A p \in Peer : WF_vars(StartResending(p))
  /\ \A p, q \in Peer : WF_vars(HandleKex(p, q)) /\ WF_vars(Repair(p, q))

FairSpec == Spec /\ Fairness

---------------------------------------------------------------------------
(* Properties                                                            *)

\* A message counts as delivered, or has an ACK under way, only if its
\* recipient could decrypt it.
AckedWasDecrypted == \A m \in Message : status[m] = "delivered" \/ m \in acks => m \in decrypted

\* A message that counts as delivered has been stored or is about to be.
\* The one exception is a message whose recipient died after that very
\* ACK: no loss, outage, resend, late ACK or other restart parts the two.
DeliveredIsStored ==
  \A m \in Message : status[m] = "delivered" => m \in inbox \cup storing \cup unstored

\* The program implements MessageService, its liveness included: whatever
\* is lost, however often peers restart and routes are lost, what is
\* reported as delivered was received, and every message is settled.
Service == INSTANCE MessageService WITH
  sent      <- {m \in Message : status[m] # "new"},
  received  <- decrypted,
  delivered <- {m \in Message : status[m] = "delivered"},
  givenUp   <- {m \in Message : status[m] \in {"deleted", "failed"}}

ImplementsService     == Service!Spec
ImplementsFairService == Service!FairSpec

\* Between peers that have exchanged keys, a saved message is delivered in
\* spite of a lost packet and of a restart, even one with new keys: the
\* retries cover the exchange of keys as well.
KnownPeersGetMessages ==
  \A m \in Message :
    world.acquainted /\ world.prompt /\ status[m] = "pending" ~> status[m] = "delivered"

\* A message the endpoint reports as "queued for later delivery" for want
\* of a route is delivered once the route is back, if its recipient can
\* answer all along.
QueuedGetsDelivered ==
  \A m \in Message :
    [](Sender[m] \in routes[Recipient[m]]) =>
      (status[m] = "sending" ~> status[m] = "delivered")

===========================================================================
