-------------------------- MODULE DeliveryProofs --------------------------
(* Safety of Delivery for any peers, messages, retries and faults, and   *)
(* that Delivery implements MessageService.                              *)
EXTENDS Delivery, KeyProofs

\* What the resend loop took down are its own rows, with retries left.
QueueInv ==
  \A p \in Peer : \A m \in queue[p] :
    Sender[m] = p /\ retries[m] < MaxRetries /\ status[m] # "new"

\* Nothing is on its way, or was read, that was not sent.
Origin ==
  /\ \A s \in mail : status[s.id] # "new"
  /\ \A m \in decrypted : status[m] # "new"

IInv == DeliveryTypeOK /\ KeysAreGenuine /\ QueueInv /\ Origin /\ AckedWasDecrypted

\* A packet of the resend loop or of an endpoint is a sealed message.
LEMMA TransmittedSealed ==
  ASSUME KeyTypeOK, NEW m \in Message
  PROVE  \A s \in Transmitted(m) : s \in Sealed /\ s.id = m
<1>1. Sender[m] \in Peer /\ Recipient[m] \in Peer
  BY MessageAssumption
<1>2. Knows(Sender[m], Recipient[m]) => peers[Sender[m]][Recipient[m]] \in Key
  BY <1>1 DEF Knows, KeyTypeOK
<1>3. key[Sender[m]] \in Key
  BY <1>1 DEF KeyTypeOK
<1> QED BY <1>2, <1>3 DEF Transmitted, Sent, Sealed

\* The initial state satisfies the invariant.
LEMMA InitIInv == Init => IInv
<1> SUFFICES ASSUME Init PROVE IInv
  OBVIOUS
<1>1. /\ DOMAIN owner \subseteq Key /\ owner \in [DOMAIN owner -> Peer]
      /\ \A p \in Peer : key[p] \in DOMAIN owner /\ owner[key[p]] = p
  <2>1. owner = [k \in Range(key) |-> CHOOSE p \in Peer : key[p] = k]
    BY DEF Init
  <2>2. key \in {k \in [Peer -> Key] : IsInjective(k)}
    BY DEF Init
  <2> QED BY <2>1, <2>2, InitialKeys
<1>2. /\ key \in [Peer -> Key] /\ verified = [p \in Peer |-> {}]
      /\ shown \in [Peer -> [Peer -> SUBSET Key]]
      /\ routes \in [Peer -> SUBSET Peer] /\ kex = {}
  BY DEF Init
<1>3. /\ DOMAIN peers = Peer
      /\ \A p \in Peer : /\ DOMAIN peers[p] \subseteq Peer
                         /\ \A q \in DOMAIN peers[p] : peers[p][q] = key[q]
                         /\ peers[p] \in [DOMAIN peers[p] -> Key]
  BY <1>2 DEF Init
<1>4. KeyTypeOK
  BY <1>1, <1>2, <1>3 DEF KeyTypeOK
<1>5. KeysAreGenuine
  BY <1>1, <1>2, <1>3 DEF KeysAreGenuine
<1>6. DeliveryTypeOK
  BY <1>4, MessageAssumption DEF Init, DeliveryTypeOK, Status
<1> QED BY <1>5, <1>6 DEF Init, IInv, QueueInv, Origin, AckedWasDecrypted

---------------------------------------------------------------------------
(* The steps, grouped by what they change                                *)

\* Each kind of fault keeps the counters typed.
LEMMA CountedType ==
  ASSUME faults \in [Fault -> Nat],
         NEW f \in Fault, Counted(f)
  PROVE  faults' \in [Fault -> Nat] /\ world' = world
  BY DEF Counted

\* A step that leaves the messages alone.
LEMMA KeyOnlyStep ==
  ASSUME IInv, KeyInv', UNCHANGED <<mailVars, world>>,
         faults' \in [Fault -> Nat]
  PROVE  IInv'
  BY DEF IInv, KeyInv, DeliveryTypeOK, QueueInv, Origin, AckedWasDecrypted, mailVars

\* Writing a message, and sending or asking for a key.
LEMMA SendStep ==
  ASSUME IInv, NEW m \in Message, SendMessage(m)
  PROVE  IInv'
<1> USE DEF IInv, DeliveryTypeOK
<1>1. KeyInv'
  <2>1. Sender[m] \in Peer /\ Recipient[m] \in Peer /\ KeyInv
    BY MessageAssumption DEF KeyInv
  <2>2. CASE Knows(Sender[m], Recipient[m])
    <3>1. UNCHANGED keyVars
      BY <2>2 DEF SendMessage, keyVars, cryptoVars
    <3> QED BY <2>1, <3>1, OtherSteps
  <2>3. CASE ~Knows(Sender[m], Recipient[m])
    BY <2>1, <2>3, RequestStep DEF SendMessage
  <2> QED BY <2>2, <2>3
<1>2. status' = [status EXCEPT ![m] = "sending"] /\ status' \in [Message -> Status]
  BY DEF SendMessage, Status
<1>3. /\ mail' = mail \cup Transmitted(m)
      /\ UNCHANGED <<retries, queue, acks, storing, unstored, inbox, decrypted, faults, world>>
  BY DEF SendMessage
<1>4. \A s \in mail' : s \in Sealed /\ status'[s.id] # "new"
  <2>1. \A s \in mail : s \in Sealed /\ s.id \in Message /\ status[s.id] # "new"
    BY DEF Origin, Sealed
  <2> QED BY <1>2, <1>3, <2>1, TransmittedSealed
<1>5. DeliveryTypeOK'
  BY <1>1, <1>2, <1>3, <1>4 DEF KeyInv
<1>6. \A n \in Message : status[n] # "new" => status'[n] = status[n]
  BY <1>2 DEF SendMessage
<1>7. QueueInv' /\ Origin' /\ AckedWasDecrypted'
  BY <1>2, <1>3, <1>4, <1>6 DEF QueueInv, Origin, AckedWasDecrypted
<1> QED BY <1>1, <1>5, <1>7 DEF KeyInv

\* Saving the row, going through it again, and its acknowledgement.
LEMMA SenderStep ==
  ASSUME IInv, NEW m \in Message, SaveMessage(m) \/ Resend(m) \/ HandleAck(m)
  PROVE  IInv'
<1> USE DEF IInv, DeliveryTypeOK
<1>1. CASE SaveMessage(m)
  BY <1>1 DEF SaveMessage, keyVars, cryptoVars, KeyTypeOK, KeysAreGenuine, Status, QueueInv,
     Origin, AckedWasDecrypted
<1>2. CASE HandleAck(m)
  BY <1>2 DEF HandleAck, keyVars, cryptoVars, KeyTypeOK, KeysAreGenuine, Status, QueueInv,
     Origin, AckedWasDecrypted
<1>3. CASE Resend(m)
  <2>1. KeyTypeOK' /\ KeysAreGenuine'
    BY <1>3 DEF Resend, keyVars, cryptoVars, KeyTypeOK, KeysAreGenuine
  <2>2. /\ Sender[m] \in Peer /\ m \in queue[Sender[m]]
        /\ retries[m] < MaxRetries /\ status[m] # "new"
    BY <1>3, MessageAssumption DEF Resend, QueueInv
  <2>3. /\ retries' = [retries EXCEPT ![m] = @ + 1]
        /\ queue' = [queue EXCEPT ![Sender[m]] = @ \ {m}]
        /\ mail' = mail \cup Transmitted(m)
        /\ UNCHANGED <<status, acks, storing, unstored, inbox, decrypted, faults, world>>
    BY <1>3 DEF Resend
  <2>4. retries[m] + 1 \in 0..MaxRetries
    BY <2>2, MessageAssumption
  <2>5. retries' \in [Message -> 0..MaxRetries] /\ queue' \in [Peer -> SUBSET Message]
    BY <2>3, <2>4
  <2>6. \A s \in mail' : s \in Sealed /\ status[s.id] # "new"
    BY <2>2, <2>3, TransmittedSealed DEF Origin
  <2>7. QueueInv'
    <3>1. ASSUME NEW p \in Peer, NEW n \in queue'[p]
          PROVE  n \in queue[p] /\ n # m
      BY <2>3, <3>1 DEF QueueInv
    <3> QED BY <2>3, <3>1 DEF QueueInv
  <2>8. Origin' /\ AckedWasDecrypted'
    BY <2>3, <2>6 DEF Origin, AckedWasDecrypted
  <2> QED BY <2>1, <2>3, <2>5, <2>6, <2>7, <2>8
<1> QED BY <1>1, <1>2, <1>3

\* A round of the resend loop.
LEMMA RoundStep ==
  ASSUME IInv, NEW p \in Peer, StartResending(p)
  PROVE  IInv'
<1> USE DEF IInv, DeliveryTypeOK
<1>1. KeyTypeOK' /\ KeysAreGenuine'
  BY DEF StartResending, keyVars, cryptoVars, KeyTypeOK, KeysAreGenuine
<1>2. PICK gone \in SUBSET Message :
        /\ gone \subseteq Pending(p) /\ Pending(p) \cap Exhausted \subseteq gone
        /\ status' = [m \in Message |-> IF m \in gone THEN "deleted" ELSE status[m]]
        /\ queue' = [queue EXCEPT ![p] = Pending(p) \ gone]
  BY DEF StartResending, MayHaveExpired, Pending
<1>3. UNCHANGED <<retries, mail, acks, storing, unstored, inbox, decrypted, faults, world>>
  BY DEF StartResending
<1>4. /\ status' \in [Message -> Status] /\ queue' \in [Peer -> SUBSET Message]
      /\ \A m \in Message : status[m] # "new" => status'[m] # "new"
  BY <1>2 DEF Status, Pending
<1>5. QueueInv'
  <2>1. ASSUME NEW q \in Peer, NEW m \in queue'[q]
        PROVE  Sender[m] = q /\ retries[m] < MaxRetries /\ status'[m] # "new"
    <3>1. CASE q = p
      <4>1. m \in Message /\ Sender[m] = p /\ status[m] = "pending" /\ ~(retries[m] >= MaxRetries)
        BY <1>2, <3>1 DEF Pending, Exhausted
      <4> QED BY <1>4, <3>1, <4>1, MessageAssumption
    <3>2. CASE q # p
      BY <1>2, <1>4, <3>2 DEF QueueInv
    <3> QED BY <3>1, <3>2
  <2> QED BY <1>3, <2>1 DEF QueueInv
<1>6. Origin'
  BY <1>3, <1>4 DEF Origin, Sealed
<1>7. AckedWasDecrypted'
  BY <1>2, <1>3 DEF AckedWasDecrypted
<1> QED BY <1>1, <1>3, <1>4, <1>5, <1>6, <1>7

\* What the recipient does with a message.
LEMMA RecipientStep ==
  ASSUME IInv, NEW m \in Message, HandleMessage(m) \/ StoreMessage(m)
  PROVE  IInv'
<1> USE DEF IInv, DeliveryTypeOK
<1>1. ASSUME NEW s \in mail, AcceptMessage(s) PROVE IInv'
  <2>1. s.id \in Message /\ status[s.id] # "new"
    BY DEF Origin, Sealed
  <2>2. /\ acks' \subseteq acks \cup {s.id} /\ decrypted' = decrypted \cup {s.id}
        /\ storing' = storing \cup {s.id} /\ mail' \subseteq mail
        /\ UNCHANGED <<keyVars, status, retries, queue, unstored, inbox, faults, world>>
    BY <1>1 DEF AcceptMessage, Sent
  <2>3. KeyTypeOK' /\ KeysAreGenuine'
    BY <2>2 DEF keyVars, cryptoVars, KeyTypeOK, KeysAreGenuine
  <2> QED BY <2>1, <2>2, <2>3 DEF QueueInv, Origin, AckedWasDecrypted
<1>2. ASSUME NEW s \in mail, RejectMessage(s) PROVE IInv'
  <2>1. Sender[s.id] \in Peer /\ Recipient[s.id] \in Peer
    BY MessageAssumption DEF Sealed
  <2>2. KeyInv'
    BY <1>2, <2>1, RequestStep DEF RejectMessage, KeyInv
  <2>3. /\ mail' \subseteq mail
        /\ UNCHANGED <<status, retries, queue, acks, storing, unstored, inbox, decrypted, faults, world>>
    BY <1>2 DEF RejectMessage
  <2> QED BY <2>2, <2>3 DEF KeyInv, QueueInv, Origin, AckedWasDecrypted
<1>3. CASE StoreMessage(m)
  BY <1>3 DEF StoreMessage, keyVars, cryptoVars, KeyTypeOK, KeysAreGenuine, QueueInv, Origin,
     AckedWasDecrypted
<1> QED BY <1>1, <1>2, <1>3 DEF HandleMessage

\* Lost packets.
LEMMA LoseStep ==
  ASSUME IInv, Lose
  PROVE  IInv'
<1>1. /\ mail' \subseteq mail /\ acks' \subseteq acks /\ kex' \subseteq kex
      /\ UNCHANGED <<key, owner, peers, verified, shown, routes>>
      /\ UNCHANGED <<status, retries, queue, storing, unstored, inbox, decrypted>>
      /\ faults' \in [Fault -> Nat] /\ world' = world
  BY CountedType DEF Lose, Fault, cryptoVars, IInv, DeliveryTypeOK
<1> QED BY <1>1 DEF IInv, DeliveryTypeOK, KeyTypeOK, KeysAreGenuine, QueueInv, Origin,
        AckedWasDecrypted

\* A restart, with the same keys or new ones.
LEMMA RestartStep ==
  ASSUME IInv, NEW p \in Peer, Restart(p) \/ RestartNewKeys(p)
  PROVE  IInv'
<1>1. KeyInv'
  BY OtherSteps, RegenerateStep DEF IInv, DeliveryTypeOK, KeyInv, Restart, RestartNewKeys
<1>2. Forget(p)
  BY DEF Restart, RestartNewKeys
<1>3. /\ status' = [m \in Message |->
           IF Sender[m] = p /\ status[m] = "sending" THEN "failed" ELSE status[m]]
      /\ queue' = [queue EXCEPT ![p] = {}]
      /\ storing' \subseteq storing /\ unstored' \in SUBSET Message
      /\ UNCHANGED <<retries, mail, acks, inbox, decrypted>>
      /\ faults' \in [Fault -> Nat] /\ world' = world
  BY <1>2, CountedType DEF Forget, Fault, IInv, DeliveryTypeOK
<1>4. status' \in [Message -> Status] /\ queue' \in [Peer -> SUBSET Message]
  BY <1>3 DEF IInv, DeliveryTypeOK, Status
<1>5. \A m \in Message : /\ status[m] # "new" => status'[m] # "new"
                         /\ status'[m] = "delivered" => status[m] = "delivered"
  BY <1>3
<1>6. \A q \in Peer : queue'[q] \subseteq queue[q]
  BY <1>3 DEF IInv, DeliveryTypeOK
<1>7. DeliveryTypeOK'
  BY <1>1, <1>3, <1>4 DEF IInv, DeliveryTypeOK, KeyInv
<1>8. QueueInv'
  BY <1>3, <1>5, <1>6 DEF IInv, DeliveryTypeOK, QueueInv
<1>9. Origin' /\ AckedWasDecrypted'
  BY <1>3, <1>5 DEF IInv, DeliveryTypeOK, Origin, AckedWasDecrypted, Sealed
<1> QED BY <1>1, <1>7, <1>8, <1>9 DEF IInv, KeyInv

\* Every step keeps the invariant.
LEMMA Step == IInv /\ [Next]_vars => IInv'
<1> SUFFICES ASSUME IInv, [Next]_vars PROVE IInv'
  OBVIOUS
<1>0. KeyInv /\ faults \in [Fault -> Nat]
  BY DEF IInv, DeliveryTypeOK, KeyInv
<1>1. ASSUME NEW p \in Peer, NEW q \in Peer, HandleKex(p, q) PROVE IInv'
  BY <1>0, <1>1, HandleStep, KeyOnlyStep DEF HandleKex, DeliverKex
<1>2. ASSUME NEW p \in Peer, NEW q \in Peer, Outage(p, q) PROVE IInv'
  BY <1>0, <1>2, OtherSteps, CountedType, KeyOnlyStep DEF Outage, Fault
<1>3. ASSUME NEW p \in Peer, NEW q \in Peer, Repair(p, q) PROVE IInv'
  BY <1>0, <1>3, OtherSteps, KeyOnlyStep DEF Repair
<1>4. CASE UNCHANGED vars
  BY <1>4 DEF vars, mailVars, keyVars, cryptoVars, IInv, DeliveryTypeOK, KeyTypeOK,
     KeysAreGenuine, QueueInv, Origin, AckedWasDecrypted
<1> QED
  BY <1>1, <1>2, <1>3, <1>4, SendStep, SenderStep, RoundStep, RecipientStep, LoseStep,
     RestartStep DEF Next

---------------------------------------------------------------------------
(* Refinement of MessageService                                          *)

Written  == {m \in Message : status[m] # "new"}
Reported == {m \in Message : status[m] = "delivered"}
Lost     == {m \in Message : status[m] \in {"deleted", "failed"}}

Abstract == <<Written, decrypted, Reported, Lost>>

\* Steps that change neither a row's status nor what was read.
LEMMA HiddenStep ==
  ASSUME UNCHANGED <<status, decrypted>>
  PROVE  UNCHANGED Abstract
  BY DEF Abstract, Written, Reported, Lost

\* Rows that are saved and not acknowledged are the open messages, with
\* those the endpoint has not saved yet.
LEMMA OpenMessages ==
  Service!Open = {m \in Message : status[m] \notin {"new", "delivered", "deleted", "failed"}}
  BY DEF Service!Open

\* Giving up the messages of gone, whatever their new status.
LEMMA GivingUp ==
  ASSUME NEW gone \in SUBSET Service!Open,
         NEW last \in {"deleted", "failed"},
         status' = [m \in Message |-> IF m \in gone THEN last ELSE status[m]],
         decrypted' = decrypted
  PROVE  Service!Next
<1>1. gone \in SUBSET Message
  BY OpenMessages
<1>2. /\ \A m \in gone : status[m] \notin {"new", "delivered", "deleted", "failed"}
      /\ \A m \in Message : status'[m] = IF m \in gone THEN last ELSE status[m]
  BY OpenMessages
<1>3. Written' = Written /\ Reported' = Reported /\ Lost' = Lost \cup gone
  BY <1>1, <1>2 DEF Written, Reported, Lost
<1>4. Service!GiveUp(gone)
  BY <1>3 DEF Service!GiveUp, Written, Reported, Lost
<1> QED BY <1>1, <1>4 DEF Service!Next

\* Every step of Delivery is a step of MessageService or changes nothing
\* it shows.
LEMMA Simulation == IInv /\ [Next]_vars => Service!Next \/ UNCHANGED Abstract
<1> SUFFICES ASSUME IInv, [Next]_vars PROVE Service!Next \/ UNCHANGED Abstract
  OBVIOUS
<1>0. status \in [Message -> Status]
  BY DEF IInv, DeliveryTypeOK
<1>1. ASSUME NEW m \in Message, SendMessage(m) PROVE Service!Next
  <2>1. /\ status[m] = "new" /\ decrypted' = decrypted
        /\ \A n \in Message : status'[n] = IF n = m THEN "sending" ELSE status[n]
    BY <1>0, <1>1 DEF SendMessage
  <2>2. m \notin Written /\ Written' = Written \cup {m}
    BY <2>1 DEF Written
  <2>3. Reported' = Reported /\ Lost' = Lost
    BY <2>1 DEF Reported, Lost
  <2>4. Service!Send(m)
    BY <2>1, <2>2, <2>3 DEF Service!Send, Written, Reported, Lost
  <2> QED BY <2>4 DEF Service!Next
<1>2. ASSUME NEW m \in Message, SaveMessage(m) PROVE UNCHANGED Abstract
  <2>1. /\ status[m] = "sending" /\ decrypted' = decrypted
        /\ \A n \in Message : status'[n] = IF n = m THEN "pending" ELSE status[n]
    BY <1>0, <1>2 DEF SaveMessage
  <2> QED BY <2>1 DEF Abstract, Written, Reported, Lost
<1>3. ASSUME NEW m \in Message, HandleAck(m) PROVE Service!Next \/ UNCHANGED Abstract
  <2>1. m \in decrypted /\ decrypted' = decrypted
    BY <1>3 DEF HandleAck, IInv, AckedWasDecrypted
  <2>2. CASE status[m] = "pending"
    <3>1. \A n \in Message : status'[n] = IF n = m THEN "delivered" ELSE status[n]
      BY <1>0, <1>3, <2>2 DEF HandleAck
    <3>2. Written' = Written /\ Reported' = Reported \cup {m} /\ Lost' = Lost
      BY <2>2, <3>1 DEF Written, Reported, Lost
    <3>3. m \in Service!Open
      BY <2>2, OpenMessages
    <3>4. Service!Deliver(m)
      BY <2>1, <3>2, <3>3 DEF Service!Deliver, Written, Reported, Lost
    <3> QED BY <3>4 DEF Service!Next
  <2>3. CASE status[m] # "pending"
    <3>1. status' = status
      BY <1>0, <1>3, <2>3 DEF HandleAck
    <3> QED BY <2>1, <3>1, HiddenStep
  <2> QED BY <2>2, <2>3
<1>4. ASSUME NEW s \in mail, AcceptMessage(s) PROVE Service!Next \/ UNCHANGED Abstract
  <2>1. s.id \in Message /\ status[s.id] # "new"
    BY DEF IInv, DeliveryTypeOK, Sealed, Origin
  <2>2. decrypted' = decrypted \cup {s.id} /\ status' = status
    BY <1>4 DEF AcceptMessage
  <2>3. CASE s.id \in decrypted
    BY <2>2, <2>3, HiddenStep
  <2>4. CASE s.id \notin decrypted
    <3>1. s.id \in Written /\ Written' = Written /\ Reported' = Reported /\ Lost' = Lost
      BY <2>1, <2>2 DEF Written, Reported, Lost
    <3>2. Service!Receive(s.id)
      BY <2>2, <2>4, <3>1 DEF Service!Receive, Written, Reported, Lost
    <3> QED BY <2>1, <3>2 DEF Service!Next
  <2> QED BY <2>3, <2>4
<1>5. ASSUME NEW p \in Peer, StartResending(p) PROVE Service!Next
  <2>1. PICK gone \in SUBSET Pending(p) :
          status' = [m \in Message |-> IF m \in gone THEN "deleted" ELSE status[m]]
    BY <1>5 DEF StartResending, MayHaveExpired
  <2>2. gone \in SUBSET Service!Open
    BY OpenMessages DEF Pending
  <2>3. decrypted' = decrypted
    BY <1>5 DEF StartResending
  <2> QED BY <2>1, <2>2, <2>3, GivingUp
<1>6. ASSUME NEW p \in Peer, Forget(p) PROVE Service!Next
  <2> DEFINE gone == {m \in Message : Sender[m] = p /\ status[m] = "sending"}
  <2>1. gone \in SUBSET Service!Open
    BY OpenMessages
  <2>2. status' = [m \in Message |-> IF m \in gone THEN "failed" ELSE status[m]]
    BY <1>6 DEF Forget
  <2>3. decrypted' = decrypted
    BY <1>6 DEF Forget
  <2> HIDE DEF gone
  <2> QED BY <2>1, <2>2, <2>3, GivingUp
<1>7. ASSUME NEW m \in Message, Resend(m) \/ StoreMessage(m) PROVE UNCHANGED Abstract
  BY <1>7, HiddenStep DEF Resend, StoreMessage
<1>8. ASSUME NEW s \in mail, RejectMessage(s) PROVE UNCHANGED Abstract
  BY <1>8, HiddenStep DEF RejectMessage
<1>9. ASSUME NEW p \in Peer, NEW q \in Peer,
             HandleKex(p, q) \/ Outage(p, q) \/ Repair(p, q)
      PROVE  UNCHANGED Abstract
  BY <1>9, HiddenStep DEF HandleKex, Outage, Repair, mailVars
<1>10. ASSUME Lose \/ UNCHANGED vars PROVE UNCHANGED Abstract
  BY <1>10, HiddenStep DEF Lose, vars, mailVars
<1> QED
  BY <1>1, <1>2, <1>3, <1>4, <1>5, <1>6, <1>7, <1>8, <1>9, <1>10
  DEF Next, HandleMessage, Restart, RestartNewKeys

---------------------------------------------------------------------------
(* What is decrypted is stored                                           *)

\* What was decrypted is stored, about to be, or was when its recipient died.
StoredInv == decrypted \subseteq inbox \cup storing \cup unstored

\* Only handlers of messages and restarts move a message between them.
LEMMA StoredStep == StoredInv /\ [Next]_vars => StoredInv'
<1> SUFFICES ASSUME StoredInv, [Next]_vars PROVE StoredInv'
  OBVIOUS
<1>1. ASSUME NEW s \in mail, AcceptMessage(s) PROVE StoredInv'
  BY <1>1 DEF AcceptMessage, StoredInv
<1>2. ASSUME NEW m \in Message, StoreMessage(m) PROVE StoredInv'
  BY <1>2 DEF StoreMessage, StoredInv
<1>3. ASSUME NEW p \in Peer, Forget(p) PROVE StoredInv'
  BY <1>3 DEF Forget, StoredInv
<1>4. ASSUME NEW s \in mail, RejectMessage(s) PROVE StoredInv'
  BY <1>4 DEF RejectMessage, StoredInv
<1>5. ASSUME NEW m \in Message, SendMessage(m) \/ SaveMessage(m) \/ Resend(m) \/ HandleAck(m)
      PROVE  StoredInv'
  BY <1>5 DEF SendMessage, SaveMessage, Resend, HandleAck, StoredInv
<1>6. ASSUME NEW p \in Peer, StartResending(p) PROVE StoredInv'
  BY <1>6 DEF StartResending, StoredInv
<1>7. ASSUME NEW p \in Peer, NEW q \in Peer, HandleKex(p, q) \/ Outage(p, q) \/ Repair(p, q)
      PROVE  StoredInv'
  BY <1>7 DEF HandleKex, Outage, Repair, mailVars, StoredInv
<1>8. ASSUME Lose \/ UNCHANGED vars PROVE StoredInv'
  BY <1>8 DEF Lose, vars, mailVars, StoredInv
<1> QED
  BY <1>1, <1>2, <1>3, <1>4, <1>5, <1>6, <1>7, <1>8
  DEF Next, HandleMessage, Restart, RestartNewKeys

---------------------------------------------------------------------------
(* Theorems                                                              *)

\* The invariant holds in every behaviour.
THEOREM Invariant == Spec => []IInv
  BY InitIInv, Step, PTL DEF Spec

\* The messages tables and packets stay well typed; in particular a row is
\* resent at most MaxRetries times.
THEOREM DeliveryTypeCorrect == Spec => []DeliveryTypeOK
<1>1. IInv => DeliveryTypeOK
  BY DEF IInv
<1> QED BY <1>1, Invariant, PTL

\* No message is acknowledged or counted as delivered that its recipient
\* could not read.
THEOREM AckedDecrypted == Spec => []AckedWasDecrypted
<1>1. IInv => AckedWasDecrypted
  BY DEF IInv
<1> QED BY <1>1, Invariant, PTL

\* Only the death of a recipient between its ACK and its insert parts
\* being delivered from being stored.
THEOREM DeliveredStored == Spec => []DeliveredIsStored
<1>1. Init => StoredInv
  BY DEF Init, StoredInv
<1>2. IInv /\ StoredInv => DeliveredIsStored
  BY DEF IInv, AckedWasDecrypted, StoredInv, DeliveredIsStored
<1> QED BY <1>1, <1>2, Invariant, StoredStep, PTL DEF Spec

\* Delivery implements MessageService: nothing is reported as delivered
\* that was not received, nothing is both reported and given up.
THEOREM Refinement == Spec => ImplementsService
<1>1. Init => Service!Init
  BY DEF Init, Service!Init
<1>2. IInv /\ [Next]_vars => [Service!Next]_(Service!vars)
  BY Simulation DEF Service!vars, Abstract, Written, Reported, Lost
<1> QED BY <1>1, <1>2, Invariant, PTL DEF Spec, ImplementsService, Service!Spec

===========================================================================
