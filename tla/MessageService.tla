-------------------------- MODULE MessageService --------------------------
(* What the chat promises its users: a message is received only if it    *)
(* was sent, reported as delivered only if it was received, and every    *)
(* message is at last either reported as delivered or given up, never    *)
(* both. It may have been received and still be given up.                *)
CONSTANT Message

VARIABLES
  sent,       \* messages the sender wrote
  received,   \* messages their recipient could read
  delivered,  \* messages the sender is told were delivered
  givenUp     \* messages the sender no longer has

vars == <<sent, received, delivered, givenUp>>

Open == sent \ (delivered \cup givenUp)

Init == sent = {} /\ received = {} /\ delivered = {} /\ givenUp = {}

Send(m) ==
  /\ m \in Message \ sent
  /\ sent' = sent \cup {m}
  /\ UNCHANGED <<received, delivered, givenUp>>

Receive(m) ==
  /\ m \in sent \ received
  /\ received' = received \cup {m}
  /\ UNCHANGED <<sent, delivered, givenUp>>

Deliver(m) ==
  /\ m \in Open \cap received
  /\ delivered' = delivered \cup {m}
  /\ UNCHANGED <<sent, received, givenUp>>

GiveUp(S) ==
  /\ S \subseteq Open
  /\ givenUp' = givenUp \cup S
  /\ UNCHANGED <<sent, received, delivered>>

Next ==
  \/ \E m \in Message : Send(m) \/ Receive(m) \/ Deliver(m)
  \/ \E S \in SUBSET Message : GiveUp(S)

Spec == Init /\ [][Next]_vars

\* m is delivered or given up, alone or with others.
Settle(m) == Deliver(m) \/ \E S \in SUBSET Message : m \in S /\ GiveUp(S)

FairSpec == Spec /\ \A m \in Message : WF_vars(Settle(m))

===========================================================================
