--------------------------- MODULE PacketService ---------------------------
(* What the network of relays promises those who send packets over it:    *)
(* a packet is under way once it is sent, and then arrives or is lost,    *)
(* for good. Any number may be lost at once.                              *)
CONSTANT Packet

VARIABLES
  sent,      \* packets sent so far
  underway,  \* those neither arrived nor lost
  arrived    \* packets that reached their destination

vars == <<sent, underway, arrived>>

Init == sent = {} /\ underway = {} /\ arrived = {}

Send(p) ==
  /\ p \notin sent
  /\ sent' = sent \cup {p}
  /\ underway' = underway \cup {p}
  /\ UNCHANGED arrived

Arrive(p) ==
  /\ p \in underway
  /\ underway' = underway \ {p}
  /\ arrived' = arrived \cup {p}
  /\ UNCHANGED sent

Lose ==
  /\ UNCHANGED <<sent, arrived>>
  /\ underway' \in SUBSET underway

Next ==
  \/ Lose
  \/ \E p \in Packet : Send(p) \/ Arrive(p)

Spec == Init /\ [][Next]_vars

===========================================================================
