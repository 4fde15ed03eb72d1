---------------------------- MODULE MCDelivery ----------------------------
(* Small instances of Delivery: one message from a to b, or one in each  *)
(* direction.                                                            *)
EXTENDS Delivery

CONSTANTS a, b, k1, k2, k3, m1, m2

TwoPeers  == {a, b}
TwoKeys   == {k1, k2}
ThreeKeys == {k1, k2, k3}

TwoMessages == {m1, m2}

MCSender    == [m \in Message |-> IF m = m1 THEN a ELSE b]
MCRecipient == [m \in Message |-> IF m = m1 THEN b ELSE a]

Faults(losses, restarts, outages) ==
  [f \in Fault |-> CASE f = "loss" -> losses
                     [] f = "restart" -> restarts
                     [] f = "outage" -> outages]

\* Strangers, with anything happening at any time; friends, with what the
\* retries make up for.
HarshWorld == [acquainted |-> FALSE, prompt |-> FALSE, written |-> {m1}, max |-> Faults(1, 1, 1)]
MildWorlds ==
  [acquainted : {TRUE}, prompt : {TRUE}, written : {TwoMessages},
   max : {Faults(2, 0, 0), Faults(0, 1, 0)}]

AllWorlds == MildWorlds \cup {HarshWorld}
NewWorlds == {[acquainted |-> FALSE, prompt |-> TRUE, written |-> {m1}, max |-> Faults(0, 0, 1)]}

===========================================================================
