------------------------------ MODULE Sessions ------------------------------
(* What two peers keep in memory about each other until an answer comes:  *)
(* calls (app/api/call.py, active_calls) and pings (app/api/ping.py,      *)
(* pending_pings), with their handlers in app/server.py.                  *)
(*                                                                        *)
(* Packets from one peer to the other arrive in order unless the network  *)
(* is disturbed: then one overtakes another, or a relay without a route   *)
(* drops them, except that it buffers a CALL_OFFER. Audio and the         *)
(* acceptance of a call change nothing that the program keeps and are     *)
(* left out.                                                              *)
EXTENDS Naturals, Sequences

CONSTANTS
  Peer,            \* the two peers
  Call, Caller,    \* calls by call_id; Caller[c]: who calls
  Ping, Pinger,    \* pings by ping_id; Pinger[i]: who pings
  MaxDisturbances  \* bound: how many disturbances there are

ASSUME SessionAssumption ==
  /\ \E p, q \in Peer : p # q /\ Peer = {p, q}
  /\ Caller \in [Call -> Peer] /\ Pinger \in [Ping -> Peer]
  /\ MaxDisturbances \in Nat

VARIABLES
  active,       \* active[p]: active_calls
  leaving,      \* leaving[p]: calls an endpoint of p has rejected and not removed yet
  offered,      \* calls offered so far
  pending,      \* pings with an entry in pending_pings
  future,       \* future[i]: the future of ping i
  endpoint,     \* endpoint[i]: where the endpoint is with ping i
  wire,         \* wire[p]: packets on their way to p
  held,         \* offers in the buffer of a relay
  disturbances  \* how many disturbances there were

callVars == <<active, leaving, offered>>
pingVars == <<pending, future, endpoint>>
vars == <<callVars, pingVars, wire, held, disturbances>>

Packet == [type : {"offer", "reject", "end"}, id : Call] \cup [type : {"ping", "pong"}, id : Ping]

SessionTypeOK ==
  /\ active \in [Peer -> SUBSET Call] /\ leaving \in [Peer -> SUBSET Call]
  /\ offered \subseteq Call /\ \A p \in Peer : active[p] \cup leaving[p] \subseteq offered
  /\ pending \subseteq Ping
  /\ future \in [Ping -> {"none", "open", "set", "cancelled"}]
  /\ endpoint \in [Ping -> {"new", "sending", "waiting", "answered", "timed_out", "gone"}]
  /\ \A i \in Ping : future[i] = "none" <=> endpoint[i] = "new"
  /\ wire \in [Peer -> Seq(Packet)]
  /\ held \subseteq Call
  /\ disturbances \in 0..MaxDisturbances

Init ==
  /\ active = [p \in Peer |-> {}] /\ leaving = [p \in Peer |-> {}] /\ offered = {}
  /\ pending = {}
  /\ future = [i \in Ping |-> "none"] /\ endpoint = [i \in Ping |-> "new"]
  /\ wire = [p \in Peer |-> <<>>] /\ held = {}
  /\ disturbances = 0

Other(p) == CHOOSE q \in Peer : q # p

\* p sends a packet.
SentBy(p, type, i) == [wire EXCEPT ![Other(p)] = Append(@, [type |-> type, id |-> i])]

---------------------------------------------------------------------------
(* Calls                                                                 *)

\* The call is active for the caller before anybody has heard of it.
OfferCall(c) ==
  LET p == Caller[c]
  IN  /\ c \notin offered
      /\ offered' = offered \cup {c}
      /\ active' = [active EXCEPT ![p] = @ \cup {c}]
      /\ wire' = SentBy(p, "offer", c)
      /\ UNCHANGED <<leaving, pingVars, held, disturbances>>

\* answer_call with accepted = False sends, and removes the call later.
\* Bound: a call is not rejected again while it is being rejected.
RejectCall(p, c) ==
  /\ c \in active[p] \ leaving[p]
  /\ leaving' = [leaving EXCEPT ![p] = @ \cup {c}]
  /\ wire' = SentBy(p, "reject", c)
  /\ UNCHANGED <<active, offered, pingVars, held, disturbances>>

RemoveRejected(p, c) ==
  /\ c \in leaving[p]
  /\ leaving' = [leaving EXCEPT ![p] = @ \ {c}]
  /\ active' = [active EXCEPT ![p] = @ \ {c}]
  /\ UNCHANGED <<offered, pingVars, wire, held, disturbances>>

\* end_call removes, then sends.
EndCall(p, c) ==
  /\ c \in active[p]
  /\ active' = [active EXCEPT ![p] = @ \ {c}]
  /\ wire' = SentBy(p, "end", c)
  /\ UNCHANGED <<leaving, offered, pingVars, held, disturbances>>

---------------------------------------------------------------------------
(* Pings                                                                 *)

\* The future is registered before the PING is sent.
SendPing(i) ==
  /\ endpoint[i] = "new"
  /\ endpoint' = [endpoint EXCEPT ![i] = "sending"]
  /\ future' = [future EXCEPT ![i] = "open"]
  /\ pending' = pending \cup {i}
  /\ wire' = SentBy(Pinger[i], "ping", i)
  /\ UNCHANGED <<callVars, held, disturbances>>

\* The send is over; the PONG may be there already.
WaitForPong(i) ==
  /\ endpoint[i] = "sending"
  /\ endpoint' = [endpoint EXCEPT ![i] = "waiting"]
  /\ UNCHANGED <<callVars, pending, future, wire, held, disturbances>>

\* PING_TIMEOUT passes and wait_for cancels the future.
Timeout(i) ==
  /\ endpoint[i] = "waiting" /\ future[i] = "open"
  /\ future' = [future EXCEPT ![i] = "cancelled"]
  /\ UNCHANGED <<callVars, pending, endpoint, wire, held, disturbances>>

\* Fault: a ping that timed out keeps its entry.
FinishPending(i) ==
  /\ endpoint[i] = "waiting" /\ future[i] \in {"set", "cancelled"}
  /\ endpoint' = [endpoint EXCEPT ![i] = IF future[i] = "set" THEN "answered" ELSE "timed_out"]
  /\ UNCHANGED <<callVars, pending, future, wire, held, disturbances>>

\* Fault: the endpoint waits for the PONG only.
FinishAnswered(i) ==
  /\ endpoint[i] = "waiting" /\ future[i] = "set"
  /\ endpoint' = [endpoint EXCEPT ![i] = "answered"]
  /\ UNCHANGED <<callVars, pending, future, wire, held, disturbances>>

\* The endpoint resumes. Where the timeout fires after the future is set
\* and before that, versions of wait_for differ.
FinishPing(i) ==
  /\ endpoint[i] = "waiting" /\ future[i] \in {"set", "cancelled"}
  /\ \/ /\ future[i] = "set"
        /\ endpoint' = [endpoint EXCEPT ![i] = "answered"]
        /\ UNCHANGED pending
     \/ /\ endpoint' = [endpoint EXCEPT ![i] = "timed_out"]
        /\ pending' = pending \ {i}
  /\ UNCHANGED <<callVars, future, wire, held, disturbances>>

---------------------------------------------------------------------------
(* Handlers                                                              *)

\* The next packet for p is of the given type, about i.
Receives(p, type, i) == wire[p] # <<>> /\ Head(wire[p]) = [type |-> type, id |-> i]

Taken(p) == [wire EXCEPT ![p] = Tail(@)]

HandleCallOffer(p, c) ==
  /\ Receives(p, "offer", c)
  /\ active' = [active EXCEPT ![p] = @ \cup {c}]
  /\ wire' = Taken(p)
  /\ UNCHANGED <<leaving, offered, pingVars, held, disturbances>>

\* Fault: the caller keeps a call that was rejected.
HandleEndOnly(p, c) ==
  /\ Receives(p, "reject", c) \/ Receives(p, "end", c)
  /\ active' = IF Receives(p, "end", c) THEN [active EXCEPT ![p] = @ \ {c}] ELSE active
  /\ wire' = Taken(p)
  /\ UNCHANGED <<leaving, offered, pingVars, held, disturbances>>

\* CALL_END, or CALL_ANSWER that does not accept.
HandleCallOver(p, c) ==
  /\ Receives(p, "reject", c) \/ Receives(p, "end", c)
  /\ active' = [active EXCEPT ![p] = @ \ {c}]
  /\ wire' = Taken(p)
  /\ UNCHANGED <<leaving, offered, pingVars, held, disturbances>>

HandlePing(p, i) ==
  /\ Receives(p, "ping", i)
  /\ wire' = [Taken(p) EXCEPT ![Other(p)] = Append(@, [type |-> "pong", id |-> i])]
  /\ UNCHANGED <<callVars, pingVars, held, disturbances>>

\* Fault: the PONG leaves the entry.
HandlePongKept(p, i) ==
  /\ Receives(p, "pong", i)
  /\ wire' = Taken(p)
  /\ future' = IF i \in pending /\ future[i] = "open" THEN [future EXCEPT ![i] = "set"] ELSE future
  /\ UNCHANGED <<callVars, pending, endpoint, held, disturbances>>

\* The entry goes; a future that is not done gets the PONG.
HandlePong(p, i) ==
  /\ Receives(p, "pong", i)
  /\ wire' = Taken(p)
  /\ pending' = pending \ {i}
  /\ future' = IF i \in pending /\ future[i] = "open" THEN [future EXCEPT ![i] = "set"] ELSE future
  /\ UNCHANGED <<callVars, endpoint, held, disturbances>>

Handle(p) ==
  \/ \E c \in Call : HandleCallOffer(p, c) \/ HandleCallOver(p, c)
  \/ \E i \in Ping : HandlePing(p, i) \/ HandlePong(p, i)

---------------------------------------------------------------------------
(* Disturbances                                                          *)

Disturb ==
  /\ disturbances < MaxDisturbances
  /\ disturbances' = disturbances + 1

\* A packet is lost, or finds no route. A relay keeps an offer.
Drop(p) ==
  /\ Disturb
  /\ wire[p] # <<>>
  /\ wire' = Taken(p)
  /\ UNCHANGED <<callVars, pingVars, held>>

\* A packet overtakes the one before it: the route has changed, or the
\* connection was replaced by another while it still had data, which its
\* read loop handles beside that of the new one.
Overtake(p) ==
  /\ Disturb
  /\ \E i \in 1..Len(wire[p]) - 1 :
       wire' = [wire EXCEPT ![p] = [@ EXCEPT ![i] = wire[p][i + 1], ![i + 1] = wire[p][i]]]
  /\ UNCHANGED <<callVars, pingVars, held>>

Hold(p, c) ==
  /\ Disturb
  /\ Receives(p, "offer", c)
  /\ wire' = Taken(p)
  /\ held' = held \cup {c}
  /\ UNCHANGED <<callVars, pingVars>>

\* The buffer of the relay is flushed: the offer arrives after all.
Flush(c) ==
  /\ c \in held
  /\ held' = held \ {c}
  /\ wire' = SentBy(Caller[c], "offer", c)
  /\ UNCHANGED <<callVars, pingVars, disturbances>>

\* What p keeps in memory is gone, and what its connections carried may be.
Restart(p) ==
  /\ Disturb
  /\ active' = [active EXCEPT ![p] = {}] /\ leaving' = [leaving EXCEPT ![p] = {}]
  /\ pending' = {i \in pending : Pinger[i] # p}
  /\ endpoint' = [i \in Ping |-> IF Pinger[i] = p /\ endpoint[i] \in {"sending", "waiting"}
                                   THEN "gone" ELSE endpoint[i]]
  /\ \E lost \in SUBSET Peer : wire' = [q \in Peer |-> IF q \in lost THEN <<>> ELSE wire[q]]
  /\ UNCHANGED <<offered, future, held>>

Next ==
  \/ \E c \in Call : OfferCall(c) \/ Flush(c)
  \/ \E p \in Peer, c \in Call : \/ RejectCall(p, c) \/ RemoveRejected(p, c)
                                 \/ EndCall(p, c) \/ Hold(p, c)
  \/ \E i \in Ping : SendPing(i) \/ WaitForPong(i) \/ Timeout(i) \/ FinishPing(i)
  \/ \E p \in Peer : Handle(p) \/ Drop(p) \/ Overtake(p) \/ Restart(p)

Spec == Init /\ [][Next]_vars

\* Endpoints resume, timeouts fire and read loops handle what they read.
\* Users and disturbances owe nothing.
Fairness ==
  /\ \A i \in Ping : WF_vars(WaitForPong(i)) /\ WF_vars(Timeout(i)) /\ WF_vars(FinishPing(i))
  /\ \A p \in Peer : WF_vars(Handle(p)) /\ \A c \in Call : WF_vars(RemoveRejected(p, c))

FairSpec == Spec /\ Fairness

---------------------------------------------------------------------------
(* Properties                                                            *)

\* While nothing is dropped, overtaken, held or restarted, the peers agree on the
\* calls there are as soon as nothing is under way: whoever ends or rejects
\* a call, and whenever, it is over for both.
CallsAgree ==
  disturbances = 0 /\ (\A p \in Peer : wire[p] = <<>> /\ leaving[p] = {}) =>
    \A p, q \in Peer : active[p] = active[q]

\* An entry of pending_pings belongs to an endpoint that still waits and
\* has no answer, and whoever waits without an answer has one: no PONG is
\* missed, no entry stays, however PONG, timeout and restart interleave.
PendingIsWaiting ==
  /\ \A i \in pending : endpoint[i] \in {"sending", "waiting"} /\ future[i] # "set"
  /\ \A i \in Ping : endpoint[i] \in {"sending", "waiting"} /\ future[i] = "open" => i \in pending

\* Every ping is answered or times out.
PingsEnd == \A i \in Ping : endpoint[i] = "sending" ~> endpoint[i] \notin {"sending", "waiting"}

===========================================================================
