---------------------------- MODULE Backpressure ----------------------------
(* Two neighbours whose connections are full: send and _read_loop of      *)
(* class Server (app/server.py) against each other.                       *)
(*                                                                        *)
(* Each peer writes on the connection it opened and reads the one it      *)
(* accepted. A handler that answers awaits drain inside the read loop, so *)
(* nothing is read meanwhile: two read loops can wait for each other.     *)
(* What ends that is the idle clean-up of the side that reads: it has     *)
(* nothing to write, so that its close resets the connection and the      *)
(* drain at the other end fails. (A close of the side that writes waits   *)
(* until its data is gone.)                                               *)
EXTENDS Naturals, Sequences, FiniteSets, Bags

CONSTANTS
  Peer,         \* the two peers
  Room,         \* packets a connection takes before drain suspends
  SendRetries,  \* send_retries
  MaxRequests   \* bound: packets the peers want answered

ASSUME BackpressureAssumption ==
  /\ \E p, q \in Peer : p # q /\ Peer = {p, q}
  /\ Room \in Nat /\ SendRetries \in Nat \ {0} /\ MaxRequests \in Nat

VARIABLES
  stream,    \* stream[p]: written by p on its connection and not read yet
  sends,     \* sends[p]: calls of send in progress
  requested  \* requests so far

flowVars == <<stream, sends, requested>>

\* waits: the loop that reads the other peer's connection waits for it.
Kind  == {"request", "answer"}
Sending == [packet : Kind, left : 1..SendRetries, phase : {"draining", "sleeping"},
            waits : BOOLEAN]

Awaited(p)   == {s \in BagToSet(sends[p]) : s.waits}
Draining(p)  == {s \in BagToSet(sends[p]) : s.phase = "draining"}
Suspended(p) == Awaited(p) # {}
Paused(p)    == Len(stream[p]) > Room

FlowTypeOK ==
  /\ stream \in [Peer -> Seq(Kind)]
  /\ DOMAIN sends = Peer
  /\ \A p \in Peer : /\ IsABag(sends[p]) /\ BagToSet(sends[p]) \subseteq Sending
                     /\ \A s, r \in Awaited(p) : s = r /\ s.packet = "answer" /\ sends[p][s] = 1
  /\ requested \in 0..MaxRequests

FlowInit ==
  /\ stream = [p \in Peer |-> <<>>]
  /\ sends = [p \in Peer |-> EmptyBag]
  /\ requested = 0

Other(p) == CHOOSE q \in Peer : q # p

NewSend(packet, waits) ==
  [packet |-> packet, left |-> SendRetries, phase |-> "draining", waits |-> waits]

\* One more s in a bag, and one less.
With(B, s) == B (+) SetToBag({s})
Less(B, s) == B (-) SetToBag({s})

Begun(p, s) == [sends EXCEPT ![p] = With(@, s)]
Over(p, s)  == [sends EXCEPT ![p] = Less(@, s)]

---------------------------------------------------------------------------

\* Fault: the data is written and nobody waits for it to go.
RequestUndrained(p) ==
  /\ requested < MaxRequests
  /\ requested' = requested + 1
  /\ stream' = [stream EXCEPT ![p] = Append(@, "request")]
  /\ UNCHANGED sends

\* A loop or an endpoint sends something.
Request(p) ==
  /\ requested < MaxRequests
  /\ requested' = requested + 1
  /\ stream' = [stream EXCEPT ![p] = Append(@, "request")]
  /\ sends' = Begun(p, NewSend("request", FALSE))

\* Fault: a handler is a task of its own, and the loop reads on.
HandleAsTask(p) ==
  LET q == Other(p)
  IN  /\ stream[q] # <<>>
      /\ \/ /\ Head(stream[q]) = "request"
            /\ stream' = [stream EXCEPT ![q] = Tail(@), ![p] = Append(@, "answer")]
            /\ sends' = Begun(p, NewSend("answer", TRUE))
         \/ /\ Head(stream[q]) = "answer"
            /\ stream' = [stream EXCEPT ![q] = Tail(@)]
            /\ UNCHANGED sends
      /\ UNCHANGED requested

\* p reads a packet. One that asks for an answer is answered before the
\* next is read.
Handle(p) ==
  LET q == Other(p)
  IN  /\ ~Suspended(p) /\ stream[q] # <<>>
      /\ \/ /\ Head(stream[q]) = "request"
            /\ stream' = [stream EXCEPT ![q] = Tail(@), ![p] = Append(@, "answer")]
            /\ sends' = Begun(p, NewSend("answer", TRUE))
         \/ /\ Head(stream[q]) = "answer"
            /\ stream' = [stream EXCEPT ![q] = Tail(@)]
            /\ UNCHANGED sends
      /\ UNCHANGED requested

\* drain returns when the connection has room again.
Drained(p) ==
  /\ ~Paused(p)
  /\ \E s \in Draining(p) : sends' = Over(p, s)
  /\ UNCHANGED <<stream, requested>>

Before(s) == [s EXCEPT !.phase = "draining", !.left = @ + 1]

\* The drains of p fail: a send sleeps before its next attempt, or was at
\* its last.
Failed(p) ==
  LET B     == sends[p]
      again == {s \in Sending : s.phase = "sleeping" /\ BagIn(Before(s), B)}
  IN  [s \in BagToSet(B) \ Draining(p) |-> B[s]] (+) [s \in again |-> B[Before(s)]]

\* The send s of p goes on, and no read loop waits for it.
Orphaned(p, s) == With(Less(sends[p], s), [s EXCEPT !.waits = FALSE])

\* Fault: a connection with data to be read is spared.
CloseSpared(p) ==
  LET q == Other(p)
  IN  /\ Paused(p) /\ ~Paused(q)
      /\ stream' = [stream EXCEPT ![q] = <<>>]
      /\ \E s \in Awaited(p) : sends' = [sends EXCEPT ![p] = Orphaned(p, s), ![q] = Failed(q)]
      /\ UNCHANGED requested

\* p has read nothing for idle_timeout, because its loop waits for room, and
\* closes the connection. (Its keepalives wait for the same room and make no
\* connection look active.) What was under way is gone; the next attempt
\* opens another connection, which a new loop reads.
CloseIdle(p) ==
  LET q == Other(p)
  IN  /\ Paused(p)
      /\ stream' = [stream EXCEPT ![q] = <<>>]
      /\ \E s \in Awaited(p) : sends' = [sends EXCEPT ![p] = Orphaned(p, s), ![q] = Failed(q)]
      /\ UNCHANGED requested

\* The sleep is over: the packet is written again.
Retry(p) ==
  /\ \E s \in BagToSet(sends[p]) :
       /\ s.phase = "sleeping"
       /\ stream' = [stream EXCEPT ![p] = Append(@, s.packet)]
       /\ sends' = [sends EXCEPT ![p] = With(Less(@, s), [s EXCEPT !.phase = "draining"])]
  /\ UNCHANGED requested

FlowNext == \E p \in Peer : Request(p) \/ Handle(p) \/ Drained(p) \/ CloseIdle(p) \/ Retry(p)

FlowSpec == FlowInit /\ [][FlowNext]_flowVars

\* Tasks run, sleeps end and the clean-up comes round.
FlowFairSpec ==
  /\ FlowSpec
  /\ \A p \in Peer : /\ WF_flowVars(Handle(p)) /\ WF_flowVars(Drained(p))
                     /\ WF_flowVars(CloseIdle(p)) /\ WF_flowVars(Retry(p))

---------------------------------------------------------------------------
(* Properties                                                            *)

\* The sends of a bag that are in drain, equal ones numbered.
InDrain(B) == UNION {{s} \X (1..B[s]) : s \in {s \in BagToSet(B) : s.phase = "draining"}}

\* Whatever is sent at once, fails and is sent again: beyond its room, a
\* connection holds one packet at most for each send that still waits.
BacklogBounded ==
  \A p \in Peer : Len(stream[p]) <= Room + Cardinality(InDrain(sends[p]))

\* No two read loops wait for each other for good: every send ends, and
\* with it every handler.
EverySendEnds == \A p \in Peer : <>[](sends[p] = EmptyBag)

=============================================================================
