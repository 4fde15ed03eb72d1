----------------------------- MODULE MCRouting -----------------------------
(* Small networks for RoutingProtocol.                                   *)
EXTENDS RoutingProtocol

CONSTANTS a, b, c, d

Three == {a, b, c}
Four  == {a, b, c, d}

Line     == {{a, b}, {b, c}}
Triangle == {{a, b}, {b, c}, {a, c}}
\* a triangle with d attached to one corner
Kite     == Triangle \cup {{a, d}}

\* Peers reachable from n over links in U in at most k hops.
RECURSIVE Within(_, _, _)
Within(U, n, k) ==
  IF k = 0 THEN {n}
  ELSE Within(U, n, k - 1) \cup
       {m \in Node : \E x \in Within(U, n, k - 1) : {x, m} \in U}

\* The hop distance over U; MaxDistance for a peer that cannot be reached.
HopDistance(U) ==
  [n \in Node |-> [m \in Node |->
     IF m \in Within(U, n, Cardinality(Node))
     THEN CHOOSE k \in 0..Cardinality(Node) :
            m \in Within(U, n, k) /\ (k > 0 => m \notin Within(U, n, k - 1))
     ELSE MaxDistance]]

HopTable == [U \in SUBSET UNION Networks |-> HopDistance(U)]

\* On the line announcements overtake each other and two things go wrong; in
\* the triangle two ways compete.
LineAndTriangle == {Line, Triangle}
OneKite         == {Kite}

Distances == [L \in Networks |-> HopDistance(L)]
InFlight  == [L \in Networks |-> IF L = Line THEN 2 ELSE 1]
Faults    == [L \in Networks |-> IF L = Line THEN 2 ELSE 1]

===========================================================================
