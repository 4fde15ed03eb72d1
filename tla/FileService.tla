---------------------------- MODULE FileService ----------------------------
(* What file transfer promises its users: a file is reported as completed *)
(* only when its recipient holds every piece, and stays so; a transfer    *)
(* reported as failed may yet be completed; every transfer is settled.    *)
EXTENDS Naturals

VARIABLES
  missing,   \* pieces the recipient does not hold
  outcome    \* what the sender is told

vars == <<missing, outcome>>

Init ==
  /\ missing \subseteq Nat /\ missing # {}
  /\ outcome = "unsent"

Send ==
  /\ outcome = "unsent"
  /\ outcome' = "open"
  /\ UNCHANGED missing

Receive(c) ==
  /\ outcome # "unsent" /\ c \in missing
  /\ missing' = missing \ {c}
  /\ UNCHANGED outcome

Complete ==
  /\ outcome \in {"open", "failed"} /\ missing = {}
  /\ outcome' = "completed"
  /\ UNCHANGED missing

Fail ==
  /\ outcome = "open"
  /\ outcome' = "failed"
  /\ UNCHANGED missing

Next == Send \/ Complete \/ Fail \/ \E c \in missing : Receive(c)

Spec == Init /\ [][Next]_vars

Settle == outcome = "open" /\ (Complete \/ Fail)

FairSpec == Spec /\ WF_vars(Settle)

===========================================================================
