-------------------------- MODULE MCFileTransfer --------------------------
(* Small instances of FileTransfer: a file of no, one or two chunks from  *)
(* a to b, the last of two chunks shorter.                                *)
EXTENDS FileTransfer

CONSTANTS a, b, k1, k2, k3

TwoPeers  == {a, b}
TwoKeys   == {k1, k2}
ThreeKeys == {k1, k2, k3}

\* With ChunkSize 2: an empty file, and one with a shorter last chunk.
EmptyOrThree == {0, 3}
Three        == {3}

Faults(losses, restarts, crashes, outages) ==
  [f \in Fault |-> CASE f = "loss" -> losses
                     [] f = "restart" -> restarts
                     [] f = "crash" -> crashes
                     [] f = "outage" -> outages]

\* Peers that know each other, and faults that retries make up for.
MildWorlds ==
  {[acquainted |-> TRUE, prompt |-> TRUE, max |-> m] :
     m \in {Faults(2, 0, 0, 0), Faults(0, 1, 0, 0)}}

\* Peers that do not, and any fault at any time.
HarshWorlds ==
  {[acquainted |-> FALSE, prompt |-> FALSE, max |-> Faults(1, 1, 0, 0)],
   [acquainted |-> TRUE, prompt |-> FALSE, max |-> Faults(0, 0, 1, 1)]}

AllWorlds   == MildWorlds \cup HarshWorlds
CrashWorlds == {[acquainted |-> TRUE, prompt |-> FALSE, max |-> Faults(0, 0, 1, 0)]}

===========================================================================
