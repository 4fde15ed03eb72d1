--------------------------- MODULE FileTransfer ---------------------------
(* One file from one peer to another: the endpoint of app/api/files.py,   *)
(* the FILE_CHUNK and FILE_ACK handlers and the resend loop of            *)
(* app/server.py, and the tables of app/crud/file_transfers.py.           *)
(*                                                                        *)
(* As in Delivery, handlers can be suspended where they send, and a       *)
(* packet can be delayed, reordered or lost. A peer is restarted between  *)
(* two handlers or crashes within one, between any two of its writes.     *)
EXTENDS KeyExchange

CONSTANTS
  From, To,      \* the two peers
  ChunkSize,     \* FILE_CHUNK_SIZE
  Sizes,         \* lengths of the file considered
  MaxRetries,    \* MESSAGE_MAX_RETRIES
  Worlds         \* the circumstances considered

Fault == {"loss", "restart", "crash", "outage"}

\* acquainted: whether the peers have exchanged keys before.
\* prompt: whether delays and outages are shorter than resend_interval.
\* max: bound: how many faults of each kind.
World == [acquainted : BOOLEAN, prompt : BOOLEAN, max : [Fault -> Nat]]

ASSUME FileAssumption ==
  /\ From \in Peer /\ To \in Peer /\ From # To
  /\ ChunkSize \in Nat \ {0} /\ Sizes \subseteq Nat
  /\ MaxRetries \in Nat \ {0} /\ Worlds \subseteq World
  /\ \E k \in [Peer -> Key] : IsInjective(k)

VARIABLES
  size,        \* the length of the file
  transfer,    \* status of the sender's row in file_transfers
  rows,        \* indices of its rows in file_chunks
  delivered,   \* those marked delivered
  tries,       \* their retry_count
  sending,     \* chunks the endpoint has still to send
  round,       \* chunks the resend loop has still to go through
  chunks,      \* FILE_CHUNK packets under way
  acks,        \* FILE_ACK packets under way, by chunk_index
  incoming,    \* the recipient's directory and row of the file
  faults,      \* how many faults there were of each kind
  world

senderVars == <<transfer, rows, delivered, tries, sending, round>>
fileVars == <<size, senderVars, chunks, acks, incoming>>
vars == <<keyVars, fileVars, faults, world>>

---------------------------------------------------------------------------
(* Slices of the file. A file is the set of its positions.               *)

\* Fault: no chunk for what is left over.
TotalRoundedDown(n) == IF n < ChunkSize THEN 1 ELSE n \div ChunkSize

TotalChunks(n) == IF n = 0 THEN 1 ELSE (n + ChunkSize - 1) \div ChunkSize

ChunksOf(n) == 0..TotalChunks(n) - 1

Chunk   == ChunksOf(size)
Content == 0..size - 1

Slice(c) == {i \in Content : c * ChunkSize <= i /\ i < (c + 1) * ChunkSize}

First(S) == CHOOSE c \in S : \A d \in S : c <= d

Sealed == [index : Nat, by : Key, for : Key]

\* saved, data: the files chunk_<index> and what is in them.
\* complete: what is in the file "complete".
\* row, count: status and received_chunks in file_transfers.
Incoming == [saved : SUBSET Nat, data : [Chunk -> SUBSET Nat], complete : SUBSET Nat,
             row : {"none", "pending", "in_progress", "completed", "failed"}, count : Nat]

FileTypeOK ==
  /\ KeyTypeOK
  /\ size \in Nat /\ world \in World /\ faults \in [Fault -> Nat]
  /\ transfer \in {"none", "pending", "completed", "failed"}
  /\ delivered \subseteq rows /\ rows \subseteq Chunk
  /\ tries \in [Chunk -> 0..MaxRetries]
  /\ sending \subseteq Chunk /\ round \subseteq rows
  /\ chunks \subseteq Sealed /\ \A s \in chunks : s.index \in Chunk
  /\ acks \subseteq Chunk
  /\ incoming \in Incoming /\ incoming.saved \subseteq Chunk
  /\ incoming.count <= Cardinality(incoming.saved)

Init ==
  /\ world \in Worlds /\ size \in Sizes
  /\ key = CHOOSE k \in [Peer -> Key] : IsInjective(k)
  /\ owner = [k \in Range(key) |-> CHOOSE p \in Peer : key[p] = k]
  /\ peers = [p \in Peer |-> [q \in IF world.acquainted THEN Peer \ {p} ELSE {} |-> key[q]]]
  /\ verified = [p \in Peer |-> {}]
  /\ shown = [p \in Peer |-> [q \in Peer |-> {}]]
  /\ routes = [p \in Peer |-> Peer \ {p}]
  /\ kex = {}
  /\ transfer = "none" /\ rows = {} /\ delivered = {}
  /\ tries = [c \in Chunk |-> 0]
  /\ sending = {} /\ round = {} /\ chunks = {} /\ acks = {}
  /\ incoming = [saved |-> {}, data |-> [c \in Chunk |-> {}], complete |-> {},
                 row |-> "none", count |-> 0]
  /\ faults = [f \in Fault |-> 0]

---------------------------------------------------------------------------
(* The sender                                                            *)

\* The endpoint keeps the original and writes the rows. It goes on to send
\* the chunks if it has a route and a key, and asks for the key if only
\* that is missing.
SendFile ==
  /\ transfer = "none"
  /\ transfer' = "pending" /\ rows' = Chunk
  /\ sending' = IF To \in routes[From] /\ Knows(From, To) THEN Chunk ELSE {}
  /\ kex' = IF Knows(From, To) THEN kex ELSE kex \cup Sent(From, To, KeyPacketOf(From, To, FALSE))
  /\ UNCHANGED <<cryptoVars, routes, size, delivered, tries, round, chunks, acks, incoming,
                 faults, world>>

\* Chunk c, sealed for the key the sender has of the recipient now.
Transmitted(c) ==
  IF Knows(From, To)
    THEN Sent(From, To, [index |-> c, by |-> key[From], for |-> peers[From][To]])
    ELSE {}

SendChunk ==
  /\ sending # {}
  /\ sending' = sending \ {First(sending)}
  /\ chunks' = chunks \cup Transmitted(First(sending))
  /\ UNCHANGED <<keyVars, size, transfer, rows, delivered, tries, round, acks, incoming,
                 faults, world>>

\* Nothing is under way and every route is there.
Quiet ==
  /\ sending = {} /\ chunks = {} /\ acks = {} /\ kex = {}
  /\ routes = [p \in Peer |-> Peer \ {p}]

Undelivered == rows \ delivered

Exhausted == \E c \in Undelivered : tries[c] >= MaxRetries

\* The resend loop wakes up. A transfer with a chunk sent too often fails.
StartResending ==
  /\ transfer = "pending" /\ round = {} /\ Undelivered # {}
  /\ world.prompt => Quiet
  /\ transfer' = IF Exhausted THEN "failed" ELSE transfer
  /\ round' = IF Exhausted THEN {} ELSE Undelivered
  /\ UNCHANGED <<keyVars, size, rows, delivered, tries, sending, chunks, acks, incoming,
                 faults, world>>

\* Fault: only an attempt that sends something counts.
ResendCountingSent ==
  /\ round # {}
  /\ round' = round \ {First(round)}
  /\ tries' = IF Transmitted(First(round)) = {} THEN tries
              ELSE [tries EXCEPT ![First(round)] = @ + 1]
  /\ chunks' = chunks \cup Transmitted(First(round))
  /\ UNCHANGED <<keyVars, size, transfer, rows, delivered, sending, acks, incoming,
                 faults, world>>

\* The attempt counts before the loop looks for a route and a key.
ResendChunk ==
  /\ round # {}
  /\ round' = round \ {First(round)}
  /\ tries' = [tries EXCEPT ![First(round)] = @ + 1]
  /\ chunks' = chunks \cup Transmitted(First(round))
  /\ UNCHANGED <<keyVars, size, transfer, rows, delivered, sending, acks, incoming,
                 faults, world>>

\* MESSAGE_TTL is an hour and retries are used up within a minute: a
\* transfer gets that old only while the process is down, or when a crash
\* has left nothing to resend.
SenderMayExpire ==
  /\ faults["restart"] + faults["crash"] > 0
  /\ world.prompt => Undelivered = {}

\* Fault: completed transfers expire as well.
ExpireAny ==
  /\ transfer \in {"pending", "completed"} /\ round = {} /\ SenderMayExpire
  /\ transfer' = "failed"
  /\ rows' = {} /\ delivered' = {}
  /\ UNCHANGED <<keyVars, size, tries, sending, round, chunks, acks, incoming, faults, world>>

\* The resend loop wakes up and finds the transfer expired.
ExpireOutgoing ==
  /\ transfer = "pending" /\ round = {} /\ SenderMayExpire
  /\ transfer' = "failed"
  /\ rows' = {} /\ delivered' = {}
  /\ UNCHANGED <<keyVars, size, tries, sending, round, chunks, acks, incoming, faults, world>>

\* mark_chunk_delivered: the first FILE_ACK of a chunk that has a row. The
\* last of them completes the transfer, even one that has failed.
HandleFileAck(c) ==
  /\ c \in acks
  /\ acks' = acks \ {c}
  /\ delivered' = delivered \cup (rows \cap {c})
  /\ transfer' = IF Undelivered = {c} THEN "completed" ELSE transfer
  /\ UNCHANGED <<keyVars, size, rows, tries, sending, round, chunks, incoming, faults, world>>

---------------------------------------------------------------------------
(* The recipient                                                         *)

\* The writes of _save_and_finalize_chunk, one by one.
Written(r, c, bytes) == [r EXCEPT !.saved = @ \cup {c}, !.data[c] = bytes]
Created(r)           == IF r.row = "none" THEN [r EXCEPT !.row = "pending"] ELSE r
Counted(r)           == [r EXCEPT !.count = @ + 1, !.row = "in_progress"]
Joined(r)            == UNION {r.data[c] : c \in Chunk}
Assembled(r)         == [r EXCEPT !.complete = Joined(r)]
Completed(r)         == [r EXCEPT !.row = "completed"]
Failed(r)            == [r EXCEPT !.row = "failed"]

\* Fault: what all chunk files hold is taken for the file.
FinishedUnverified(r) == IF r.saved # Chunk THEN r ELSE Completed(Assembled(r))

\* Only a missing chunk stops _reassemble_file. The hash tells the file
\* from anything else.
Finished(r) ==
  IF r.count < TotalChunks(size) \/ r.saved # Chunk THEN r
  ELSE IF Joined(r) = Content THEN Completed(Assembled(r))
  ELSE Failed(r)

Saved(r, c) ==
  IF c \in r.saved THEN r ELSE Finished(Counted(Created(Written(r, c, Slice(c)))))

Opens(s) == Knows(To, From) /\ peers[To][From] = s.by /\ key[To] = s.for

\* Fault: only a new chunk is acknowledged.
AcceptOnce(s) ==
  /\ Opens(s)
  /\ chunks' = chunks \ {s}
  /\ incoming' = Saved(incoming, s.index)
  /\ acks' = acks \cup IF s.index \in incoming.saved THEN {} ELSE Sent(To, From, s.index)
  /\ UNCHANGED <<keyVars, size, senderVars, faults, world>>

\* Save a chunk that opens and acknowledge it, whether it is new or not.
AcceptChunk(s) ==
  /\ Opens(s)
  /\ chunks' = chunks \ {s}
  /\ incoming' = Saved(incoming, s.index)
  /\ acks' = acks \cup Sent(To, From, s.index)
  /\ UNCHANGED <<keyVars, size, senderVars, faults, world>>

\* Drop one that does not, and send the own key, asking for theirs.
RejectChunk(s) ==
  /\ ~Opens(s)
  /\ chunks' = chunks \ {s}
  /\ kex' = kex \cup Sent(To, From, KeyPacketOf(To, From, FALSE))
  /\ UNCHANGED <<cryptoVars, routes, size, senderVars, acks, incoming, faults, world>>

HandleFileChunk(c) == \E s \in chunks : s.index = c /\ (AcceptChunk(s) \/ RejectChunk(s))

\* Expiry does not ask which side a row is of. A row gets that old when
\* the sender has stopped, or while a process is down.
ExpireIncoming ==
  /\ incoming.row \in {"pending", "in_progress"}
  /\ transfer # "pending" \/ (faults["restart"] + faults["crash"] > 0 /\ ~world.prompt)
  /\ incoming' = Failed(incoming)
  /\ UNCHANGED <<keyVars, size, senderVars, chunks, acks, faults, world>>

---------------------------------------------------------------------------
(* Keys, routes and faults                                               *)

HandleKex(p, q) == DeliverKex(p, q) /\ UNCHANGED <<fileVars, faults, world>>
Repair(p, q)    == GainRoute(p, q) /\ UNCHANGED <<fileVars, faults, world>>

Happens(f) ==
  /\ faults[f] < world.max[f]
  /\ faults' = [faults EXCEPT ![f] = @ + 1]
  /\ UNCHANGED world

Lose ==
  /\ Happens("loss")
  /\ \/ \E s \in chunks : chunks' = chunks \ {s} /\ UNCHANGED <<kex, acks>>
     \/ \E c \in acks : acks' = acks \ {c} /\ UNCHANGED <<kex, chunks>>
     \/ \E k \in kex : kex' = kex \ {k} /\ UNCHANGED <<chunks, acks>>
  /\ UNCHANGED <<cryptoVars, routes, size, senderVars, incoming>>

Outage(p, q) == Happens("outage") /\ LoseRoute(p, q) /\ UNCHANGED fileVars

\* What the sender was doing is gone.
Forget(p) ==
  /\ sending' = IF p = From THEN {} ELSE sending
  /\ round' = IF p = From THEN {} ELSE round

Restart(p) ==
  /\ Happens("restart") /\ Forget(p)
  /\ Shutdown(p) \/ RegenerateKeys(p)
  /\ UNCHANGED <<size, transfer, rows, delivered, tries, chunks, acks, incoming>>

Crash(p) ==
  /\ Happens("crash") /\ Forget(p)
  /\ routes' = [routes EXCEPT ![p] = {}]
  /\ UNCHANGED <<cryptoVars, kex, size, tries>>

\* The endpoint had written the transfer and not its chunks.
CrashSending ==
  /\ transfer = "none"
  /\ Crash(From)
  /\ transfer' = "pending"
  /\ UNCHANGED <<rows, delivered, chunks, acks, incoming>>

\* mark_chunk_delivered had written the chunk and not the transfer.
CrashMarking ==
  /\ \E c \in acks : acks' = acks \ {c} /\ delivered' = delivered \cup (rows \cap {c})
  /\ Crash(From)
  /\ UNCHANGED <<transfer, rows, chunks, incoming>>

\* What the recipient had written of chunk c, and of the file when c is the
\* last.
WrittenInPart(r, c) ==
  LET w == Written(r, c, Slice(c))
      k == Counted(Created(w))
  IN  {Written(r, c, {i \in Slice(c) : i < n}) : n \in Slice(c)}
        \cup {w, Created(w), k, Saved(r, c)}
        \cup IF Finished(k) = Completed(Assembled(k))
               THEN {[k EXCEPT !.complete = {i \in Content : i < n}] : n \in 0..size}
               ELSE {}

CrashSaving ==
  /\ \E s \in chunks :
       /\ Opens(s) /\ s.index \notin incoming.saved
       /\ chunks' = chunks \ {s}
       /\ incoming' \in WrittenInPart(incoming, s.index)
  /\ Crash(To)
  /\ UNCHANGED <<transfer, rows, delivered, acks>>

Next ==
  \/ SendFile \/ SendChunk \/ StartResending \/ ResendChunk
  \/ ExpireOutgoing \/ ExpireIncoming
  \/ \E c \in Chunk : HandleFileAck(c) \/ HandleFileChunk(c)
  \/ \E p, q \in Peer : HandleKex(p, q) \/ Outage(p, q) \/ Repair(p, q)
  \/ \E p \in Peer : Restart(p)
  \/ Lose \/ CrashSending \/ CrashMarking \/ CrashSaving

Spec == Init /\ [][Next]_vars

\* Suspended handlers resume, every read loop handles what it reads, the
\* resend loops keep waking up and routes come back.
Fairness ==
  /\ WF_vars(SendChunk) /\ WF_vars(StartResending) /\ WF_vars(ResendChunk)
  /\ WF_vars(ExpireOutgoing) /\ WF_vars(ExpireIncoming)
  /\ \A c \in UNION {ChunksOf(n) : n \in Sizes} :
       WF_vars(HandleFileAck(c)) /\ WF_vars(HandleFileChunk(c))
  /\ \A p, q \in Peer : WF_vars(HandleKex(p, q)) /\ WF_vars(Repair(p, q))

FairSpec == Spec /\ Fairness

---------------------------------------------------------------------------
(* Properties                                                            *)

\* While no process crashes in the middle of a handler, a transfer that is
\* completed for its sender is completed for its recipient, whose file is
\* the one sent: no chunk is counted twice, none is left out.
CompletedIsReceived ==
  transfer = "completed" /\ faults["crash"] = 0 =>
    incoming.row = "completed" /\ incoming.complete = Content

\* Whatever crashes, the file a recipient can download is the one sent.
DownloadIsWhole == incoming.row = "completed" => incoming.complete = Content

\* A transfer once completed stays so on both sides, whatever comes late.
CompletedIsFinal ==
  [][/\ transfer = "completed" => transfer' = "completed"
     /\ incoming.row = "completed" => incoming' = incoming]_vars

\* The program implements FileService, its liveness included.
Service == INSTANCE FileService WITH
  missing <- Chunk \ incoming.saved,
  outcome <- CASE transfer = "none" -> "unsent"
               [] transfer = "pending" -> "open"
               [] transfer = "completed" -> "completed"
               [] transfer = "failed" -> "failed"

ImplementsService     == Service!Spec
ImplementsFairService == Service!FairSpec

\* Between peers that have exchanged keys, a file arrives in spite of lost
\* packets and of a restart, even one with new keys.
FileArrives ==
  world.prompt /\ transfer = "pending" /\ Knows(From, To) ~> transfer = "completed"

\* A sender is told "completed" only of a file its recipient has assembled
\* and verified ("После получения всех чанков получатель собирает файл и
\* проверяет SHA-256", docs/PROTOCOL.md).
CompletedIsAssembled == transfer = "completed" => incoming.row = "completed"

===========================================================================
