---------------------------- MODULE FileProofs ----------------------------
(* Safety of FileTransfer for a file of any length, chunks of any size,   *)
(* any number of retries and faults, and that FileTransfer implements     *)
(* FileService.                                                           *)
EXTENDS FileTransfer, KeyProofs, FiniteSetTheorems, WellFoundedInduction

\* The file and the circumstances.
Given == size \in Nat /\ world \in World /\ faults \in [Fault -> Nat]

\* A transfer has rows for all chunks or for none. What the resend loop
\* took down are its rows, with retries left.
SenderInv ==
  /\ transfer \in {"none", "pending", "completed", "failed"}
  /\ rows \in {{}, Chunk} /\ delivered \subseteq rows
  /\ tries \in [Chunk -> 0..MaxRetries]
  /\ sending \subseteq Chunk /\ round \subseteq rows
  /\ \A c \in round : tries[c] < MaxRetries

\* Only what the recipient has saved is acknowledged, and a transfer is
\* completed when all of it is.
AckedInv ==
  /\ chunks \subseteq Sealed /\ \A s \in chunks : s.index \in Chunk
  /\ acks \subseteq incoming.saved /\ delivered \subseteq incoming.saved
  /\ transfer = "completed" => incoming.saved = Chunk

\* Nothing comes before the transfer.
Origin ==
  transfer = "none" =>
    sending = {} /\ round = {} /\ chunks = {} /\ acks = {} /\ incoming.saved = {}

\* A completed row stands for the whole file.
Whole(r) == r.row = "completed" => r.saved = Chunk /\ r.complete = Content

\* What is saved is counted and right, and completed with the last chunk.
Exact(r) ==
  /\ r.count = Cardinality(r.saved)
  /\ \A c \in r.saved : r.data[c] = Slice(c)
  /\ r.saved = Chunk => r.row = "completed"

ReceiverInv ==
  /\ incoming \in Incoming /\ incoming.saved \subseteq Chunk
  /\ incoming.count <= Cardinality(incoming.saved)
  /\ Whole(incoming)
  /\ faults["crash"] = 0 => Exact(incoming)

IInv == KeyInv /\ Given /\ SenderInv /\ AckedInv /\ Origin /\ ReceiverInv

---------------------------------------------------------------------------
(* Slices of a file                                                      *)

\* The slice a position is in.
LEMMA Position ==
  ASSUME NEW i \in Nat, NEW n \in Nat, i < n
  PROVE  \E c \in ChunksOf(n) : c * ChunkSize <= i /\ i < (c + 1) * ChunkSize
<1> DEFINE c == i \div ChunkSize
<1> DEFINE t == (n + ChunkSize - 1) \div ChunkSize
<1>1. ChunkSize \in Nat /\ ChunkSize > 0
  BY FileAssumption
<1>2. /\ c \in Nat /\ c * ChunkSize <= i /\ i < (c + 1) * ChunkSize
      /\ t \in Nat /\ n + ChunkSize - 1 < (t + 1) * ChunkSize
  BY <1>1
<1>3. c < t
  <2> HIDE DEF c, t
  <2>1. c * ChunkSize < t * ChunkSize
    BY <1>1, <1>2
  <2> QED BY <1>1, <1>2, <2>1
<1>4. TotalChunks(n) = t
  BY DEF TotalChunks
<1>5. c \in ChunksOf(n)
  <2> HIDE DEF c, t
  <2> QED BY <1>2, <1>3, <1>4 DEF ChunksOf
<1> QED BY <1>2, <1>5

\* A file has at least one chunk, and finitely many.
LEMMA ChunkCount ==
  ASSUME size \in Nat
  PROVE  /\ TotalChunks(size) \in Nat \ {0}
         /\ IsFiniteSet(Chunk) /\ Cardinality(Chunk) = TotalChunks(size)
         /\ Chunk \subseteq Nat /\ Chunk # {}
<1>1. TotalChunks(size) \in Nat \ {0}
  <2>1. CASE size = 0
    BY <2>1 DEF TotalChunks
  <2>2. CASE size # 0
    <3> DEFINE t == (size + ChunkSize - 1) \div ChunkSize
    <3>1. ChunkSize \in Nat /\ ChunkSize > 0 /\ size > 0
      BY <2>2, FileAssumption
    <3>2. t \in Nat /\ size + ChunkSize - 1 < (t + 1) * ChunkSize
      BY <3>1
    <3>3. t # 0
      <4> HIDE DEF t
      <4> QED BY <3>1, <3>2
    <3> QED BY <2>2, <3>2, <3>3 DEF TotalChunks
  <2> QED BY <2>1, <2>2
<1>2. Chunk = 0..TotalChunks(size) - 1
  BY DEF Chunk, ChunksOf
<1>3. IsFiniteSet(Chunk) /\ Cardinality(Chunk) = TotalChunks(size)
  <2> DEFINE t == TotalChunks(size)
  <2> HIDE DEF t
  <2>1. t \in Nat \ {0} /\ Chunk = 0..t - 1
    BY <1>1, <1>2 DEF t
  <2>2. IsFiniteSet(0..t - 1) /\ Cardinality(0..t - 1) = t
    BY <2>1, FS_Interval
  <2> QED BY <2>1, <2>2 DEF t
<1> QED BY <1>1, <1>2, <1>3

\* The slices of a file make up the file.
LEMMA SlicesJoin ==
  ASSUME size \in Nat
  PROVE  UNION {Slice(c) : c \in Chunk} = Content
<1>1. ASSUME NEW i \in Content PROVE \E c \in Chunk : i \in Slice(c)
  BY <1>1, Position DEF Content, Chunk, Slice
<1> QED BY <1>1 DEF Slice

---------------------------------------------------------------------------
(* The writes of the recipient                                           *)

\* Counting a chunk and, when it is the last, assembling the file.
LEMMA SavedFields ==
  ASSUME size \in Nat, NEW r \in Incoming, r.saved \subseteq Chunk, NEW c \in Chunk,
         c \notin r.saved, NEW w, w = Saved(r, c)
  PROVE  /\ w \in Incoming /\ w.saved = r.saved \cup {c}
         /\ w.data = [r.data EXCEPT ![c] = Slice(c)] /\ w.count = r.count + 1
         /\ Whole(w)
         /\ w.saved = Chunk /\ w.count >= TotalChunks(size) /\ Joined(w) = Content
              => w.row = "completed"
<1> DEFINE v == Counted(Created(Written(r, c, Slice(c))))
<1>1. Slice(c) \in SUBSET Nat /\ Content \in SUBSET Nat /\ Chunk \subseteq Nat
  BY ChunkCount DEF Slice, Content
<1>2. /\ v \in Incoming /\ v.saved = r.saved \cup {c}
      /\ v.data = [r.data EXCEPT ![c] = Slice(c)] /\ v.count = r.count + 1
      /\ v.row = "in_progress"
  <2> DEFINE x == Written(r, c, Slice(c))
  <2> DEFINE y == Created(x)
  <2>1. /\ x \in Incoming /\ x.saved = r.saved \cup {c}
        /\ x.data = [r.data EXCEPT ![c] = Slice(c)] /\ x.count = r.count
    BY <1>1 DEF Incoming, Written
  <2> HIDE DEF x
  <2>2. y \in Incoming /\ y.saved = x.saved /\ y.data = x.data /\ y.count = x.count
    BY <2>1 DEF Incoming, Created
  <2> HIDE DEF y
  <2>3. v = Counted(y)
    BY DEF x, y
  <2> HIDE DEF v
  <2>4. y.count + 1 \in Nat
    BY <2>2 DEF Incoming
  <2>5. /\ v \in Incoming /\ v.saved = y.saved /\ v.data = y.data /\ v.count = y.count + 1
        /\ v.row = "in_progress"
    BY <2>2, <2>3, <2>4 DEF Incoming, Counted
  <2> QED BY <2>1, <2>2, <2>5
<1>3. w = Finished(v)
  BY DEF Saved
<1> HIDE DEF v
<1>4. CASE v.count < TotalChunks(size) \/ v.saved # Chunk
  <2>1. w = v
    BY <1>3, <1>4 DEF Finished
  <2>2. v.count \in Nat /\ TotalChunks(size) \in Nat
    BY <1>2, ChunkCount DEF Incoming
  <2>3. ~(w.saved = Chunk /\ w.count >= TotalChunks(size))
    BY <1>4, <2>1, <2>2
  <2> QED BY <1>2, <2>1, <2>3 DEF Whole
<1>5. CASE ~(v.count < TotalChunks(size) \/ v.saved # Chunk) /\ Joined(v) = Content
  <2>1. w = Completed(Assembled(v))
    BY <1>3, <1>5 DEF Finished
  <2>2. /\ w \in Incoming /\ w.saved = v.saved /\ w.data = v.data /\ w.count = v.count
        /\ w.row = "completed" /\ w.complete = Content
    BY <1>1, <1>2, <1>5, <2>1 DEF Incoming, Completed, Assembled
  <2> QED BY <1>2, <1>5, <2>2 DEF Whole
<1>6. CASE ~(v.count < TotalChunks(size) \/ v.saved # Chunk) /\ Joined(v) # Content
  <2>1. w = Failed(v)
    BY <1>3, <1>6 DEF Finished
  <2>2. /\ w \in Incoming /\ w.saved = v.saved /\ w.data = v.data /\ w.count = v.count
        /\ w.row = "failed"
    BY <1>2, <2>1 DEF Incoming, Failed
  <2>3. Joined(w) # Content
    BY <1>6, <2>2 DEF Joined
  <2> QED BY <1>2, <2>2, <2>3 DEF Whole
<1> QED BY <1>4, <1>5, <1>6

\* One more chunk is saved; before, there was none or not all were there.
LEMMA OneMore ==
  ASSUME size \in Nat, NEW r \in Incoming, r.saved \subseteq Chunk, NEW c \in Chunk, c \notin r.saved
  PROVE  /\ Cardinality(r.saved) \in Nat
         /\ Cardinality(r.saved \cup {c}) = Cardinality(r.saved) + 1
         /\ r.saved # Chunk
<1>1. IsFiniteSet(r.saved)
  BY ChunkCount, FS_Subset
<1> QED BY <1>1, FS_CardinalityType, FS_AddElement

\* Saving a chunk keeps the count right and completes the file in the end.
LEMMA SavedExact ==
  ASSUME size \in Nat, NEW r \in Incoming, r.saved \subseteq Chunk, NEW c \in Chunk,
         Exact(r)
  PROVE  Exact(Saved(r, c))
<1>1. CASE c \in r.saved
  BY <1>1 DEF Saved
<1>2. CASE c \notin r.saved
  <2> DEFINE w == Saved(r, c)
  <2>1. /\ w.saved = r.saved \cup {c} /\ w.data = [r.data EXCEPT ![c] = Slice(c)]
        /\ w.count = r.count + 1
        /\ w.saved = Chunk /\ w.count >= TotalChunks(size) /\ Joined(w) = Content
             => w.row = "completed"
    BY <1>2, SavedFields
  <2> HIDE DEF w
  <2>2. w.count = Cardinality(w.saved)
    BY <1>2, <2>1, OneMore DEF Exact
  <2>3. \A d \in w.saved : w.data[d] = Slice(d)
    BY <2>1 DEF Exact, Incoming
  <2>4. ASSUME w.saved = Chunk PROVE w.row = "completed"
    <3>1. Joined(w) = Content
      BY <2>3, <2>4, SlicesJoin DEF Joined
    <3>2. w.count >= TotalChunks(size)
      BY <2>2, <2>4, ChunkCount
    <3> QED BY <2>1, <2>4, <3>1, <3>2
  <2>5. Exact(w)
    BY <2>2, <2>3, <2>4 DEF Exact
  <2> QED BY <2>5 DEF w
<1> QED BY <1>1, <1>2

\* Whatever was written of a chunk before a crash, a completed row stands
\* for the whole file.
LEMMA PartFields ==
  ASSUME size \in Nat, NEW r \in Incoming, r.saved \subseteq Chunk, NEW c \in Chunk,
         c \notin r.saved, r.count <= Cardinality(r.saved), Whole(r),
         NEW w \in WrittenInPart(r, c)
  PROVE  /\ w \in Incoming /\ w.saved = r.saved \cup {c}
         /\ w.count <= Cardinality(w.saved) /\ Whole(w)
<1>1. /\ Cardinality(r.saved) \in Nat /\ r.saved # Chunk
      /\ Cardinality(r.saved \cup {c}) = Cardinality(r.saved) + 1
  BY OneMore
<1>2. r.row # "completed" /\ r.count \in Nat
  BY <1>1 DEF Whole, Incoming
<1>3. ASSUME NEW v \in Incoming, v.saved = r.saved \cup {c},
             v.count = r.count \/ v.count = r.count + 1
      PROVE  v.count <= Cardinality(v.saved)
  BY <1>1, <1>2, <1>3
<1>4. ASSUME NEW bytes \in SUBSET Nat
      PROVE  /\ Written(r, c, bytes) \in Incoming
             /\ Written(r, c, bytes).saved = r.saved \cup {c}
             /\ Written(r, c, bytes).count = r.count /\ Written(r, c, bytes).row = r.row
  <2>1. c \in Nat
    BY ChunkCount
  <2> QED BY <2>1 DEF Written, Incoming
<1>5. Slice(c) \in SUBSET Nat
  BY DEF Slice, Content
<1>6. CASE w = Written(r, c, Slice(c))
  BY <1>2, <1>3, <1>4, <1>5, <1>6 DEF Whole
<1>7. CASE \E n \in Slice(c) : w = Written(r, c, {i \in Slice(c) : i < n})
  <2>1. PICK bytes \in SUBSET Nat : w = Written(r, c, bytes)
    BY <1>5, <1>7
  <2> QED BY <1>2, <1>3, <1>4, <2>1 DEF Whole
<1>8. CASE w = Created(Written(r, c, Slice(c)))
  <2> DEFINE x == Written(r, c, Slice(c))
  <2>1. x \in Incoming /\ x.saved = r.saved \cup {c} /\ x.count = r.count /\ x.row = r.row
    BY <1>4, <1>5
  <2> HIDE DEF x
  <2>2. w = Created(x)
    BY <1>8 DEF x
  <2>3. w \in Incoming /\ w.saved = x.saved /\ w.count = x.count /\ w.row # "completed"
    BY <1>2, <2>1, <2>2 DEF Created, Incoming
  <2> QED BY <1>3, <2>1, <2>3 DEF Whole
<1>9. CASE w = Counted(Created(Written(r, c, Slice(c))))
  <2> DEFINE x == Written(r, c, Slice(c))
  <2> DEFINE y == Created(x)
  <2>1. x \in Incoming /\ x.saved = r.saved \cup {c} /\ x.count = r.count
    BY <1>4, <1>5
  <2> HIDE DEF x
  <2>2. y \in Incoming /\ y.saved = x.saved /\ y.count = x.count
    BY <2>1 DEF Created, Incoming
  <2>3. w = Counted(y)
    BY <1>9 DEF x
  <2> HIDE DEF y
  <2>4. y.count + 1 \in Nat
    BY <2>2 DEF Incoming
  <2>5. w \in Incoming /\ w.saved = y.saved /\ w.count = y.count + 1 /\ w.row = "in_progress"
    BY <2>2, <2>3, <2>4 DEF Counted, Incoming
  <2> QED BY <1>3, <2>1, <2>2, <2>5 DEF Whole
<1>10. CASE w = Saved(r, c)
  BY <1>3, <1>10, SavedFields
<1>11. CASE \E n \in 0..size :
              w = [Counted(Created(Written(r, c, Slice(c)))) EXCEPT !.complete = {i \in Content : i < n}]
  <2> DEFINE x == Written(r, c, Slice(c))
  <2> DEFINE y == Created(x)
  <2> DEFINE z == Counted(y)
  <2>1. x \in Incoming /\ x.saved = r.saved \cup {c} /\ x.count = r.count
    BY <1>4, <1>5
  <2> HIDE DEF x
  <2>2. y \in Incoming /\ y.saved = x.saved /\ y.count = x.count
    BY <2>1 DEF Created, Incoming
  <2> HIDE DEF y
  <2>3. y.count + 1 \in Nat
    BY <2>2 DEF Incoming
  <2>4. z \in Incoming /\ z.saved = y.saved /\ z.count = y.count + 1 /\ z.row = "in_progress"
    BY <2>2, <2>3 DEF Counted, Incoming
  <2>5. PICK n \in 0..size : w = [z EXCEPT !.complete = {i \in Content : i < n}]
    BY <1>11 DEF x, y
  <2> HIDE DEF z
  <2>6. {i \in Content : i < n} \in SUBSET Nat
    BY DEF Content
  <2>7. /\ w \in Incoming /\ w.saved = z.saved
        /\ w.count = z.count /\ w.row = "in_progress"
    BY <2>4, <2>5, <2>6 DEF Incoming
  <2> QED BY <1>3, <2>1, <2>2, <2>4, <2>7 DEF Whole
<1> QED BY <1>6, <1>7, <1>8, <1>9, <1>10, <1>11 DEF WrittenInPart

---------------------------------------------------------------------------
(* The steps                                                             *)

\* The file stays the same.
LEMMA SameFile ==
  ASSUME size' = size
  PROVE  /\ Chunk' = Chunk /\ Content' = Content
         /\ Incoming' = Incoming
         /\ \A c \in Chunk : Slice(c)' = Slice(c)
  BY DEF Chunk, ChunksOf, Content, Incoming, Slice

\* The recipient does nothing.
LEMMA ReceiverIdle ==
  ASSUME Given, ReceiverInv, UNCHANGED <<size, incoming>>,
         faults'["crash"] = 0 => faults["crash"] = 0
  PROVE  ReceiverInv'
<1>1. /\ Chunk' = Chunk /\ Content' = Content /\ Incoming' = Incoming
      /\ \A c \in incoming.saved : Slice(c)' = Slice(c)
  BY SameFile DEF ReceiverInv
<1>2. Whole(incoming)' <=> Whole(incoming)
  BY <1>1 DEF Whole
<1>3. Exact(incoming) => Exact(incoming)'
  BY <1>1 DEF Exact
<1> QED BY <1>1, <1>2, <1>3 DEF ReceiverInv

\* A fault is counted.
LEMMA HappensGiven ==
  ASSUME Given, NEW f \in Fault, Happens(f), UNCHANGED size
  PROVE  /\ Given'
         /\ faults'["crash"] = 0 => faults["crash"] = 0
         /\ f = "crash" => faults'["crash"] # 0
<1>1. /\ faults \in [Fault -> Nat] /\ faults' = [faults EXCEPT ![f] = @ + 1]
      /\ UNCHANGED world /\ "crash" \in Fault
  BY DEF Given, Happens, Fault
<1> QED BY <1>1 DEF Given

\* Without one, the circumstances stay.
LEMMA SameGiven ==
  ASSUME Given, UNCHANGED <<size, faults, world>>
  PROVE  /\ Given'
         /\ faults'["crash"] = 0 => faults["crash"] = 0
  BY DEF Given

\* A packet of the endpoint or the resend loop is a sealed chunk.
LEMMA TransmittedSealed ==
  ASSUME KeyInv, size \in Nat, NEW c \in Chunk
  PROVE  \A s \in Transmitted(c) : s \in Sealed /\ s.index = c
<1>1. From \in Peer /\ To \in Peer /\ c \in Nat
  BY FileAssumption, ChunkCount
<1>2. Knows(From, To) => peers[From][To] \in Key
  BY <1>1 DEF Knows, KeyInv, KeyTypeOK
<1>3. key[From] \in Key
  BY <1>1 DEF KeyInv, KeyTypeOK
<1> QED BY <1>1, <1>2, <1>3 DEF Transmitted, Sent, Sealed

\* The endpoint writes the rows and sends or asks for the key.
LEMMA SendFileStep ==
  ASSUME IInv, SendFile
  PROVE  IInv'
<1> USE DEF IInv
<1>1. KeyInv'
  <2>1. CASE Knows(From, To)
    <3>1. UNCHANGED keyVars
      BY <2>1 DEF SendFile, keyVars, cryptoVars
    <3> QED BY <3>1, OtherSteps, FileAssumption
  <2>2. CASE ~Knows(From, To)
    BY <2>2, RequestStep, FileAssumption DEF SendFile
  <2> QED BY <2>1, <2>2
<1>2. /\ UNCHANGED <<size, incoming, faults, world, delivered, tries, round, chunks, acks>>
      /\ transfer = "none" /\ transfer' = "pending" /\ rows' = Chunk /\ sending' \subseteq Chunk
  BY DEF SendFile
<1>3. Given' /\ ReceiverInv' /\ Chunk' = Chunk
  BY <1>2, ReceiverIdle, SameGiven, SameFile
<1>4. SenderInv'
  BY <1>2, <1>3 DEF SenderInv, Origin
<1>5. AckedInv' /\ Origin'
  BY <1>2, <1>3 DEF AckedInv, Origin
<1> QED BY <1>1, <1>3, <1>4, <1>5

\* The lowest index is one of them.
LEMMA FirstIn ==
  ASSUME size \in Nat, NEW S \in SUBSET Chunk, S # {}
  PROVE  First(S) \in S
<1> DEFINE R == {x \in Nat \X Nat : x[1] < x[2]}
<1>1. S \subseteq Nat
  BY ChunkCount
<1>2. IsWellFoundedOn(R, Nat)
  BY NatLessThanWellFounded DEF OpToRel
<1>3. PICK c \in S : \A d \in S : <<d, c>> \notin R
  <2> HIDE DEF R
  <2> QED BY <1>1, <1>2, WFMin
<1>4. ASSUME NEW d \in S PROVE c <= d
  <2>1. c \in Nat /\ d \in Nat /\ <<d, c>> \in Nat \X Nat
    BY <1>1
  <2>2. ~(<<d, c>>[1] < <<d, c>>[2])
    BY <1>3, <2>1
  <2>3. ~(d < c)
    BY <2>2
  <2> QED BY <2>1, <2>3
<1> QED BY <1>4 DEF First

\* Sending the next chunk, from the endpoint or the resend loop.
LEMMA TransmitStep ==
  ASSUME IInv, SendChunk \/ ResendChunk
  PROVE  IInv'
<1> USE DEF IInv
<1>1. /\ UNCHANGED <<key, owner, peers, verified, shown, routes, kex>>
      /\ UNCHANGED <<size, incoming, faults, world, transfer, rows, delivered, acks>>
  BY DEF SendChunk, ResendChunk, keyVars
<1>2. KeyInv' /\ Given' /\ ReceiverInv' /\ Chunk' = Chunk
  BY <1>1, ReceiverIdle, SameGiven, SameFile DEF KeyInv, KeyTypeOK, KeysAreGenuine
<1>3. rows \subseteq Chunk /\ round \subseteq Chunk /\ sending \subseteq Chunk /\ size \in Nat
  BY DEF SenderInv, Given
<1>4. CASE SendChunk
  <2> DEFINE c == First(sending)
  <2>1. c \in Chunk /\ transfer # "none"
    BY <1>3, <1>4, FirstIn DEF SendChunk, Origin
  <2>2. sending' \subseteq sending /\ chunks' = chunks \cup Transmitted(c) /\ UNCHANGED <<tries, round>>
    BY <1>4 DEF SendChunk
  <2> HIDE DEF c
  <2>3. \A s \in Transmitted(c) : s \in Sealed /\ s.index = c
    BY <1>3, <2>1, TransmittedSealed
  <2>4. SenderInv'
    BY <1>1, <1>2, <2>2 DEF SenderInv
  <2>5. AckedInv' /\ Origin'
    BY <1>1, <1>2, <2>1, <2>2, <2>3 DEF AckedInv, Origin
  <2> QED BY <1>2, <2>4, <2>5
<1>5. CASE ResendChunk
  <2> DEFINE c == First(round)
  <2>1. c \in round /\ c \in Chunk /\ transfer # "none"
    BY <1>3, <1>5, FirstIn DEF ResendChunk, Origin
  <2>2. /\ round' = round \ {c} /\ chunks' = chunks \cup Transmitted(c)
        /\ tries' = [tries EXCEPT ![c] = @ + 1] /\ UNCHANGED sending
    BY <1>5 DEF ResendChunk
  <2> HIDE DEF c
  <2>3. \A s \in Transmitted(c) : s \in Sealed /\ s.index = c
    BY <1>3, <2>1, TransmittedSealed
  <2>4. tries[c] \in Nat /\ tries[c] + 1 \in 0..MaxRetries
    BY <2>1, FileAssumption DEF SenderInv
  <2>5. tries' \in [Chunk -> 0..MaxRetries] /\ \A d \in round' : tries'[d] < MaxRetries
    BY <1>3, <2>2, <2>4 DEF SenderInv
  <2>6. SenderInv'
    BY <1>1, <1>2, <2>2, <2>5 DEF SenderInv
  <2>7. AckedInv' /\ Origin'
    BY <1>1, <1>2, <2>1, <2>2, <2>3 DEF AckedInv, Origin
  <2> QED BY <1>2, <2>6, <2>7
<1> QED BY <1>4, <1>5

\* A round begins, or the transfer ends without its file.
LEMMA RoundStep ==
  ASSUME IInv, StartResending \/ ExpireOutgoing
  PROVE  IInv'
<1> USE DEF IInv
<1>1. /\ UNCHANGED <<key, owner, peers, verified, shown, routes, kex>>
      /\ UNCHANGED <<size, incoming, faults, world, tries, sending, chunks, acks>>
      /\ transfer = "pending" /\ transfer' \in {"pending", "failed"}
  BY DEF StartResending, ExpireOutgoing, keyVars
<1>2. KeyInv' /\ Given' /\ ReceiverInv' /\ Chunk' = Chunk
  BY <1>1, ReceiverIdle, SameGiven, SameFile DEF KeyInv, KeyTypeOK, KeysAreGenuine
<1>3. /\ rows' \in {{}, Chunk} /\ delivered' \subseteq rows' /\ delivered' \subseteq delivered
      /\ round' \subseteq rows' /\ \A c \in round' : tries[c] < MaxRetries
  <2>1. CASE StartResending
    <3>1. UNCHANGED <<rows, delivered>>
      BY <2>1 DEF StartResending
    <3>2. CASE Exhausted
      BY <2>1, <3>1, <3>2 DEF StartResending, SenderInv
    <3>3. CASE ~Exhausted
      <4>1. round' = Undelivered /\ Undelivered \subseteq rows
        BY <2>1, <3>3 DEF StartResending, Undelivered
      <4>2. ASSUME NEW c \in Undelivered PROVE tries[c] < MaxRetries
        <5>1. ~(tries[c] >= MaxRetries)
          BY <3>3 DEF Exhausted
        <5>2. tries[c] \in Nat /\ MaxRetries \in Nat
          BY <4>1, FileAssumption DEF SenderInv
        <5> QED BY <5>1, <5>2
      <4> QED BY <3>1, <4>1, <4>2 DEF SenderInv
    <3> QED BY <3>2, <3>3
  <2>2. CASE ExpireOutgoing
    BY <2>2 DEF ExpireOutgoing, SenderInv
  <2> QED BY <2>1, <2>2
<1>4. SenderInv'
  BY <1>1, <1>2, <1>3 DEF SenderInv
<1>5. AckedInv' /\ Origin'
  BY <1>1, <1>2, <1>3 DEF AckedInv, Origin
<1> QED BY <1>2, <1>4, <1>5

\* A chunk is marked, and the transfer with the last.
LEMMA AckStep ==
  ASSUME IInv, NEW c \in Chunk, HandleFileAck(c)
  PROVE  IInv'
<1> USE DEF IInv
<1>1. /\ UNCHANGED <<key, owner, peers, verified, shown, routes, kex>>
      /\ UNCHANGED <<size, incoming, faults, world, rows, tries, sending, round, chunks>>
      /\ c \in acks /\ acks' \subseteq acks /\ delivered' = delivered \cup (rows \cap {c})
      /\ transfer' = IF Undelivered = {c} THEN "completed" ELSE transfer
  BY DEF HandleFileAck, keyVars
<1>2. KeyInv' /\ Given' /\ ReceiverInv' /\ Chunk' = Chunk
  BY <1>1, ReceiverIdle, SameGiven, SameFile DEF KeyInv, KeyTypeOK, KeysAreGenuine
<1>3. transfer # "none" /\ transfer' # "none"
  BY <1>1 DEF Origin
<1>4. SenderInv'
  BY <1>1, <1>2 DEF SenderInv
<1>5. ASSUME Undelivered = {c} PROVE incoming.saved = Chunk
  <2>1. rows = Chunk /\ \A d \in Chunk : d \in delivered \/ d = c
    BY <1>5 DEF Undelivered, SenderInv
  <2> QED BY <1>1, <2>1 DEF AckedInv, ReceiverInv
<1>6. AckedInv' /\ Origin'
  BY <1>1, <1>2, <1>3, <1>5 DEF AckedInv, Origin
<1> QED BY <1>2, <1>4, <1>6

\* The recipient saves and acknowledges a chunk.
LEMMA AcceptStep ==
  ASSUME IInv, NEW s \in chunks, AcceptChunk(s)
  PROVE  IInv'
<1> USE DEF IInv
<1> DEFINE c == s.index
<1>1. /\ UNCHANGED <<key, owner, peers, verified, shown, routes, kex>>
      /\ UNCHANGED <<size, faults, world, transfer, rows, delivered, tries, sending, round>>
      /\ incoming' = Saved(incoming, c) /\ chunks' \subseteq chunks /\ acks' \subseteq acks \cup {c}
  BY DEF AcceptChunk, keyVars, senderVars, Sent
<1>2. /\ KeyInv' /\ Given' /\ Chunk' = Chunk /\ Content' = Content /\ Incoming' = Incoming
      /\ \A d \in Chunk : Slice(d)' = Slice(d)
  BY <1>1, SameGiven, SameFile DEF KeyInv, KeyTypeOK, KeysAreGenuine
<1>3. c \in Chunk /\ size \in Nat /\ transfer # "none"
  BY DEF AckedInv, Given, Origin
<1> HIDE DEF c
<1> DEFINE w == Saved(incoming, c)
<1>4. /\ w \in Incoming /\ w.saved = incoming.saved \cup {c}
      /\ w.count <= Cardinality(w.saved) /\ Whole(w)
  <2>1. CASE c \in incoming.saved
    <3>1. w = incoming
      BY <2>1 DEF Saved
    <3> QED BY <2>1, <3>1 DEF ReceiverInv
  <2>2. CASE c \notin incoming.saved
    <3>1. /\ w \in Incoming /\ w.saved = incoming.saved \cup {c} /\ Whole(w)
          /\ w.count = incoming.count + 1
      BY <1>3, <2>2, SavedFields DEF ReceiverInv
    <3>2. /\ Cardinality(incoming.saved) \in Nat
          /\ Cardinality(w.saved) = Cardinality(incoming.saved) + 1
      BY <1>3, <2>2, <3>1, OneMore DEF ReceiverInv
    <3>3. incoming.count \in Nat /\ incoming.count <= Cardinality(incoming.saved)
      BY DEF ReceiverInv, Incoming
    <3> HIDE DEF w
    <3> QED BY <3>1, <3>2, <3>3
  <2> QED BY <2>1, <2>2
<1>5. faults["crash"] = 0 => Exact(w)
  BY <1>3, SavedExact DEF ReceiverInv
<1>6. incoming' = w
  BY <1>1
<1> HIDE DEF w
<1>7. ReceiverInv'
  <2>1. incoming'.saved \subseteq Chunk
    BY <1>3, <1>4, <1>6 DEF ReceiverInv
  <2>2. Whole(incoming)'
    BY <1>2, <1>4, <1>6 DEF Whole
  <2>3. (faults["crash"] = 0 => Exact(incoming))'
    BY <1>1, <1>2, <1>5, <1>6, <2>1 DEF Exact
  <2> QED BY <1>2, <1>4, <1>6, <2>1, <2>2, <2>3 DEF ReceiverInv
<1>8. SenderInv'
  BY <1>1, <1>2 DEF SenderInv
<1>9. AckedInv' /\ Origin'
  BY <1>1, <1>2, <1>3, <1>4, <1>6 DEF AckedInv, Origin, ReceiverInv
<1> QED BY <1>2, <1>7, <1>8, <1>9

\* Packets, keys and routes come and go, and the sender may forget what it
\* was doing.
LEMMA OutsideStep ==
  ASSUME IInv, KeyInv', Given', faults'["crash"] = 0 => faults["crash"] = 0,
         UNCHANGED <<size, incoming, rows, delivered, tries, transfer>>,
         sending' \subseteq sending, round' \subseteq round,
         chunks' \subseteq chunks, acks' \subseteq acks
  PROVE  IInv'
<1> USE DEF IInv
<1>1. ReceiverInv' /\ Chunk' = Chunk
  BY ReceiverIdle, SameFile
<1>2. SenderInv'
  BY <1>1 DEF SenderInv
<1>3. AckedInv' /\ Origin'
  BY <1>1 DEF AckedInv, Origin
<1> QED BY <1>1, <1>2, <1>3

\* A chunk that does not open is dropped, and keys are exchanged.
LEMMA RejectStep ==
  ASSUME IInv, NEW s \in chunks, RejectChunk(s)
  PROVE  IInv'
<1>1. KeyInv'
  BY RequestStep, FileAssumption DEF RejectChunk, IInv
<1>2. /\ UNCHANGED <<size, incoming, rows, delivered, tries, transfer, sending, round, acks>>
      /\ UNCHANGED <<faults, world>> /\ chunks' \subseteq chunks
  BY DEF RejectChunk, senderVars
<1> QED BY <1>1, <1>2, SameGiven, OutsideStep DEF IInv

\* The recipient's row expires.
LEMMA ExpireStep ==
  ASSUME IInv, ExpireIncoming
  PROVE  IInv'
<1> USE DEF IInv
<1>1. /\ UNCHANGED <<key, owner, peers, verified, shown, routes, kex>>
      /\ UNCHANGED <<size, faults, world, transfer, rows, delivered, tries, sending, round>>
      /\ UNCHANGED <<chunks, acks>> /\ incoming.row # "completed" /\ incoming' = Failed(incoming)
  BY DEF ExpireIncoming, keyVars, senderVars
<1>2. /\ KeyInv' /\ Given' /\ Chunk' = Chunk /\ Content' = Content /\ Incoming' = Incoming
      /\ \A d \in Chunk : Slice(d)' = Slice(d)
  BY <1>1, SameGiven, SameFile DEF KeyInv, KeyTypeOK, KeysAreGenuine
<1>3. /\ incoming' \in Incoming /\ incoming'.saved = incoming.saved
      /\ incoming'.data = incoming.data
      /\ incoming'.count = incoming.count /\ incoming'.row = "failed"
  BY <1>1 DEF ReceiverInv, Incoming, Failed
<1>4. ReceiverInv'
  <2>1. Whole(incoming)'
    BY <1>3 DEF Whole
  <2>2. (faults["crash"] = 0 => Exact(incoming))'
    BY <1>1, <1>2, <1>3 DEF ReceiverInv, Exact
  <2> QED BY <1>2, <1>3, <2>1, <2>2 DEF ReceiverInv
<1>5. SenderInv'
  BY <1>1, <1>2 DEF SenderInv
<1>6. AckedInv' /\ Origin'
  BY <1>1, <1>2, <1>3 DEF AckedInv, Origin
<1> QED BY <1>2, <1>4, <1>5, <1>6

\* Key packets, routes and losses.
LEMMA EnvironmentStep ==
  ASSUME IInv, NEW p \in Peer, NEW q \in Peer,
         HandleKex(p, q) \/ Repair(p, q) \/ Outage(p, q) \/ Restart(p) \/ Lose
  PROVE  IInv'
<1> USE DEF IInv
<1>1. CASE HandleKex(p, q)
  <2>1. PICK k \in kex : HandleKeyExchange(k)
    BY <1>1 DEF HandleKex, DeliverKex
  <2>2. KeyInv'
    BY <2>1, HandleStep
  <2> QED BY <1>1, <2>2, SameGiven, OutsideStep DEF HandleKex, fileVars, senderVars
<1>2. CASE Repair(p, q)
  <2>1. KeyInv'
    BY <1>2, OtherSteps DEF Repair
  <2> QED BY <1>2, <2>1, SameGiven, OutsideStep DEF Repair, fileVars, senderVars
<1>3. CASE Outage(p, q)
  <2>1. KeyInv'
    BY <1>3, OtherSteps DEF Outage
  <2>2. UNCHANGED fileVars /\ Happens("outage") /\ "outage" \in Fault
    BY <1>3 DEF Outage, Fault
  <2>3. UNCHANGED <<size, incoming, rows, delivered, tries, transfer, sending, round, chunks, acks>>
    BY <2>2 DEF fileVars, senderVars
  <2>4. Given' /\ (faults'["crash"] = 0 => faults["crash"] = 0)
    BY <2>2, <2>3, HappensGiven
  <2> QED BY <2>1, <2>3, <2>4, OutsideStep
<1>4. CASE Restart(p)
  <2>1. KeyInv'
    BY <1>4, OtherSteps, RegenerateStep DEF Restart
  <2>2. /\ UNCHANGED <<size, incoming, rows, delivered, tries, transfer, chunks, acks>>
        /\ sending' \subseteq sending /\ round' \subseteq round
        /\ Happens("restart") /\ "restart" \in Fault
    BY <1>4 DEF Restart, Forget, Fault
  <2>3. Given' /\ (faults'["crash"] = 0 => faults["crash"] = 0)
    BY <2>2, HappensGiven
  <2> QED BY <2>1, <2>2, <2>3, OutsideStep
<1>5. CASE Lose
  <2>1. /\ UNCHANGED <<key, owner, peers, verified, shown, routes>> /\ kex' \subseteq kex
        /\ UNCHANGED <<size, incoming, rows, delivered, tries, transfer, sending, round>>
        /\ chunks' \subseteq chunks /\ acks' \subseteq acks
        /\ Happens("loss") /\ "loss" \in Fault
    BY <1>5 DEF Lose, Fault, cryptoVars, senderVars
  <2>2. KeyInv'
    BY <2>1 DEF KeyInv, KeyTypeOK, KeysAreGenuine
  <2>3. Given' /\ (faults'["crash"] = 0 => faults["crash"] = 0)
    BY <2>1, HappensGiven
  <2> QED BY <2>1, <2>2, <2>3, OutsideStep
<1> QED BY <1>1, <1>2, <1>3, <1>4, <1>5

\* What every crash leaves.
LEMMA CrashLeaves ==
  ASSUME IInv, NEW p \in Peer, Crash(p)
  PROVE  /\ KeyInv' /\ Given' /\ faults'["crash"] # 0
         /\ UNCHANGED <<size, tries>> /\ sending' \subseteq sending /\ round' \subseteq round
<1>1. UNCHANGED <<size, tries>> /\ sending' \subseteq sending /\ round' \subseteq round
  BY DEF Crash, Forget
<1>2. Given' /\ faults'["crash"] # 0
  BY <1>1, HappensGiven DEF Crash, Fault, IInv
<1>3. routes' = [routes EXCEPT ![p] = {}] /\ UNCHANGED <<key, owner, peers, verified, shown, kex>>
  BY DEF Crash, cryptoVars
<1>4. KeyInv'
  BY <1>3 DEF IInv, KeyInv, KeyTypeOK, KeysAreGenuine
<1> QED BY <1>1, <1>2, <1>4

\* The sender crashes between two of its writes.
LEMMA CrashSenderStep ==
  ASSUME IInv, CrashSending \/ CrashMarking
  PROVE  IInv'
<1> USE DEF IInv
<1>1. /\ KeyInv' /\ Given' /\ faults'["crash"] # 0
      /\ UNCHANGED <<size, tries>> /\ sending' \subseteq sending /\ round' \subseteq round
  BY CrashLeaves, FileAssumption DEF CrashSending, CrashMarking
<1>2. UNCHANGED <<incoming, rows, chunks>> /\ acks' \subseteq acks
  BY DEF CrashSending, CrashMarking
<1>3. ReceiverInv' /\ Chunk' = Chunk
  BY <1>1, <1>2, ReceiverIdle, SameFile
<1>4. /\ delivered' \subseteq rows /\ delivered' \subseteq delivered \cup acks
      /\ \/ transfer = "none" /\ transfer' = "pending"
         \/ UNCHANGED transfer
  BY DEF CrashSending, CrashMarking, SenderInv
<1>5. SenderInv'
  BY <1>1, <1>2, <1>3, <1>4 DEF SenderInv
<1>6. AckedInv' /\ Origin'
  BY <1>1, <1>2, <1>3, <1>4 DEF AckedInv, Origin
<1> QED BY <1>1, <1>3, <1>5, <1>6

\* The recipient does.
LEMMA CrashSavingStep ==
  ASSUME IInv, CrashSaving
  PROVE  IInv'
<1> USE DEF IInv
<1>1. /\ KeyInv' /\ Given' /\ faults'["crash"] # 0
      /\ UNCHANGED <<size, tries>> /\ sending' \subseteq sending /\ round' \subseteq round
  BY CrashLeaves, FileAssumption DEF CrashSaving
<1>2. PICK s \in chunks : /\ s.index \notin incoming.saved /\ chunks' = chunks \ {s}
                          /\ incoming' \in WrittenInPart(incoming, s.index)
  BY DEF CrashSaving
<1>3. UNCHANGED <<transfer, rows, delivered, acks>>
  BY DEF CrashSaving
<1>4. s.index \in Chunk /\ size \in Nat /\ transfer # "none"
  BY DEF AckedInv, Given, Origin
<1>5. /\ incoming' \in Incoming /\ incoming'.saved = incoming.saved \cup {s.index}
      /\ incoming'.count <= Cardinality(incoming'.saved)
      /\ incoming'.row = "completed" => incoming'.saved = Chunk /\ incoming'.complete = Content
  BY <1>2, <1>4, PartFields DEF ReceiverInv, Whole
<1>6. Chunk' = Chunk /\ Content' = Content /\ Incoming' = Incoming
  BY <1>1, SameFile
<1>7. ReceiverInv'
  BY <1>1, <1>4, <1>5, <1>6 DEF ReceiverInv, Whole
<1>8. SenderInv'
  BY <1>1, <1>3, <1>6 DEF SenderInv
<1>9. AckedInv' /\ Origin'
  BY <1>2, <1>3, <1>4, <1>5, <1>6 DEF AckedInv, Origin, ReceiverInv
<1> QED BY <1>1, <1>7, <1>8, <1>9

\* The initial state satisfies the invariant.
LEMMA InitIInv == Init => IInv
<1> SUFFICES ASSUME Init PROVE IInv
  OBVIOUS
<1>1. key \in {k \in [Peer -> Key] : IsInjective(k)}
  BY FileAssumption DEF Init
<1>2. /\ DOMAIN owner \subseteq Key /\ owner \in [DOMAIN owner -> Peer]
      /\ \A p \in Peer : key[p] \in DOMAIN owner /\ owner[key[p]] = p
  BY <1>1, InitialKeys DEF Init
<1>3. /\ DOMAIN peers = Peer
      /\ \A p \in Peer : /\ DOMAIN peers[p] \subseteq Peer
                         /\ \A q \in DOMAIN peers[p] : peers[p][q] = key[q]
                         /\ peers[p] \in [DOMAIN peers[p] -> Key]
  BY <1>1 DEF Init
<1>4. KeyInv
  <2>1. /\ key \in [Peer -> Key] /\ verified = [p \in Peer |-> {}]
        /\ shown \in [Peer -> [Peer -> SUBSET Key]]
        /\ routes \in [Peer -> SUBSET Peer] /\ kex = {}
    BY <1>1 DEF Init
  <2>2. KeyTypeOK
    BY <1>2, <1>3, <2>1 DEF KeyTypeOK
  <2>3. KeysAreGenuine
    BY <1>2, <1>3, <2>1 DEF KeysAreGenuine
  <2> QED BY <2>2, <2>3 DEF KeyInv
<1>5. Given /\ Chunk # {} /\ Cardinality({}) = 0
  <2>1. Given
    BY FileAssumption DEF Init, Given, World
  <2> QED BY <2>1, ChunkCount, FS_EmptySet DEF Given
<1>6. SenderInv /\ AckedInv /\ Origin
  BY FileAssumption DEF Init, SenderInv, AckedInv, Origin
<1>7. incoming \in Incoming /\ incoming.saved = {} /\ incoming.count = 0 /\ incoming.row = "none"
  BY DEF Init, Incoming
<1>8. ReceiverInv
  BY <1>5, <1>7 DEF ReceiverInv, Whole, Exact
<1> QED BY <1>4, <1>5, <1>6, <1>8 DEF IInv

\* Every step preserves it.
LEMMA Step == IInv /\ [Next]_vars => IInv'
<1> SUFFICES ASSUME IInv, [Next]_vars PROVE IInv'
  OBVIOUS
<1>1. ASSUME NEW c \in Chunk, HandleFileAck(c) \/ HandleFileChunk(c) PROVE IInv'
  BY <1>1, AckStep, AcceptStep, RejectStep DEF HandleFileChunk
<1>2. ASSUME NEW p \in Peer, NEW q \in Peer, HandleKex(p, q) \/ Outage(p, q) \/ Repair(p, q)
      PROVE  IInv'
  BY <1>2, EnvironmentStep
<1>3. ASSUME NEW p \in Peer, Restart(p) PROVE IInv'
  BY <1>3, EnvironmentStep
<1>4. CASE Lose
  BY <1>4, EnvironmentStep, FileAssumption
<1>5. CASE UNCHANGED vars
  <2>1. KeyInv'
    BY <1>5, OtherSteps, FileAssumption DEF vars, IInv
  <2>2. UNCHANGED <<size, incoming, rows, delivered, tries, transfer, sending, round, chunks, acks,
                    faults, world>>
    BY <1>5 DEF vars, fileVars, senderVars
  <2> QED BY <2>1, <2>2, SameGiven, OutsideStep DEF IInv
<1> QED
  BY <1>1, <1>2, <1>3, <1>4, <1>5, SendFileStep, TransmitStep, RoundStep, ExpireStep,
     CrashSenderStep, CrashSavingStep
  DEF Next

---------------------------------------------------------------------------
(* Theorems                                                              *)

\* The invariant holds in every behaviour.
THEOREM Invariant == Spec => []IInv
  BY InitIInv, Step, PTL DEF Spec

\* Rows, chunks, packets and the recipient's directory stay well typed; no
\* retry goes beyond the limit and no chunk is counted that is not there.
THEOREM FileTypeCorrect == Spec => []FileTypeOK
<1>1. IInv => FileTypeOK
  <2> SUFFICES ASSUME IInv PROVE FileTypeOK
    OBVIOUS
  <2> QED
    BY DEF IInv, KeyInv, Given, SenderInv, AckedInv, ReceiverInv, FileTypeOK
<1> QED BY <1>1, Invariant, PTL

\* Without a crash inside a handler, a transfer is completed for its sender
\* only when the recipient has assembled the file that was sent.
THEOREM CompletedReceived == Spec => []CompletedIsReceived
<1>1. IInv => CompletedIsReceived
  BY DEF IInv, AckedInv, ReceiverInv, Whole, Exact, CompletedIsReceived
<1> QED BY <1>1, Invariant, PTL

\* Whatever crashes, a file that can be downloaded is the one that was sent.
THEOREM DownloadsWhole == Spec => []DownloadIsWhole
<1>1. IInv => DownloadIsWhole
  BY DEF IInv, ReceiverInv, Whole, DownloadIsWhole
<1> QED BY <1>1, Invariant, PTL

\* What CompletedIsFinal says of one step.
Final ==
  /\ transfer = "completed" => transfer' = "completed"
  /\ incoming.row = "completed" => incoming' = incoming

\* A transfer once completed stays so on both sides.
THEOREM CompletedFinal == Spec => CompletedIsFinal
<1>1. IInv /\ [Next]_vars => [Final]_vars
  <2> SUFFICES ASSUME IInv, Next PROVE Final
    OBVIOUS
  <2> USE DEF Final
  <2>1. CASE SendFile \/ SendChunk \/ StartResending \/ ResendChunk \/ ExpireOutgoing
    BY <2>1 DEF SendFile, SendChunk, StartResending, ResendChunk, ExpireOutgoing
  <2>2. CASE ExpireIncoming
    BY <2>2 DEF ExpireIncoming, senderVars
  <2>3. ASSUME NEW c \in Chunk, HandleFileAck(c) PROVE Final
    BY <2>3 DEF HandleFileAck
  <2>4. ASSUME NEW s \in chunks, AcceptChunk(s) PROVE Final
    <3>1. incoming.row = "completed" => s.index \in incoming.saved
      BY DEF IInv, ReceiverInv, Whole, AckedInv
    <3> QED BY <2>4, <3>1 DEF AcceptChunk, senderVars, Saved
  <2>5. ASSUME NEW s \in chunks, RejectChunk(s) PROVE Final
    BY <2>5 DEF RejectChunk, senderVars
  <2>6. ASSUME NEW p \in Peer, NEW q \in Peer, HandleKex(p, q) \/ Outage(p, q) \/ Repair(p, q)
        PROVE  Final
    BY <2>6 DEF HandleKex, Outage, Repair, fileVars, senderVars
  <2>7. ASSUME NEW p \in Peer, Restart(p) PROVE Final
    BY <2>7 DEF Restart
  <2>8. CASE Lose
    BY <2>8 DEF Lose, senderVars
  <2>9. CASE CrashSending \/ CrashMarking
    BY <2>9 DEF CrashSending, CrashMarking
  <2>10. CASE CrashSaving
    <3>1. incoming.row # "completed"
      BY <2>10 DEF CrashSaving, IInv, ReceiverInv, Whole, AckedInv
    <3> QED BY <2>10, <3>1 DEF CrashSaving
  <2> QED
    BY <2>1, <2>2, <2>3, <2>4, <2>5, <2>6, <2>7, <2>8, <2>9, <2>10 DEF Next, HandleFileChunk
<1> QED BY <1>1, Invariant, PTL DEF Spec, CompletedIsFinal, Final

\* Every step is one of FileService or leaves it unchanged.
LEMMA Simulation == IInv /\ [Next]_vars => [Service!Next]_(Service!vars)
<1> SUFFICES ASSUME IInv, [Next]_vars PROVE [Service!Next]_(Service!vars)
  OBVIOUS
<1> DEFINE missing == Chunk \ incoming.saved
<1> DEFINE outcome == CASE transfer = "none" -> "unsent"
                        [] transfer = "pending" -> "open"
                        [] transfer = "completed" -> "completed"
                        [] transfer = "failed" -> "failed"
<1> USE DEF IInv
<1>0. transfer \in {"none", "pending", "completed", "failed"}
  BY DEF SenderInv
<1>1. ASSUME UNCHANGED <<size, transfer>>, incoming'.saved = incoming.saved
      PROVE  [Service!Next]_(Service!vars)
  BY <1>1, SameFile DEF Service!vars
<1>2. ASSUME UNCHANGED <<size, transfer>>, transfer # "none", NEW c \in Chunk,
             incoming'.saved = incoming.saved \cup {c}, c \notin incoming.saved
      PROVE  [Service!Next]_(Service!vars)
  <2>1. missing' = missing \ {c} /\ c \in missing /\ outcome' = outcome /\ outcome # "unsent"
    BY <1>0, <1>2, SameFile
  <2> QED BY <2>1 DEF Service!Next, Service!Receive
<1>3. ASSUME UNCHANGED <<size, incoming>>, transfer = "none", transfer' = "pending"
      PROVE  [Service!Next]_(Service!vars)
  BY <1>3, SameFile DEF Service!Next, Service!Send
<1>4. ASSUME UNCHANGED <<size, incoming>>, transfer = "pending", transfer' = "failed"
      PROVE  [Service!Next]_(Service!vars)
  BY <1>4, SameFile DEF Service!Next, Service!Fail
<1>5. ASSUME UNCHANGED <<size, incoming>>, transfer \in {"pending", "failed"},
             transfer' = "completed", incoming.saved = Chunk
      PROVE  [Service!Next]_(Service!vars)
  BY <1>5, SameFile DEF Service!Next, Service!Complete
<1>6. CASE SendFile
  BY <1>3, <1>6 DEF SendFile
<1>7. CASE SendChunk \/ ResendChunk
  BY <1>1, <1>7 DEF SendChunk, ResendChunk
<1>8. CASE StartResending \/ ExpireOutgoing
  BY <1>1, <1>4, <1>8 DEF StartResending, ExpireOutgoing
<1>9. ASSUME NEW c \in Chunk, HandleFileAck(c) PROVE [Service!Next]_(Service!vars)
  <2>1. UNCHANGED <<size, incoming>> /\ transfer # "none" /\ transfer' \in {transfer, "completed"}
    BY <1>9 DEF HandleFileAck, Origin
  <2>2. IInv'
    BY <1>9, AckStep
  <2>3. transfer' = "completed" => incoming.saved = Chunk
    BY <2>1, <2>2, SameFile DEF AckedInv
  <2> QED BY <1>0, <1>1, <1>5, <2>1, <2>3
<1>10. ASSUME NEW s \in chunks, AcceptChunk(s) PROVE [Service!Next]_(Service!vars)
  <2>1. s.index \in Chunk /\ transfer # "none" /\ size \in Nat
    BY DEF AckedInv, Origin, Given
  <2>2. UNCHANGED <<size, transfer>> /\ incoming' = Saved(incoming, s.index)
    BY <1>10 DEF AcceptChunk, senderVars
  <2>3. CASE s.index \in incoming.saved
    BY <1>1, <2>2, <2>3 DEF Saved
  <2>4. CASE s.index \notin incoming.saved
    <3>1. incoming \in Incoming /\ incoming.saved \subseteq Chunk
      BY DEF ReceiverInv
    <3> DEFINE c == s.index
    <3>2. c \in Chunk /\ c \notin incoming.saved /\ size \in Nat /\ incoming' = Saved(incoming, c)
      BY <2>1, <2>2, <2>4
    <3> HIDE DEF c
    <3>3. incoming'.saved = incoming.saved \cup {c}
      BY <3>1, <3>2, SavedFields
    <3> QED BY <1>2, <2>1, <2>2, <3>2, <3>3
  <2> QED BY <2>3, <2>4
<1>11. ASSUME NEW s \in chunks, RejectChunk(s) PROVE [Service!Next]_(Service!vars)
  BY <1>1, <1>11 DEF RejectChunk, senderVars
<1>12. CASE ExpireIncoming
  BY <1>1, <1>12 DEF ExpireIncoming, senderVars, Failed, ReceiverInv, Incoming
<1>13. ASSUME NEW p \in Peer, NEW q \in Peer, HandleKex(p, q) \/ Outage(p, q) \/ Repair(p, q)
       PROVE  [Service!Next]_(Service!vars)
  BY <1>1, <1>13 DEF HandleKex, Outage, Repair, fileVars, senderVars
<1>14. ASSUME NEW p \in Peer, Restart(p) PROVE [Service!Next]_(Service!vars)
  BY <1>1, <1>14 DEF Restart
<1>15. CASE Lose
  BY <1>1, <1>15 DEF Lose, senderVars
<1>16. CASE CrashSending
  BY <1>3, <1>16 DEF CrashSending, Crash
<1>17. CASE CrashMarking
  BY <1>1, <1>17 DEF CrashMarking, Crash
<1>18. CASE CrashSaving
  <2>1. PICK s \in chunks : /\ s.index \notin incoming.saved
                            /\ incoming' \in WrittenInPart(incoming, s.index)
    BY <1>18 DEF CrashSaving
  <2>2. s.index \in Chunk /\ transfer # "none" /\ size \in Nat
    BY DEF AckedInv, Origin, Given
  <2>3. UNCHANGED <<size, transfer>>
    BY <1>18 DEF CrashSaving, Crash
  <2>4. incoming'.saved = incoming.saved \cup {s.index}
    BY <2>1, <2>2, PartFields DEF ReceiverInv
  <2> QED BY <1>2, <2>1, <2>2, <2>3, <2>4
<1>19. CASE UNCHANGED vars
  BY <1>1, <1>19 DEF vars, fileVars, senderVars
<1> QED
  BY <1>6, <1>7, <1>8, <1>9, <1>10, <1>11, <1>12, <1>13, <1>14, <1>15, <1>16, <1>17, <1>18, <1>19
  DEF Next, HandleFileChunk

\* FileTransfer implements FileService for every instance: what the sender
\* is told follows from what the recipient holds.
THEOREM Refinement == Spec => ImplementsService
<1>1. Init => Service!Init
  <2> SUFFICES ASSUME Init PROVE Service!Init
    OBVIOUS
  <2>1. Chunk \subseteq Nat /\ Chunk # {}
    BY ChunkCount, FileAssumption DEF Init
  <2>2. incoming.saved = {} /\ transfer = "none"
    BY DEF Init
  <2> QED BY <2>1, <2>2 DEF Service!Init
<1> QED BY <1>1, Simulation, Invariant, PTL DEF Spec, ImplementsService, Service!Spec

===========================================================================
