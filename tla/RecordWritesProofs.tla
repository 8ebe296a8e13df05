------------------------- MODULE RecordWritesProofs -------------------------
(***************************************************************************)
(* Proofs about RecordWrites for any documents, payloads, writers, batch   *)
(* size, cap and number of dumps and faults.                               *)
(*                                                                         *)
(* BaseInv holds in every behaviour.  LoadInv holds while each dump is     *)
(* settled before the next one starts: then all that is queued, written    *)
(* or purged belongs to one dump, and in batch mode the writer, or the     *)
(* purge, is alone with the table.                                         *)
(***************************************************************************)
EXTENDS RecordWritesInv, OrderLemmas, SequenceTheorems

USE PayloadsAssumption, DocsAssumption, BoundsAssumption

-----------------------------------------------------------------------------
(* Operators                                                               *)

Data ==
    /\ dumps \in Seq([Docs -> Contents]) /\ Len(dumps) <= MaxDumps
    /\ queue \in Seq(Message)
    /\ row \in [Docs -> [hash : Contents, stamp : 0..MaxDumps]]
    /\ edges \subseteq Edges
    /\ tx \in [Writers -> TxRecords] /\ purge \in PurgeRecords /\ batchMode \in BOOLEAN
    /\ faults \in 0..MaxFaults

Locks(t) ==
    /\ t.pc \in {"idle", "begin", "settle"} => t.touched = {} /\ t.wrote = {} /\ t.del = {}
    /\ (t.touched \cup t.wrote) \cap purge.gone = {}

Sound(t) ==
    /\ \A i \in DOMAIN t.batch : t.batch[i].doc # Marker /\ Sent(t.batch[i])
    /\ t.touched \cup t.wrote \subseteq BatchDocs(t)
    /\ t.stamp <= Len(dumps)

Parts ==
    /\ Data /\ \A w \in Writers : Locks(tx[w]) /\ Sound(tx[w])
    /\ \A i \in DOMAIN queue : Sent(queue[i])
    /\ purge.dump <= Len(dumps)

LEMMA BaseParts == (BaseInv <=> Parts) /\ (BaseInv' <=> Parts')
<1>1. BaseInv <=> Parts
  BY DEF BaseInv, Parts, TypeOK, Data, Locks, Sound, WritersAreSound, RowLocksAreExclusive, InBatch, BatchDocs,
         Contents, TxRecords, PurgeRecords
<1>2. BaseInv' <=> Parts'
  BY DEF BaseInv, Parts, TypeOK, Data, Locks, Sound, WritersAreSound, RowLocksAreExclusive, InBatch, BatchDocs,
         Contents, TxRecords, PurgeRecords
<1> QED
  BY <1>1, <1>2

\* The idle records.
LEMMA IdleTypes == Idle \in TxRecords /\ NoPurge \in PurgeRecords
<1>1. Cardinality(Docs) \in Nat
  BY FS_CardinalityType
<1> QED
  BY <1>1 DEF Idle, NoPurge, TxRecords, PurgeRecords, TxStates, PurgeStates, Contents

\* A message of a batch is one of a dump and of a document.
LEMMA MessageParts == \A m \in Message : m.dump \in 1..MaxDumps /\ m.doc \in Docs \cup {Marker}
  BY DEF Message

\* The delivery that decides what is written for a document of the batch.
LEMMA LastDelivery ==
    ASSUME Data, NEW w \in Writers, NEW d \in InBatch(w)
    PROVE  \E i \in DOMAIN tx[w].batch : tx[w].batch[i].doc = d /\ Incoming(w, d) = Content(tx[w].batch[i])
<1> DEFINE b == tx[w].batch
           At == {i \in DOMAIN b : b[i].doc = d}
<1>1. b \in Seq(Message)
  BY DEF Data, TxRecords
<1>2. At \in SUBSET Nat /\ At # {} /\ At \in SUBSET (1..Len(b)) /\ Len(b) \in Nat
  BY <1>1 DEF InBatch
<1>3. IsFiniteSet(At)
  <2> HIDE DEF At, b
  <2>1. IsFiniteSet(1..Len(b))
    <3>1. 1 \in Int /\ Len(b) \in Int
      BY <1>2
    <3> QED
      BY <3>1, FS_Interval
  <2> QED
    BY <1>2, <2>1, FS_Subset
<1>4. PICK u \in At : \A x \in At : x <= u
  BY <1>2, <1>3, GreatestExists
<1> DEFINE last == CHOOSE i \in DOMAIN b : b[i].doc = d /\ \A j \in DOMAIN b : b[j].doc = d => j <= i
<1>5. last \in DOMAIN b /\ b[last].doc = d
  BY <1>4
<1>6. Incoming(w, d) = Content(b[last])
  BY DEF Incoming
<1> QED
  BY <1>5, <1>6

LEMMA IncomingType ==
    ASSUME BaseInv, NEW w \in Writers, NEW d \in InBatch(w)
    PROVE  d \in Docs /\ Incoming(w, d) \in Payloads
<1>1. Data /\ Sound(tx[w])
  BY BaseParts DEF Parts
<1>2. PICK i \in DOMAIN tx[w].batch : tx[w].batch[i].doc = d /\ Incoming(w, d) = Content(tx[w].batch[i])
  BY <1>1, LastDelivery
<1>3. tx[w].batch \in Seq(Message)
  BY <1>1 DEF Data, TxRecords
<1>4. tx[w].batch[i] \in Message
  BY <1>2, <1>3
<1> QED
  BY <1>1, <1>2, <1>4, MessageParts DEF Sound, Sent

\* What a document asserts is made of edges of its own.
LEMMA AssertedType ==
    ASSUME NEW d \in Docs, NEW p \in Payloads
    PROVE  /\ Asserted(d, p) \subseteq Edges
           /\ \A e : e \in Asserted(d, p) <=> \E r \in Replaced(p) \cup {"additive"} : e = <<r, d, p>>
  BY DEF Asserted, Edges, Relations, Replaced

-----------------------------------------------------------------------------
(* Steps of one transaction, or of the purge                               *)

LEMMA WriterMoves ==
    ASSUME BaseInv, NEW w \in Writers, NEW t \in TxRecords, tx' = [tx EXCEPT ![w] = t],
           UNCHANGED <<dumps, purge, batchMode>>, Locks(t), Sound(t),
           queue' \in Seq(Message), \A i \in DOMAIN queue' : Sent(queue'[i]),
           row' \in [Docs -> [hash : Contents, stamp : 0..MaxDumps]], edges' \subseteq Edges,
           faults' \in 0..MaxFaults
    PROVE  BaseInv'
<1>1. Data /\ \A x \in Writers : Locks(tx[x]) /\ Sound(tx[x])
  BY BaseParts DEF Parts
<1>2. Data'
  BY <1>1 DEF Data
<1>3. \A x \in Writers : tx'[x] = IF x = w THEN t ELSE tx[x]
  BY <1>1 DEF Data
<1>4. \A x \in Writers : Locks(tx[x])' /\ Sound(tx[x])'
  BY <1>1, <1>3 DEF Locks, Sound, Sent, Content, BatchDocs
<1>5. \A i \in DOMAIN queue' : Sent(queue[i])'
  BY DEF Sent, Content
<1>6. purge'.dump <= Len(dumps')
  BY BaseParts DEF Parts
<1> QED
  BY <1>2, <1>4, <1>5, <1>6, BaseParts DEF Parts

LEMMA PurgeMoves ==
    ASSUME BaseInv, NEW p \in PurgeRecords, purge' = p, UNCHANGED <<dumps, tx, batchMode>>,
           p.dump <= Len(dumps), \A w \in Writers : (tx[w].touched \cup tx[w].wrote) \cap p.gone = {},
           queue' \in Seq(Message), \A i \in DOMAIN queue' : Sent(queue'[i]),
           row' \in [Docs -> [hash : Contents, stamp : 0..MaxDumps]], edges' \subseteq Edges,
           faults' \in 0..MaxFaults
    PROVE  BaseInv'
<1>1. Data /\ \A x \in Writers : Locks(tx[x]) /\ Sound(tx[x])
  BY BaseParts DEF Parts
<1>2. Data'
  BY <1>1 DEF Data
<1>4. \A x \in Writers : Locks(tx[x])' /\ Sound(tx[x])'
  BY <1>1 DEF Locks, Sound, Sent, Content, BatchDocs
<1>5. \A i \in DOMAIN queue' : Sent(queue[i])'
  BY DEF Sent, Content
<1> QED
  BY <1>2, <1>4, <1>5, BaseParts DEF Parts

\* A transaction moves on and remembers what its statement did.
LEMMA StepFields ==
    ASSUME NEW c \in TxRecords, NEW q \in TxStates
    PROVE  LET t == [c EXCEPT !.pc = q] IN
           /\ t \in TxRecords /\ t.pc = q /\ t.batch = c.batch /\ t.stamp = c.stamp /\ t.prior = c.prior
           /\ t.touched = c.touched /\ t.wrote = c.wrote /\ t.del = c.del
  BY DEF TxRecords

\* A rolled back, committed or settled transaction keeps its batch only.
LEMMA RestartFields ==
    ASSUME NEW b \in Seq(Message), NEW q \in TxStates
    PROVE  LET t == [Idle EXCEPT !.pc = q, !.batch = b] IN
           /\ t \in TxRecords /\ t.pc = q /\ t.batch = b /\ t.stamp = 0
           /\ t.touched = {} /\ t.wrote = {} /\ t.del = {}
  BY IdleTypes DEF TxRecords, Idle

\* What a writer has in hand, and where its next state comes from.
LEMMA WriterParts ==
    ASSUME BaseInv, NEW w \in Writers
    PROVE  /\ tx[w] \in TxRecords /\ tx[w].batch \in Seq(Message) /\ Locks(tx[w]) /\ Sound(tx[w])
           /\ InBatch(w) = BatchDocs(tx[w]) /\ InBatch(w) \subseteq Docs
<1>1. tx[w] \in TxRecords /\ Locks(tx[w]) /\ Sound(tx[w])
  BY BaseParts DEF Parts, Data
<1>2. tx[w].batch \in Seq(Message)
  BY <1>1 DEF TxRecords
<1>3. InBatch(w) = BatchDocs(tx[w])
  BY DEF InBatch, BatchDocs
<1>4. \A i \in DOMAIN tx[w].batch : tx[w].batch[i].doc \in Docs
  BY <1>1, <1>2, MessageParts DEF Sound
<1> QED
  BY <1>1, <1>2, <1>3, <1>4 DEF InBatch

\* The upsert of a batch, or of a single record.
LEMMA UpsertedInBatch == \A w \in Writers : Upserted(w) \subseteq InBatch(w) /\ Changed(w) \subseteq InBatch(w)
  BY DEF Upserted, Changed

\* Every step of a transaction keeps BaseInv.
LEMMA WriteBase ==
    ASSUME BaseInv, NEW w \in Writers, Write(w) \/ WriteFails(w) \/ Redelivered(w)
    PROVE  BaseInv'
<1>0. /\ Data /\ tx[w] \in TxRecords /\ tx[w].batch \in Seq(Message) /\ Locks(tx[w]) /\ Sound(tx[w])
      /\ InBatch(w) = BatchDocs(tx[w]) /\ InBatch(w) \subseteq Docs
      /\ queue \in Seq(Message) /\ \A i \in DOMAIN queue : Sent(queue[i])
  BY WriterParts, BaseParts DEF Parts, Data
<1>1. ASSUME NEW c \in TxRecords, NEW q \in TxStates, Step(w, q, c), c.batch = tx[w].batch, c.stamp <= Len(dumps),
             q \notin {"idle", "begin", "settle"}, c.touched \cup c.wrote \subseteq InBatch(w),
             (c.touched \cup c.wrote) \cap purge.gone = {},
             UNCHANGED <<dumps, queue, row, edges, purge, batchMode, faults>>
      PROVE  BaseInv'
  <2> DEFINE t == [c EXCEPT !.pc = q]
  <2>1. t \in TxRecords /\ tx' = [tx EXCEPT ![w] = t]
    BY <1>1, StepFields DEF Step
  <2>2. Locks(t) /\ Sound(t)
    BY <1>0, <1>1, StepFields, SMTT(30) DEF Locks, Sound, BatchDocs
  <2> HIDE DEF t
  <2> QED
    BY <1>0, <1>1, <2>1, <2>2, WriterMoves DEF Data
<1>2. ASSUME NEW q \in {"begin", "settle"}, tx' = [tx EXCEPT ![w] = [Idle EXCEPT !.pc = q, !.batch = tx[w].batch]],
             UNCHANGED <<dumps, queue, purge, batchMode>>, faults' \in 0..MaxFaults,
             row' \in [Docs -> [hash : Contents, stamp : 0..MaxDumps]], edges' \subseteq Edges
      PROVE  BaseInv'
  <2> DEFINE t == [Idle EXCEPT !.pc = q, !.batch = tx[w].batch]
  <2>1. t \in TxRecords /\ tx' = [tx EXCEPT ![w] = t]
    BY <1>0, <1>2, RestartFields DEF TxStates
  <2>2. Locks(t) /\ Sound(t)
    <3>1. t.batch = tx[w].batch /\ t.stamp = 0 /\ t.touched = {} /\ t.wrote = {} /\ t.del = {}
      BY DEF Idle
    <3>2. Len(dumps) \in Nat
      BY <1>0 DEF Data
    <3> HIDE DEF t
    <3> QED
      BY <1>0, <3>1, <3>2 DEF Locks, Sound, BatchDocs
  <2> HIDE DEF t
  <2> QED
    BY <1>0, <1>2, <2>1, <2>2, WriterMoves DEF Data
<1>3. ASSUME Read(w) PROVE BaseInv'
  <2> DEFINE c == [tx[w] EXCEPT !.stamp = Len(dumps), !.prior = [d \in Docs |-> row[d].hash]]
  <2>1. Len(dumps) \in 0..MaxDumps /\ [d \in Docs |-> row[d].hash] \in [Docs -> Contents]
    BY <1>0 DEF Data
  <2>2. /\ c \in TxRecords /\ c.batch = tx[w].batch /\ c.stamp = Len(dumps)
        /\ c.touched = tx[w].touched /\ c.wrote = tx[w].wrote
    BY <1>0, <2>1 DEF TxRecords
  <2>3. tx[w].touched = {} /\ tx[w].wrote = {}
    BY <1>0, <1>3 DEF Read, Locks
  <2>4. Step(w, IF batchMode THEN "refresh" ELSE "upsert", c)
    BY <1>3 DEF Read
  <2>5. UNCHANGED <<dumps, queue, row, edges, purge, batchMode, faults>>
    BY <1>3 DEF Read
  <2> HIDE DEF c
  <2> QED
    BY <1>1, <2>1, <2>2, <2>3, <2>4, <2>5 DEF TxStates
<1>4. ASSUME Refresh(w) PROVE BaseInv'
  <2> DEFINE s == (InBatch(w) \ Changed(w)) \cap Present
             c == [tx[w] EXCEPT !.touched = s]
  <2>1. s \subseteq Docs /\ s \subseteq InBatch(w) /\ s \cap purge.gone = {}
    BY <1>0, <1>4 DEF Refresh, RowFree, Present
  <2>2. c \in TxRecords /\ c.batch = tx[w].batch /\ c.stamp = tx[w].stamp /\ c.touched = s /\ c.wrote = tx[w].wrote
    BY <1>0, <2>1 DEF TxRecords
  <2>3. Step(w, "upsert", c) /\ UNCHANGED <<dumps, queue, row, edges, purge, batchMode, faults>>
    BY <1>4 DEF Refresh
  <2> HIDE DEF c
  <2> QED
    BY <1>0, <1>1, <2>1, <2>2, <2>3 DEF TxStates, Locks, Sound
<1>5. ASSUME Upsert(w) PROVE BaseInv'
  <2> DEFINE c == [tx[w] EXCEPT !.wrote = Upserted(w)]
  <2>1. Upserted(w) \subseteq Docs /\ Upserted(w) \subseteq InBatch(w) /\ Upserted(w) \cap purge.gone = {}
    BY <1>0, <1>5, UpsertedInBatch DEF Upsert, RowFree
  <2>2. c \in TxRecords /\ c.batch = tx[w].batch /\ c.stamp = tx[w].stamp /\ c.touched = tx[w].touched /\ c.wrote = Upserted(w)
    BY <1>0, <2>1 DEF TxRecords
  <2>3. Step(w, "unlink", c) /\ UNCHANGED <<dumps, queue, row, edges, purge, batchMode, faults>>
    BY <1>5 DEF Upsert
  <2> HIDE DEF c
  <2> QED
    BY <1>0, <1>1, <2>1, <2>2, <2>3 DEF TxStates, Locks, Sound
<1>6. ASSUME Unlink(w) PROVE BaseInv'
  <2> DEFINE c == [tx[w] EXCEPT !.del = Unlinked(w)]
  <2>1. Unlinked(w) \subseteq Edges
    BY <1>0 DEF Unlinked, Data
  <2>2. c \in TxRecords /\ c.batch = tx[w].batch /\ c.stamp = tx[w].stamp /\ c.touched = tx[w].touched /\ c.wrote = tx[w].wrote
    BY <1>0, <2>1 DEF TxRecords
  <2>3. Step(w, "link", c) /\ UNCHANGED <<dumps, queue, row, edges, purge, batchMode, faults>>
    BY <1>6 DEF Unlink
  <2> HIDE DEF c
  <2> QED
    BY <1>0, <1>1, <2>1, <2>2, <2>3 DEF TxStates, Locks, Sound
<1>7. ASSUME LinkAndCommit(w) PROVE BaseInv'
  <2>1. row' \in [Docs -> [hash : Contents, stamp : 0..MaxDumps]]
    <3>1. \A d \in tx[w].wrote : Incoming(w, d) \in Contents
      BY <1>0, IncomingType DEF Sound, Contents
    <3>2. tx[w].stamp \in 0..MaxDumps
      BY <1>0 DEF TxRecords
    <3>3. \A d \in Docs : row[d] \in [hash : Contents, stamp : 0..MaxDumps]
      BY <1>0 DEF Data
    <3> QED
      BY <1>7, <3>1, <3>2, <3>3 DEF LinkAndCommit
  <2>2. Linked(w) \subseteq Edges
    BY <1>0, IncomingType, AssertedType, UpsertedInBatch DEF Linked
  <2>3. edges' \subseteq Edges
    BY <1>0, <1>7, <2>2 DEF LinkAndCommit, Data
  <2>4. tx' = [tx EXCEPT ![w] = [Idle EXCEPT !.pc = "settle", !.batch = tx[w].batch]]
    BY <1>7 DEF LinkAndCommit, Step, Idle
  <2>5. UNCHANGED <<dumps, queue, purge, batchMode>> /\ faults' \in 0..MaxFaults
    BY <1>0, <1>7 DEF LinkAndCommit, Data
  <2> QED
    BY <1>2, <2>1, <2>3, <2>4, <2>5
<1>8. ASSUME Ack(w) PROVE BaseInv'
  <2>1. Locks(Idle) /\ Sound(Idle)
    <3>1. Len(dumps) \in Nat
      BY <1>0 DEF Data
    <3> QED
      BY <3>1 DEF Locks, Sound, Idle, BatchDocs
  <2> QED
    BY <1>0, <1>8, <2>1, IdleTypes, WriterMoves DEF Ack, Data
<1>9. ASSUME WriteFails(w) \/ Redelivered(w) PROVE BaseInv'
  <2>1. /\ UNCHANGED <<dumps, queue, row, edges, purge, batchMode>> /\ faults' \in 0..MaxFaults
        /\ tx' = [tx EXCEPT ![w] = [Idle EXCEPT !.pc = "begin", !.batch = tx[w].batch]]
    BY <1>0, <1>9 DEF WriteFails, Redelivered, Retried, Data
  <2> QED
    BY <1>0, <1>2, <2>1 DEF Data
<1> QED
  BY <1>3, <1>4, <1>5, <1>6, <1>7, <1>8, <1>9 DEF Write

\* A message of the queue, and of its front and its rest.
LEMMA QueueParts ==
    ASSUME NEW q \in Seq(Message), NEW n \in 1..Len(q)
    PROVE  /\ SubSeq(q, 1, n) \in Seq(Message) /\ Len(SubSeq(q, 1, n)) = n
           /\ \A i \in DOMAIN SubSeq(q, 1, n) : i \in DOMAIN q /\ i <= n /\ SubSeq(q, 1, n)[i] = q[i]
           /\ SubSeq(q, n + 1, Len(q)) \in Seq(Message) /\ Len(SubSeq(q, n + 1, Len(q))) = Len(q) - n
           /\ \A i \in DOMAIN SubSeq(q, n + 1, Len(q)) :
                 i + n \in DOMAIN q /\ SubSeq(q, n + 1, Len(q))[i] = q[i + n]
  OBVIOUS

LEMMA TakeBase == ASSUME BaseInv, NEW w \in Writers, Take(w) PROVE BaseInv'
<1>0. /\ Data /\ tx[w] \in TxRecords /\ Locks(tx[w]) /\ Sound(tx[w])
      /\ queue \in Seq(Message) /\ \A i \in DOMAIN queue : Sent(queue[i])
  BY WriterParts, BaseParts DEF Parts, Data
<1>1. PICK n \in 1..(IF batchMode THEN BatchSize ELSE 1) :
         /\ n <= Len(queue)
         /\ \A i \in 1..n : queue[i].doc # Marker
         /\ Step(w, "begin", [tx[w] EXCEPT !.batch = SubSeq(queue, 1, n)])
         /\ queue' = SubSeq(queue, n + 1, Len(queue))
  BY DEF Take
<1>2. n \in 1..Len(queue)
  BY <1>0, <1>1
<1> DEFINE b == SubSeq(queue, 1, n)
           c == [tx[w] EXCEPT !.batch = b]
           t == [c EXCEPT !.pc = "begin"]
<1>3. b \in Seq(Message) /\ \A i \in DOMAIN b : Sent(b[i]) /\ b[i].doc # Marker
  BY <1>0, <1>1, <1>2, QueueParts, SMTT(30)
<1>4. queue' \in Seq(Message) /\ \A i \in DOMAIN queue' : Sent(queue'[i])
  BY <1>0, <1>1, <1>2, QueueParts, SMTT(30)
<1>5. tx' = [tx EXCEPT ![w] = t]
  BY <1>1 DEF Step
<1> HIDE DEF b
<1>6. /\ t \in TxRecords /\ t.pc = "begin" /\ t.batch = b /\ t.stamp = tx[w].stamp
      /\ t.touched = tx[w].touched /\ t.wrote = tx[w].wrote /\ t.del = tx[w].del
  BY <1>0, <1>3 DEF TxRecords, TxStates
<1> HIDE DEF t, c
<1>7. Locks(t) /\ Sound(t)
  BY <1>0, <1>3, <1>6 DEF Locks, Sound, Take
<1>8. UNCHANGED <<dumps, row, edges, purge, batchMode, faults>>
  BY DEF Take
<1> QED
  BY <1>0, <1>4, <1>5, <1>6, <1>7, <1>8, WriterMoves DEF Data

\* The purge and the handler around it.
LEMMA PurgeBase ==
    ASSUME BaseInv,
           TakeMarker \/ Flush \/ CountRows \/ CountStale \/ SweepEdges \/ DeleteRows \/ PurgeCommits \/ PurgeFails
    PROVE  BaseInv'
<1>0. /\ Data /\ \A w \in Writers : Locks(tx[w])
      /\ queue \in Seq(Message) /\ \A i \in DOMAIN queue : Sent(queue[i])
      /\ purge \in PurgeRecords /\ purge.dump <= Len(dumps) /\ Len(dumps) \in Nat
  BY BaseParts DEF Parts, Data
<1>1. ASSUME NEW p \in PurgeRecords, purge' = p, UNCHANGED <<dumps, queue, row, edges, tx, batchMode, faults>>,
             p.dump <= Len(dumps), p.gone = purge.gone \/ p.gone = {}
      PROVE  BaseInv'
  BY <1>0, <1>1, PurgeMoves DEF Data, Locks
<1>2. NoPurge \in PurgeRecords /\ NoPurge.dump <= Len(dumps) /\ NoPurge.gone = {}
  BY <1>0, IdleTypes DEF NoPurge
<1>3. ASSUME TakeMarker PROVE BaseInv'
  <2>1. queue # <<>> /\ Head(queue) \in Message /\ Sent(Head(queue)) /\ Tail(queue) \in Seq(Message)
    BY <1>0, <1>3 DEF TakeMarker
  <2>2. \A i \in DOMAIN Tail(queue) : Sent(Tail(queue)[i])
    BY <1>0, <2>1
  <2> DEFINE p == [purge EXCEPT !.pc = "flush", !.dump = Head(queue).dump]
  <2>3. p \in PurgeRecords /\ p.dump <= Len(dumps) /\ p.gone = purge.gone
    <3>1. Head(queue).dump \in 0..MaxDumps /\ Head(queue).dump <= Len(dumps)
      BY <2>1, MessageParts DEF Sent
    <3>2. \A n \in 0..MaxDumps : LET r == [purge EXCEPT !.pc = "flush", !.dump = n] IN
             r \in PurgeRecords /\ r.dump = n /\ r.gone = purge.gone
      BY <1>0 DEF PurgeRecords, PurgeStates
    <3> QED
      BY <3>1, <3>2
  <2>4. purge' = p /\ queue' = Tail(queue) /\ UNCHANGED <<dumps, row, edges, tx, batchMode, faults>>
    BY <1>3 DEF TakeMarker
  <2> HIDE DEF p
  <2> QED
    BY <1>0, <2>1, <2>2, <2>3, <2>4, PurgeMoves DEF Data, Locks
<1>4. ASSUME Flush PROVE BaseInv'
  BY <1>0, <1>1, <1>4 DEF Flush, PurgeRecords, PurgeStates
<1>5. ASSUME CountRows PROVE BaseInv'
  <2>1. Cardinality(Present) \in 0..Cardinality(Docs)
    BY FS_Subset, FS_CardinalityType DEF Present
  <2>2. \A n \in 0..Cardinality(Docs) : LET r == [purge EXCEPT !.pc = "stale", !.total = n] IN
           r \in PurgeRecords /\ r.dump = purge.dump /\ r.gone = purge.gone
    BY <1>0 DEF PurgeRecords, PurgeStates
  <2> QED
    BY <1>0, <1>1, <1>2, <1>5, <2>1, <2>2 DEF CountRows
<1>6. ASSUME CountStale PROVE BaseInv'
  BY <1>0, <1>1, <1>2, <1>6 DEF CountStale, PurgeRecords, PurgeStates
<1>7. ASSUME SweepEdges PROVE BaseInv'
  <2>1. \A rel : UNION {EdgesOf(rel, d) : d \in Stale} \subseteq Edges
    BY <1>0 DEF EdgesOf, Data
  <2>2. PICK s \in SUBSET Edges, q \in PurgeStates : purge' = [purge EXCEPT !.pc = q, !.del = @ \cup s]
    <3>1. ASSUME NEW rel, NEW q \in PurgeStates, Sweep(rel, q)
          PROVE  \E s \in SUBSET Edges : purge' = [purge EXCEPT !.pc = q, !.del = @ \cup s]
      <4>1. UNION {EdgesOf(rel, d) : d \in Stale} \in SUBSET Edges
        BY <2>1
      <4> QED
        BY <3>1, <4>1 DEF Sweep
    <3> QED
      BY <1>7, <3>1 DEF SweepEdges, PurgeStates
  <2> QED
    BY <1>0, <1>1, <1>7, <2>2 DEF SweepEdges, Sweep, PurgeRecords
<1>8. ASSUME DeleteRows PROVE BaseInv'
  <2> DEFINE p == [purge EXCEPT !.pc = "commit", !.gone = Stale]
  <2>1. p \in PurgeRecords /\ p.dump = purge.dump /\ p.gone = Stale
    BY <1>0 DEF PurgeRecords, PurgeStates, Stale, Present
  <2>2. \A w \in Writers : (tx[w].touched \cup tx[w].wrote) \cap Stale = {}
    BY <1>8 DEF DeleteRows
  <2>3. purge' = p /\ UNCHANGED <<dumps, queue, row, edges, tx, batchMode, faults>>
    BY <1>8 DEF DeleteRows
  <2> HIDE DEF p
  <2> QED
    BY <1>0, <2>1, <2>2, <2>3, PurgeMoves DEF Data
<1>9. ASSUME PurgeCommits PROVE BaseInv'
  <2>1. NoRow \in [hash : Contents, stamp : 0..MaxDumps]
    BY DEF NoRow, Contents
  <2>2. row' \in [Docs -> [hash : Contents, stamp : 0..MaxDumps]] /\ edges' \subseteq Edges
    BY <1>0, <1>9, <2>1 DEF PurgeCommits, Data
  <2> QED
    BY <1>0, <1>2, <1>9, <2>2, PurgeMoves DEF PurgeCommits, Data
<1>10. ASSUME PurgeFails PROVE BaseInv'
  <2> DEFINE p == [NoPurge EXCEPT !.pc = "flush", !.dump = purge.dump]
  <2>1. p \in PurgeRecords /\ p.dump = purge.dump /\ p.gone = {}
    BY <1>0, IdleTypes DEF NoPurge, PurgeRecords, PurgeStates
  <2>2. purge' = p /\ UNCHANGED <<dumps, queue, row, edges, tx, batchMode>> /\ faults' \in 0..MaxFaults
    BY <1>0, <1>10 DEF PurgeFails, PurgeAgain, Data
  <2> HIDE DEF p
  <2> QED
    BY <1>0, <2>1, <2>2, PurgeMoves DEF Data
<1> QED
  BY <1>3, <1>4, <1>5, <1>6, <1>7, <1>8, <1>9, <1>10

\* The two ways out of a deadlock.
LEMMA DeadlockBase == ASSUME BaseInv, NEW w \in Writers, Deadlocked(w) PROVE BaseInv'
<1>0. /\ Data /\ tx[w] \in TxRecords /\ tx[w].batch \in Seq(Message) /\ Sound(tx[w])
      /\ \A x \in Writers : Locks(tx[x])
      /\ queue \in Seq(Message) /\ \A i \in DOMAIN queue : Sent(queue[i])
      /\ purge \in PurgeRecords /\ purge.dump <= Len(dumps) /\ Len(dumps) \in Nat
  BY WriterParts, BaseParts DEF Parts, Data
<1>1. CASE Retried(w) /\ UNCHANGED purge
  <2> DEFINE t == [Idle EXCEPT !.pc = "begin", !.batch = tx[w].batch]
  <2>1. /\ t \in TxRecords /\ t.batch = tx[w].batch /\ t.stamp = 0
        /\ t.touched = {} /\ t.wrote = {} /\ t.del = {}
    <3>1. "begin" \in TxStates
      BY DEF TxStates
    <3> QED
      BY <1>0, <3>1, RestartFields
  <2>2. tx' = [tx EXCEPT ![w] = t]
    BY <1>1 DEF Retried
  <2> HIDE DEF t
  <2>3. Locks(t) /\ Sound(t)
    BY <1>0, <2>1 DEF Locks, Sound, BatchDocs
  <2> QED
    BY <1>0, <1>1, <2>1, <2>2, <2>3, WriterMoves DEF Deadlocked, Data
<1>2. CASE PurgeAgain /\ UNCHANGED tx
  <2> DEFINE p == [NoPurge EXCEPT !.pc = "flush", !.dump = purge.dump]
  <2>1. p \in PurgeRecords /\ p.dump = purge.dump /\ p.gone = {}
    BY <1>0, IdleTypes DEF NoPurge, PurgeRecords, PurgeStates
  <2>2. purge' = p
    BY <1>2 DEF PurgeAgain
  <2> HIDE DEF p
  <2> QED
    BY <1>0, <1>2, <2>1, <2>2, PurgeMoves DEF Deadlocked, Data
<1> QED
  BY <1>1, <1>2 DEF Deadlocked

\* A queue, then some messages, then one more.
LEMMA Extended ==
    ASSUME NEW q \in Seq(Message), NEW x \in Seq(Message), NEW m \in Message
    PROVE  /\ Append(q \o x, m) \in Seq(Message) /\ Len(Append(q \o x, m)) = Len(q) + Len(x) + 1
           /\ \A i \in DOMAIN q : Append(q \o x, m)[i] = q[i]
           /\ \A i \in 1..Len(x) : Append(q \o x, m)[Len(q) + i] = x[i]
           /\ Append(q \o x, m)[Len(q) + Len(x) + 1] = m
  OBVIOUS

\* A new dump: what it adds to the queue, and what it leaves of what was said of older ones.
LEMMA NewDump ==
    ASSUME BaseInv, StartDump
    PROVE  /\ dumps' \in Seq([Docs -> Contents]) /\ Len(dumps') = Len(dumps) + 1 /\ Len(dumps') <= MaxDumps
           /\ \A n \in 1..Len(dumps) : dumps'[n] = dumps[n]
           /\ queue' \in Seq(Message) /\ Len(queue) < Len(queue')
           /\ \A i \in DOMAIN queue : queue'[i] = queue[i]
           /\ \A i \in DOMAIN queue' : i \notin DOMAIN queue =>
                /\ queue'[i].dump = Len(dumps')
                /\ queue'[i].doc = Marker <=> i = Len(queue')
                /\ i # Len(queue') => queue'[i].doc \in Docs /\ dumps'[Len(dumps')][queue'[i].doc] \in Payloads
           /\ \A d \in Docs : dumps'[Len(dumps')][d] # NoPayload =>
                \E i \in DOMAIN queue' : queue'[i].doc = d
           /\ UNCHANGED <<row, edges, tx, purge, batchMode, faults>>
<1>0. dumps \in Seq([Docs -> Contents]) /\ queue \in Seq(Message)
  BY BaseParts DEF Parts, Data
<1>1. PICK have \in [Docs -> Contents] :
         \E sent \in [1..Cardinality({d \in Docs : have[d] # NoPayload}) -> {d \in Docs : have[d] # NoPayload}] :
           /\ {sent[i] : i \in DOMAIN sent} = {d \in Docs : have[d] # NoPayload}
           /\ dumps' = Append(dumps, have)
           /\ queue' = Append(queue \o [i \in DOMAIN sent |-> [dump |-> Len(dumps) + 1, doc |-> sent[i]]],
                              [dump |-> Len(dumps) + 1, doc |-> Marker])
  BY DEF StartDump, Contents
<1> DEFINE held == {d \in Docs : have[d] # NoPayload}
           k == Cardinality(held)
<1>2. k \in Nat
  BY FS_Subset, FS_CardinalityType
<1>3. PICK sent \in [1..k -> held] :
           /\ {sent[i] : i \in DOMAIN sent} = held
           /\ dumps' = Append(dumps, have)
           /\ queue' = Append(queue \o [i \in DOMAIN sent |-> [dump |-> Len(dumps) + 1, doc |-> sent[i]]],
                              [dump |-> Len(dumps) + 1, doc |-> Marker])
  BY <1>1
<1>4. held \subseteq Docs /\ \A d \in held : have[d] \in Payloads
  BY DEF Contents
<1>5. Len(dumps) + 1 \in 1..MaxDumps
  BY <1>0 DEF StartDump
<1>6. \A d \in Docs : have[d] # NoPayload => d \in held
  OBVIOUS
<1> HIDE DEF held, k
<1> DEFINE n == Len(dumps) + 1
           new == [i \in 1..k |-> [dump |-> n, doc |-> sent[i]]]
           last == [dump |-> n, doc |-> Marker]
<1>7. new \in Seq(Message) /\ Len(new) = k /\ last \in Message
  <2>1. [dump |-> n, doc |-> Marker] \in Message /\ \A i \in 1..k : [dump |-> n, doc |-> sent[i]] \in Message
    BY <1>3, <1>4, <1>5 DEF Message
  <2>2. new \in [1..k -> Message]
    BY <2>1
  <2> HIDE DEF n
  <2>3. new \in Seq(Message) /\ Len(new) = k
    BY <1>2, <2>2
  <2> QED
    BY <2>1, <2>3
<1>8. queue' = Append(queue \o new, last)
  BY <1>3
<1>9. /\ dumps' \in Seq([Docs -> Contents]) /\ Len(dumps') = n /\ dumps'[n] = have
      /\ \A x \in 1..Len(dumps) : dumps'[x] = dumps[x]
  BY <1>0, <1>3
<1>10. \A i \in 1..k : new[i].dump = n /\ new[i].doc = sent[i] /\ sent[i] \in held
  BY <1>3
<1>11. last.dump = n /\ last.doc = Marker
  OBVIOUS
<1> HIDE DEF n, new, last
<1>12. /\ queue' \in Seq(Message) /\ Len(queue') = Len(queue) + k + 1
       /\ \A i \in DOMAIN queue : queue'[i] = queue[i]
       /\ \A i \in 1..k : queue'[Len(queue) + i] = new[i]
       /\ queue'[Len(queue) + k + 1] = last
  BY <1>0, <1>7, <1>8, Extended
<1>13. Marker \notin Docs
  BY DEF Marker
<1>14. \A i \in DOMAIN queue' : i \notin DOMAIN queue =>
         \/ i = Len(queue') /\ queue'[i] = last
         \/ i # Len(queue') /\ \E j \in 1..k : queue'[i] = new[j]
  <2> SUFFICES ASSUME NEW i \in DOMAIN queue', i \notin DOMAIN queue, i # Len(queue')
               PROVE  \E j \in 1..k : queue'[i] = new[j]
    BY <1>0, <1>2, <1>12
  <2>1. i - Len(queue) \in 1..k /\ i = Len(queue) + (i - Len(queue))
    BY <1>0, <1>2, <1>12
  <2> QED
    BY <1>12, <2>1
<1>15. \A d \in Docs : have[d] # NoPayload => \E i \in DOMAIN queue' : queue'[i].doc = d
  <2> SUFFICES ASSUME NEW d \in Docs, have[d] # NoPayload PROVE \E i \in DOMAIN queue' : queue'[i].doc = d
    OBVIOUS
  <2>1. PICK j \in 1..k : sent[j] = d
    BY <1>3, <1>6
  <2>2. queue'[Len(queue) + j].doc = d /\ Len(queue) + j \in DOMAIN queue'
    BY <1>0, <1>2, <1>10, <1>12, <2>1, SMTT(30)
  <2> QED
    BY <2>2
<1>16. Len(dumps') = Len(dumps) + 1 /\ Len(dumps') <= MaxDumps
  BY <1>5, <1>9 DEF n
<1>17. Len(queue) < Len(queue')
  BY <1>0, <1>2, <1>12
<1>18. \A i \in DOMAIN queue' : i \notin DOMAIN queue =>
          /\ queue'[i].dump = n
          /\ queue'[i].doc = Marker <=> i = Len(queue')
          /\ i # Len(queue') => queue'[i].doc \in Docs /\ have[queue'[i].doc] \in Payloads
  BY <1>4, <1>10, <1>11, <1>13, <1>14
<1>19. UNCHANGED <<row, edges, tx, purge, batchMode, faults>>
  BY DEF StartDump
<1> QED
  BY <1>9, <1>12, <1>15, <1>16, <1>17, <1>18, <1>19

LEMMA DumpBase == ASSUME BaseInv, StartDump PROVE BaseInv'
<1>0. /\ Data /\ \A w \in Writers : Locks(tx[w]) /\ Sound(tx[w]) /\ tx[w].batch \in Seq(Message)
      /\ queue \in Seq(Message) /\ \A i \in DOMAIN queue : Sent(queue[i])
      /\ purge.dump <= Len(dumps) /\ Len(dumps) \in Nat /\ purge.dump \in Nat
      /\ \A w \in Writers : tx[w].stamp \in Nat
  BY WriterParts, BaseParts DEF Parts, Data, TxRecords, PurgeRecords
<1>1. ASSUME NEW m \in Message, Sent(m)
      PROVE  m.dump <= Len(dumps') /\ (m.doc # Marker => dumps'[m.dump][m.doc] \in Payloads)
  <2>1. m.dump \in 1..Len(dumps)
    BY <1>0, <1>1, MessageParts DEF Sent
  <2> QED
    BY <1>0, <1>1, <2>1, NewDump DEF Sent, Content
<1>2. \A i \in DOMAIN queue' : Sent(queue[i])'
  <2> SUFFICES ASSUME NEW i \in DOMAIN queue'
               PROVE  /\ queue'[i].dump <= Len(dumps')
                      /\ queue'[i].doc # Marker => dumps'[queue'[i].dump][queue'[i].doc] \in Payloads
    BY DEF Sent, Content
  <2>1. CASE i \in DOMAIN queue
    <3>1. queue'[i] = queue[i] /\ queue[i] \in Message /\ Sent(queue[i])
      BY <1>0, <2>1, NewDump
    <3> QED
      BY <1>1, <3>1
  <2>2. CASE i \notin DOMAIN queue
    BY <1>0, <2>2, NewDump
  <2> QED
    BY <2>1, <2>2
<1>3. \A w \in Writers : Locks(tx[w])' /\ Sound(tx[w])'
  <2> SUFFICES ASSUME NEW w \in Writers PROVE Locks(tx[w])' /\ Sound(tx[w])'
    OBVIOUS
  <2>1. \A i \in DOMAIN tx[w].batch :
           /\ tx[w].batch[i].doc # Marker /\ tx[w].batch[i].dump <= Len(dumps')
           /\ dumps'[tx[w].batch[i].dump][tx[w].batch[i].doc] \in Payloads
    BY <1>0, <1>1 DEF Sound
  <2>2. UNCHANGED <<tx, purge>> /\ tx[w].stamp <= Len(dumps')
    BY <1>0, NewDump DEF Sound
  <2> QED
    BY <1>0, <2>1, <2>2 DEF Locks, Sound, BatchDocs, Sent, Content
<1>4. Data'
  BY <1>0, NewDump DEF Data
<1>5. purge'.dump <= Len(dumps')
  BY <1>0, NewDump
<1> QED
  BY <1>2, <1>3, <1>4, <1>5, BaseParts DEF Parts

\* The table a loader starts from.
LEMMA InitBase == Init => BaseInv
<1> SUFFICES ASSUME Init PROVE BaseInv
  OBVIOUS
<1>1. PICK have \in [Docs -> Contents] :
         /\ row = [d \in Docs |-> [hash |-> have[d], stamp |-> 0]]
         /\ edges = UNION {Asserted(d, have[d]) : d \in {d \in Docs : have[d] # NoPayload}}
  BY DEF Init, Contents
<1>2. edges \subseteq Edges
  BY <1>1, AssertedType DEF Contents
<1>3. row \in [Docs -> [hash : Contents, stamp : 0..MaxDumps]]
  BY <1>1
<1>4. tx \in [Writers -> TxRecords] /\ purge \in PurgeRecords /\ batchMode \in BOOLEAN
  BY IdleTypes DEF Init
<1>5. Data
  BY <1>2, <1>3, <1>4 DEF Init, Data
<1>6. \A w \in Writers : Locks(tx[w]) /\ Sound(tx[w])
  BY DEF Init, Locks, Sound, Idle, BatchDocs, NoPurge
<1>7. (\A i \in DOMAIN queue : Sent(queue[i])) /\ purge.dump <= Len(dumps)
  BY DEF Init, NoPurge
<1> QED
  BY <1>5, <1>6, <1>7, BaseParts DEF Parts

\* BaseInv is inductive.
LEMMA BaseStep == BaseInv /\ [Next]_vars => BaseInv'
<1> SUFFICES ASSUME BaseInv, [Next]_vars PROVE BaseInv'
  OBVIOUS
<1>1. CASE UNCHANGED vars
  BY <1>1 DEF vars, BaseInv, TypeOK, Sent, Content, WritersAreSound, RowLocksAreExclusive, InBatch
<1>2. CASE Next
  <2>1. ASSUME NEW w \in Writers, Take(w) \/ Write(w) \/ WriteFails(w) \/ Redelivered(w) \/ Deadlocked(w)
        PROVE  BaseInv'
    BY <2>1, TakeBase, WriteBase, DeadlockBase
  <2> QED
    BY <1>2, <2>1, DumpBase, PurgeBase DEF Next
<1> QED
  BY <1>1, <1>2

\* Types, locks, batches and messages are sound in every behaviour, however dumps overlap.
THEOREM BaseInvariant == Spec => []BaseInv
<1>1. Init => BaseInv
  BY InitBase
<1>2. BaseInv /\ [Next]_vars => BaseInv'
  BY BaseStep
<1> QED
  BY <1>1, <1>2, PTL DEF Spec

\* Documents, edges and transactions keep their types and only open transactions hold rows and
\* edges, in either mode and with any overlap of dumps, however often writes are rolled back,
\* retried, redelivered or chosen as the victims of a deadlock.
THEOREM RecordTypes == Spec => []TypeOK
<1>1. BaseInv => TypeOK
  BY DEF BaseInv
<1> QED
  BY <1>1, BaseInvariant, PTL

-----------------------------------------------------------------------------
(* One dump after another                                                  *)

\* What a writer has of a document is what the newest dump holds.
LEMMA IncomingIsNewest ==
    ASSUME LoadInv, NEW w \in Writers, NEW d \in InBatch(w)
    PROVE  d \in Docs /\ dumps # <<>> /\ Incoming(w, d) = Newest(d) /\ Newest(d) \in Payloads
<1>1. BaseInv /\ OfNewest(tx[w])
  BY DEF LoadInv, WritersAreCurrent
<1>2. Data
  BY <1>1, BaseParts DEF Parts
<1>3. PICK i \in DOMAIN tx[w].batch : tx[w].batch[i].doc = d /\ Incoming(w, d) = Content(tx[w].batch[i])
  BY <1>2, LastDelivery
<1>4. tx[w].batch[i].dump = Len(dumps)
  BY <1>1, <1>3 DEF OfNewest
<1>5. tx[w].batch[i] \in Message
  BY <1>1, <1>3, WriterParts
<1>6. Len(dumps) # 0
  BY <1>4, <1>5, MessageParts
<1>7. d \in Docs /\ Incoming(w, d) \in Payloads
  BY <1>1, IncomingType
<1> QED
  BY <1>2, <1>3, <1>4, <1>6, <1>7 DEF Content, Newest, Data

LEMMA BatchOperators ==
    ASSUME LoadInv, NEW w \in Writers
    PROVE  /\ InBatch(w) = BatchDocs(tx[w]) /\ Changed(w) = NewContent(tx[w]) /\ Unlinked(w) = OldEdges(tx[w])
           /\ BatchDocs(tx[w]) \subseteq Docs
           /\ \A d \in BatchDocs(tx[w]) : dumps # <<>> /\ Newest(d) \in Payloads
<1>1. InBatch(w) = BatchDocs(tx[w])
  BY DEF InBatch, BatchDocs
<1>2. Changed(w) = NewContent(tx[w])
  BY <1>1, IncomingIsNewest DEF Changed, NewContent
<1>3. Unlinked(w) = OldEdges(tx[w])
  BY <1>1, <1>2, IncomingIsNewest, UpsertedInBatch DEF Unlinked, OldEdges
<1> QED
  BY <1>1, <1>2, <1>3, IncomingIsNewest

\* A step of a transaction that leaves the table alone.
LEMMA QuietWriter ==
    ASSUME LoadInv, BaseInv', NEW w \in Writers, NEW t \in TxRecords, tx' = [tx EXCEPT ![w] = t],
           UNCHANGED <<dumps, row, edges, purge, batchMode>>, OfNewest(t), Current(t),
           batchMode /\ t.pc # "idle" /\ tx[w].pc = "idle" =>
              purge.pc \in {"idle", "flush"} /\ \A x \in Writers : tx[x].pc = "idle",
           OneDump',
           \A d \in Docs : dumps # <<>> /\ InFlight(d) =>
              InFlight(d)' \/ row[d] = [hash |-> Newest(d), stamp |-> Len(dumps)]
    PROVE  LoadInv'
<1>1. tx \in [Writers -> TxRecords]
  BY DEF LoadInv, BaseInv
<1>2. \A x \in Writers : tx'[x] = IF x = w THEN t ELSE tx[x]
  BY <1>1
<1>3. WritersAreCurrent'
  <2> SUFFICES ASSUME NEW x \in Writers PROVE OfNewest(tx[x])' /\ Current(tx[x])'
    BY DEF WritersAreCurrent
  <2>1. OfNewest(tx[x]) /\ Current(tx[x])
    BY DEF LoadInv, WritersAreCurrent
  <2>2. CASE x = w
    BY <1>2, <2>2 DEF OfNewest, Current, BatchDocs, NewContent, OldEdges, Newest
  <2>3. CASE x # w
    BY <1>2, <2>1, <2>3 DEF OfNewest, Current, BatchDocs, NewContent, OldEdges, Newest
  <2> QED
    BY <2>2, <2>3
<1>4. OneAtATime'
  BY <1>2 DEF LoadInv, OneAtATime
<1>5. PurgeIsCurrent' /\ PurgeStaysCapped' /\ AbsentRows' /\ EdgesMatchDocument'
  BY DEF LoadInv, PurgeIsCurrent, PurgeStaysCapped, AbsentRows, EdgesMatchDocument, Swept, Stale,
         Present, EdgesOf
<1>6. DumpIsOnItsWay'
  BY DEF LoadInv, DumpIsOnItsWay, Newest
<1> QED
  BY <1>3, <1>4, <1>5, <1>6 DEF LoadInv

\* A step of a transaction that goes on with its batch, or is done with it.
LEMMA QuietStep ==
    ASSUME LoadInv, BaseInv', NEW w \in Writers, NEW t \in TxRecords, tx' = [tx EXCEPT ![w] = t],
           UNCHANGED <<dumps, queue, row, edges, purge, batchMode>>, OfNewest(t), Current(t),
           tx[w].pc # "idle",
           (t.pc # "settle" /\ t.batch = tx[w].batch) \/ tx[w].pc = "settle"
    PROVE  LoadInv'
<1>1. tx \in [Writers -> TxRecords]
  BY DEF LoadInv, BaseInv
<1>2. \A x \in Writers : tx'[x] = IF x = w THEN t ELSE tx[x]
  BY <1>1
<1>3. OneDump'
  BY DEF LoadInv, OneDump
<1>4. \A d \in Docs : InFlight(d) => InFlight(d)'
  BY <1>2 DEF InFlight, InBatch
<1> QED
  BY <1>3, <1>4, QuietWriter

\* A transaction that starts over has nothing but its batch.
LEMMA RestartIsCurrent ==
    ASSUME LoadInv, NEW w \in Writers, NEW q \in {"begin", "settle"}
    PROVE  LET t == [Idle EXCEPT !.pc = q, !.batch = tx[w].batch] IN
           t \in TxRecords /\ t.pc = q /\ t.batch = tx[w].batch /\ OfNewest(t) /\ Current(t)
<1> DEFINE t == [Idle EXCEPT !.pc = q, !.batch = tx[w].batch]
<1>1. tx[w].batch \in Seq(Message) /\ OfNewest(tx[w])
  BY WriterParts DEF LoadInv, WritersAreCurrent
<1>2. t \in TxRecords /\ t.pc = q /\ t.batch = tx[w].batch /\ t.touched = {}
  <2>1. q \in TxStates
    BY DEF TxStates
  <2> QED
    BY <1>1, <2>1, IdleTypes DEF TxRecords, Idle
<1> HIDE DEF t
<1>3. OfNewest(t) /\ Current(t)
  BY <1>1, <1>2 DEF OfNewest, Current
<1> QED
  BY <1>2, <1>3 DEF t

\* Reading, refreshing, upserting and unlinking, and the ways back.
LEMMA QuietWrites ==
    ASSUME LoadInv, NEW w \in Writers,
           Read(w) \/ Refresh(w) \/ Upsert(w) \/ Unlink(w) \/ Ack(w) \/ WriteFails(w) \/ Redelivered(w)
    PROVE  LoadInv'
<1>0. /\ BaseInv /\ tx[w] \in TxRecords /\ Locks(tx[w]) /\ OfNewest(tx[w]) /\ Current(tx[w]) /\ Data
  BY WriterParts, BaseParts DEF LoadInv, WritersAreCurrent, Parts
<1>1. BaseInv'
  BY <1>0, WriteBase DEF Write
<1>2. ASSUME NEW c \in TxRecords, NEW q \in TxStates, Step(w, q, c), c.batch = tx[w].batch,
             q \in {"refresh", "upsert", "unlink", "link"}, c.stamp = Len(dumps), Current([c EXCEPT !.pc = q]),
             tx[w].pc # "idle", UNCHANGED <<dumps, queue, row, edges, purge, batchMode>>
      PROVE  LoadInv'
  <2> DEFINE t == [c EXCEPT !.pc = q]
  <2>1. /\ t \in TxRecords /\ tx' = [tx EXCEPT ![w] = t] /\ t.pc = q /\ t.batch = tx[w].batch
        /\ t.stamp = Len(dumps) /\ Current(t)
    BY <1>2, StepFields DEF Step
  <2> HIDE DEF t
  <2>2. OfNewest(t)
    BY <1>0, <1>2, <2>1 DEF OfNewest
  <2> QED
    BY <1>1, <1>2, <2>1, <2>2, QuietStep
<1>3. ASSUME Read(w) PROVE LoadInv'
  <2> DEFINE q == IF batchMode THEN "refresh" ELSE "upsert"
             c == [tx[w] EXCEPT !.stamp = Len(dumps), !.prior = [d \in Docs |-> row[d].hash]]
             t == [c EXCEPT !.pc = q]
  <2>1. Len(dumps) \in 0..MaxDumps /\ [d \in Docs |-> row[d].hash] \in [Docs -> Contents]
    BY <1>0 DEF Data
  <2>2. /\ c \in TxRecords /\ c.batch = tx[w].batch /\ c.stamp = Len(dumps)
        /\ c.touched = tx[w].touched /\ c.prior = [d \in Docs |-> row[d].hash]
    BY <1>0, <2>1 DEF TxRecords
  <2>3. tx[w].touched = {} /\ tx[w].pc # "idle"
    BY <1>0, <1>3 DEF Read, Locks
  <2>4. Step(w, q, c) /\ UNCHANGED <<dumps, queue, row, edges, purge, batchMode, faults>>
    BY <1>3 DEF Read
  <2> HIDE DEF c
  <2>5. q \in TxStates /\ q \in {"refresh", "upsert", "unlink", "link"}
    BY DEF TxStates
  <2>6. t.pc = q /\ t.touched = {} /\ t.prior = [d \in Docs |-> row[d].hash]
    BY <2>2, <2>3, <2>5, StepFields
  <2> HIDE DEF t
  <2>7. Current(t)
    BY <2>6 DEF Current
  <2> QED
    BY <1>2, <2>2, <2>3, <2>4, <2>5, <2>7 DEF t
<1>4. ASSUME Refresh(w) PROVE LoadInv'
  <2> DEFINE s == (InBatch(w) \ Changed(w)) \cap Present
             c == [tx[w] EXCEPT !.touched = s]
             t == [c EXCEPT !.pc = "upsert"]
  <2>1. /\ batchMode /\ tx[w].pc = "refresh" /\ tx[w].stamp = Len(dumps)
        /\ \A d \in Docs : tx[w].prior[d] = row[d].hash
    BY <1>0, <1>4 DEF Refresh, Current, OfNewest, Data
  <2>2. s = BatchDocs(tx[w]) \ NewContent(tx[w]) /\ s \subseteq Docs
    <3>1. ASSUME NEW d \in BatchDocs(tx[w]), d \notin NewContent(tx[w]) PROVE d \in Present
      BY <2>1, <3>1, BatchOperators DEF NewContent, Present, NoRow
    <3> QED
      BY <3>1, BatchOperators
  <2>3. /\ c \in TxRecords /\ c.batch = tx[w].batch /\ c.stamp = tx[w].stamp /\ c.touched = s
        /\ c.prior = tx[w].prior
    BY <1>0, <2>2 DEF TxRecords
  <2>4. Step(w, "upsert", c) /\ UNCHANGED <<dumps, queue, row, edges, purge, batchMode, faults>>
    BY <1>4 DEF Refresh
  <2> HIDE DEF c
  <2>5. "upsert" \in TxStates
    BY DEF TxStates
  <2>6. t.pc = "upsert" /\ t.touched = s /\ t.prior = tx[w].prior /\ t.batch = tx[w].batch
    BY <2>3, <2>5, StepFields
  <2> HIDE DEF t, s
  <2>7. Current(t)
    BY <2>1, <2>2, <2>6 DEF Current, BatchDocs, NewContent
  <2> QED
    BY <1>2, <2>1, <2>3, <2>4, <2>5, <2>7 DEF t
<1>5. ASSUME Upsert(w) PROVE LoadInv'
  <2> DEFINE c == [tx[w] EXCEPT !.wrote = Upserted(w)]
             t == [c EXCEPT !.pc = "unlink"]
  <2>1. tx[w].pc = "upsert" /\ tx[w].stamp = Len(dumps)
    BY <1>0, <1>5 DEF Upsert, OfNewest
  <2>2. Upserted(w) = (IF batchMode THEN NewContent(tx[w]) ELSE BatchDocs(tx[w])) /\ Upserted(w) \subseteq Docs
    BY BatchOperators DEF Upserted, NewContent
  <2>3. /\ c \in TxRecords /\ c.batch = tx[w].batch /\ c.stamp = tx[w].stamp /\ c.wrote = Upserted(w)
        /\ c.prior = tx[w].prior /\ c.touched = tx[w].touched
    BY <1>0, <2>2 DEF TxRecords
  <2>4. Step(w, "unlink", c) /\ UNCHANGED <<dumps, queue, row, edges, purge, batchMode, faults>>
    BY <1>5 DEF Upsert
  <2> HIDE DEF c
  <2>5. "unlink" \in TxStates
    BY DEF TxStates
  <2>6. /\ t.pc = "unlink" /\ t.wrote = Upserted(w) /\ t.touched = tx[w].touched /\ t.prior = tx[w].prior
        /\ t.batch = tx[w].batch
    BY <2>3, <2>5, StepFields
  <2> HIDE DEF t
  <2>7. Current(t)
    BY <1>0, <2>1, <2>2, <2>6 DEF Current, BatchDocs, NewContent
  <2> QED
    BY <1>2, <2>1, <2>3, <2>4, <2>5, <2>7 DEF t
<1>6. ASSUME Unlink(w) PROVE LoadInv'
  <2> DEFINE c == [tx[w] EXCEPT !.del = Unlinked(w)]
             t == [c EXCEPT !.pc = "link"]
  <2>1. tx[w].pc = "unlink" /\ tx[w].stamp = Len(dumps)
    BY <1>0, <1>6 DEF Unlink, OfNewest
  <2>2. Unlinked(w) = OldEdges(tx[w]) /\ Unlinked(w) \subseteq Edges
    BY <1>0, BatchOperators DEF Unlinked, Data
  <2>3. /\ c \in TxRecords /\ c.batch = tx[w].batch /\ c.stamp = tx[w].stamp /\ c.wrote = tx[w].wrote
        /\ c.prior = tx[w].prior /\ c.touched = tx[w].touched /\ c.del = Unlinked(w)
    BY <1>0, <2>2 DEF TxRecords
  <2>4. Step(w, "link", c) /\ UNCHANGED <<dumps, queue, row, edges, purge, batchMode, faults>>
    BY <1>6 DEF Unlink
  <2> HIDE DEF c
  <2>5. "link" \in TxStates
    BY DEF TxStates
  <2>6. /\ t.pc = "link" /\ t.wrote = tx[w].wrote /\ t.touched = tx[w].touched /\ t.prior = tx[w].prior
        /\ t.batch = tx[w].batch /\ t.del = Unlinked(w)
    BY <2>3, <2>5, StepFields
  <2> HIDE DEF t
  <2>7. Current(t)
    BY <1>0, <2>1, <2>2, <2>6 DEF Current, BatchDocs, NewContent, OldEdges
  <2> QED
    BY <1>2, <2>1, <2>3, <2>4, <2>5, <2>7 DEF t
<1>7. ASSUME Ack(w) PROVE LoadInv'
  <2>1. Idle.pc = "idle" /\ Idle.batch = <<>> /\ Idle.touched = {}
    BY DEF Idle
  <2>2. OfNewest(Idle) /\ Current(Idle)
    BY <2>1 DEF OfNewest, Current
  <2> QED
    BY <1>1, <1>7, <2>2, IdleTypes, QuietStep DEF Ack
<1>8. ASSUME WriteFails(w) \/ Redelivered(w) PROVE LoadInv'
  <2> DEFINE t == [Idle EXCEPT !.pc = "begin", !.batch = tx[w].batch]
  <2>1. t \in TxRecords /\ t.pc = "begin" /\ t.batch = tx[w].batch /\ OfNewest(t) /\ Current(t)
    BY RestartIsCurrent
  <2>2. /\ tx' = [tx EXCEPT ![w] = t] /\ tx[w].pc # "idle"
        /\ UNCHANGED <<dumps, queue, row, edges, purge, batchMode>>
    BY <1>8 DEF WriteFails, Redelivered, Retried
  <2> HIDE DEF t
  <2> QED
    BY <1>1, <2>1, <2>2, QuietStep
<1> QED
  BY <1>3, <1>4, <1>5, <1>6, <1>7, <1>8

\* Records are taken from the front of the queue, never past the marker.
LEMMA TakeLoads == ASSUME LoadInv, NEW w \in Writers, Take(w) PROVE LoadInv'
<1>0. /\ BaseInv /\ Data /\ tx[w] \in TxRecords /\ Locks(tx[w]) /\ OfNewest(tx[w]) /\ OneDump
      /\ queue \in Seq(Message)
  BY WriterParts, BaseParts DEF LoadInv, WritersAreCurrent, Parts, Data
<1>1. PICK n \in 1..(IF batchMode THEN BatchSize ELSE 1) :
         /\ n <= Len(queue)
         /\ \A i \in 1..n : queue[i].doc # Marker
         /\ Step(w, "begin", [tx[w] EXCEPT !.batch = SubSeq(queue, 1, n)])
         /\ queue' = SubSeq(queue, n + 1, Len(queue))
  BY DEF Take
<1>2. n \in 1..Len(queue) /\ n \in Nat /\ Len(queue) \in Nat
  BY <1>0, <1>1
<1> DEFINE b == SubSeq(queue, 1, n)
           c == [tx[w] EXCEPT !.batch = b]
           t == [c EXCEPT !.pc = "begin"]
<1>3. /\ b \in Seq(Message) /\ DOMAIN b = 1..n
      /\ \A i \in 1..n : i \in DOMAIN queue /\ b[i] = queue[i]
  BY <1>0, <1>1, <1>2, QueueParts
<1>4. /\ queue' \in Seq(Message) /\ DOMAIN queue' = 1..(Len(queue) - n) /\ Len(queue') = Len(queue) - n
      /\ \A i \in 1..(Len(queue) - n) : i + n \in DOMAIN queue /\ queue'[i] = queue[i + n]
  BY <1>0, <1>1, <1>2, QueueParts, SMTT(30)
<1>5. tx' = [tx EXCEPT ![w] = t]
  BY <1>1 DEF Step
<1> HIDE DEF b
<1>6. /\ t \in TxRecords /\ t.pc = "begin" /\ t.batch = b /\ t.touched = tx[w].touched
  BY <1>0, <1>3 DEF TxRecords, TxStates
<1> HIDE DEF t, c
<1>7. tx[w].pc = "idle" /\ tx[w].touched = {} /\ UNCHANGED <<dumps, row, edges, purge, batchMode, faults>>
  BY <1>0 DEF Take, Locks
<1>8. OfNewest(t) /\ Current(t)
  BY <1>0, <1>3, <1>6, <1>7 DEF OfNewest, Current, OneDump
<1>9. purge.pc = "idle"
  BY <1>0, <1>2 DEF OneDump
<1>10. batchMode => \A x \in Writers : tx[x].pc = "idle"
  BY DEF Take, Idle
<1>11. OneDump'
  <2>1. ASSUME NEW i \in DOMAIN queue'
        PROVE  queue'[i].dump = Len(dumps) /\ (queue'[i].doc = Marker <=> i = Len(queue'))
    <3>1. i \in 1..(Len(queue) - n) /\ i + n \in DOMAIN queue /\ queue'[i] = queue[i + n]
      BY <1>4, <2>1
    <3>2. queue[i + n].dump = Len(dumps) /\ (queue[i + n].doc = Marker <=> i + n = Len(queue))
      BY <1>0, <3>1 DEF OneDump
    <3> QED
      BY <1>2, <1>4, <3>1, <3>2
  <2> QED
    BY <1>0, <1>7, <1>9, <2>1 DEF OneDump
<1>12. \A d \in Docs : InFlight(d) => InFlight(d)'
  <2> SUFFICES ASSUME NEW d \in Docs, InFlight(d) PROVE InFlight(d)'
    OBVIOUS
  <2>1. \A x \in Writers : tx'[x] = IF x = w THEN t ELSE tx[x]
    BY <1>0, <1>5 DEF Data
  <2>2. CASE \E x \in Writers : tx[x].pc # "settle" /\ d \in InBatch(x)
    <3>1. PICK x \in Writers : tx[x].pc # "settle" /\ d \in InBatch(x)
      BY <2>2
    <3>2. x # w
      BY <1>0, <1>7, <3>1 DEF OfNewest, InBatch, Idle
    <3> QED
      BY <2>1, <3>1, <3>2 DEF InFlight, InBatch
  <2>3. CASE \E i \in DOMAIN queue : queue[i].doc = d
    <3>1. PICK i \in DOMAIN queue : queue[i].doc = d
      BY <2>3
    <3>2. CASE i <= n
      <4>1. i \in DOMAIN b /\ b[i].doc = d
        BY <1>0, <1>2, <1>3, <3>1, <3>2
      <4>2. tx'[w].pc # "settle" /\ d \in InBatch(w)'
        BY <1>6, <2>1, <4>1 DEF InBatch
      <4> QED
        BY <4>2 DEF InFlight
    <3>3. CASE ~(i <= n)
      <4>1. i - n \in DOMAIN queue' /\ queue'[i - n] = queue[(i - n) + n] /\ (i - n) + n = i
        BY <1>0, <1>2, <1>4, <3>1, <3>3
      <4> QED
        BY <3>1, <4>1 DEF InFlight
    <3> QED
      BY <3>2, <3>3
  <2> QED
    BY <2>2, <2>3 DEF InFlight
<1>13. BaseInv'
  BY <1>0, TakeBase
<1> QED
  BY <1>5, <1>6, <1>7, <1>8, <1>9, <1>10, <1>11, <1>12, <1>13, QuietWriter

\* A step of the purge that leaves the table alone.
LEMMA QuietPurge ==
    ASSUME LoadInv, BaseInv', UNCHANGED <<dumps, row, edges, tx, batchMode>>,
           OneDump', OneAtATime', PurgeIsCurrent', PurgeStaysCapped',
           \A d \in Docs : InFlight(d) => InFlight(d)'
    PROVE  LoadInv'
<1>1. WritersAreCurrent'
  BY DEF LoadInv, WritersAreCurrent, OfNewest, Current, BatchDocs, NewContent, OldEdges, Newest
<1>2. AbsentRows' /\ EdgesMatchDocument'
  BY DEF LoadInv, AbsentRows, EdgesMatchDocument, EdgesOf
<1>3. DumpIsOnItsWay'
  BY DEF LoadInv, DumpIsOnItsWay, Newest
<1> QED
  BY <1>1, <1>2, <1>3 DEF LoadInv

\* The table is counted in naturals.
LEMMA Counts ==
    ASSUME BaseInv
    PROVE  /\ Stale \subseteq Present /\ Present \subseteq Docs /\ IsFiniteSet(Present) /\ IsFiniteSet(Stale)
           /\ Cardinality(Present) \in Nat /\ Cardinality(Stale) \in Nat /\ purge.total \in Nat
<1>1. Stale \subseteq Present /\ Present \subseteq Docs
  BY DEF Stale, Present
<1>2. purge.total \in Nat
  BY FS_CardinalityType DEF BaseInv, PurgeRecords
<1> QED
  BY <1>1, <1>2, FS_Subset, FS_CardinalityType

\* What a step of the purge within one marker's handling has to keep.
LEMMA PurgeGoesOn ==
    ASSUME LoadInv, BaseInv', UNCHANGED <<dumps, queue, row, edges, tx, batchMode>>,
           NEW p \in PurgeRecords, purge' = p, purge.pc # "idle", p.pc # "idle", p.dump = purge.dump,
           batchMode /\ p.pc # "flush" => purge.pc # "flush" \/ \A w \in Writers : tx[w].pc = "idle",
           p.pc \in {"flush", "total", "stale", "scoped", "credited_to", "rows"} => p.gone = {},
           p.pc = "commit" => p.gone = Stale,
           p.pc \in {"flush", "total", "stale", "scoped"} =>
              p.del = {} \/ (p.del = purge.del /\ purge.pc \in {"flush", "total", "stale"}),
           p.pc = "credited_to" => purge.pc = "scoped" /\ p.del = purge.del \cup Swept("scoped"),
           p.pc = "rows" => purge.pc = "credited_to" /\ p.del = purge.del \cup Swept("credited_to"),
           p.pc = "commit" => purge.pc = "rows" /\ p.del = purge.del,
           p.pc = "stale" => p.total = Cardinality(Present),
           p.pc \in {"scoped", "credited_to", "rows", "commit"} =>
              /\ p.total = purge.total /\ purge.pc \in {"stale", "scoped", "credited_to", "rows"}
              /\ purge.pc = "stale" => Cardinality(Stale) * CapDen < purge.total * CapNum
    PROVE  LoadInv'
<1>1. Stale' = Stale /\ Present' = Present /\ Swept("scoped")' = Swept("scoped") /\ Swept("credited_to")' = Swept("credited_to")
  BY DEF Stale, Present, Swept, EdgesOf
<1>2. OneDump' /\ OneAtATime'
  <2>1. OneDump'
    BY DEF LoadInv, OneDump
  <2>2. OneAtATime'
    BY DEF LoadInv, OneAtATime, BaseInv, PurgeRecords, PurgeStates
  <2> QED
    BY <2>1, <2>2
<1>3. PurgeIsCurrent'
  <2>1. purge.pc \in PurgeStates /\ p.pc \in PurgeStates
    BY DEF LoadInv, BaseInv, PurgeRecords
  <2>2. PurgeIsCurrent
    BY DEF LoadInv
  <2>3. \A d \in Stale : row[d].stamp < purge.dump
    BY DEF Stale
  <2>4. p.pc = "commit" => \A d \in p.gone : row[d].stamp < p.dump
    BY <2>3
  <2>5. batchMode =>
         /\ p.pc \in {"flush", "total", "stale", "scoped"} => p.del = {}
         /\ p.pc = "credited_to" => p.del = Swept("scoped")
         /\ p.pc \in {"rows", "commit"} => p.del = Swept("scoped") \cup Swept("credited_to")
         /\ p.pc = "commit" => p.gone = Stale
    BY <2>2 DEF PurgeIsCurrent
  <2>6. p.pc # "commit" => p.gone = {}
    BY <2>1 DEF PurgeStates
  <2> QED
    BY <1>1, <2>4, <2>5, <2>6 DEF PurgeIsCurrent
<1>4. PurgeStaysCapped'
  <2>1. PurgeStaysCapped /\ Cardinality(Present) \in Nat
    BY Counts DEF LoadInv
  <2>2. p.pc \in {"stale", "scoped", "credited_to", "rows", "commit"} => p.total <= Cardinality(Present)
    BY <2>1 DEF PurgeStaysCapped
  <2>3. p.pc \in {"scoped", "credited_to", "rows", "commit"} => Cardinality(Stale) * CapDen < p.total * CapNum
    BY <2>1 DEF PurgeStaysCapped
  <2> QED
    BY <1>1, <2>2, <2>3 DEF PurgeStaysCapped
<1>5. \A d \in Docs : InFlight(d) => InFlight(d)'
  BY DEF InFlight, InBatch
<1> QED
  BY <1>2, <1>3, <1>4, <1>5, QuietPurge

\* A purge that refuses leaves nothing behind.
LEMMA PurgeGivesUp ==
    ASSUME LoadInv, BaseInv', UNCHANGED <<dumps, queue, row, edges, tx, batchMode>>, purge' = NoPurge
    PROVE  LoadInv'
<1>1. NoPurge.pc = "idle" /\ NoPurge.gone = {}
  BY DEF NoPurge
<1>2. OneDump' /\ OneAtATime' /\ PurgeIsCurrent' /\ PurgeStaysCapped'
  BY <1>1 DEF LoadInv, OneDump, OneAtATime, PurgeIsCurrent, PurgeStaysCapped
<1>3. \A d \in Docs : InFlight(d) => InFlight(d)'
  BY DEF InFlight, InBatch
<1> QED
  BY <1>2, <1>3, QuietPurge

\* A purge that is tried again starts from its marker.
LEMMA PurgeRestarts ==
    ASSUME LoadInv, BaseInv', UNCHANGED <<dumps, queue, row, edges, tx, batchMode>>, PurgeAgain, purge.pc # "idle"
    PROVE  LoadInv'
<1> DEFINE p == [NoPurge EXCEPT !.pc = "flush", !.dump = purge.dump]
<1>1. purge \in PurgeRecords
  BY DEF LoadInv, BaseInv
<1>2. p \in PurgeRecords /\ p.pc = "flush" /\ p.dump = purge.dump /\ p.gone = {} /\ p.del = {}
  BY <1>1, IdleTypes DEF NoPurge, PurgeRecords, PurgeStates
<1>3. purge' = p
  BY DEF PurgeAgain
<1>4. purge'.pc = "flush" /\ purge'.dump = purge.dump /\ purge'.gone = {} /\ purge'.del = {}
  BY <1>2, <1>3
<1>5. OneDump'
  BY <1>4 DEF LoadInv, OneDump
<1>6. OneAtATime' /\ PurgeIsCurrent' /\ PurgeStaysCapped'
  BY <1>4 DEF LoadInv, OneAtATime, PurgeIsCurrent, PurgeStaysCapped
<1>7. \A d \in Docs : InFlight(d) => InFlight(d)'
  BY DEF InFlight, InBatch
<1> QED
  BY <1>5, <1>6, <1>7, QuietPurge

\* The marker is the last of its dump: nothing is queued behind it.
LEMMA MarkerLoads == ASSUME LoadInv, TakeMarker PROVE LoadInv'
<1>0. /\ BaseInv /\ OneDump /\ queue \in Seq(Message) /\ queue # <<>> /\ purge.pc = "idle" /\ purge = NoPurge
      /\ Len(dumps) \in 0..MaxDumps
  BY BaseParts DEF LoadInv, OneDump, TakeMarker, Parts, Data
<1>1. 1 = Len(queue) /\ queue[1].doc = Marker /\ queue[1].dump = Len(dumps)
  <2>1. 1 \in DOMAIN queue /\ Head(queue) = queue[1]
    BY <1>0
  <2>2. Head(queue).doc = Marker
    BY DEF TakeMarker
  <2> QED
    BY <1>0, <2>1, <2>2 DEF OneDump
<1>2. /\ queue' = <<>> /\ UNCHANGED <<dumps, row, edges, tx, batchMode>>
      /\ purge' = [NoPurge EXCEPT !.pc = "flush", !.dump = Len(dumps)]
  <2>1. Head(queue) = queue[1] /\ Tail(queue) = <<>>
    <3>1. Head(queue) = queue[1] /\ Tail(queue) \in Seq(Message) /\ Len(Tail(queue)) = 0
      BY <1>0, <1>1
    <3>2. \A s \in Seq(Message) : Len(s) = 0 => s = <<>>
      OBVIOUS
    <3> QED
      BY <3>1, <3>2
  <2> QED
    BY <1>0, <1>1, <2>1 DEF TakeMarker
<1>3. /\ purge'.pc = "flush" /\ purge'.dump = Len(dumps) /\ purge'.gone = {} /\ purge'.del = {}
  BY <1>2 DEF NoPurge
<1>4. OneDump' /\ PurgeIsCurrent' /\ PurgeStaysCapped'
  BY <1>2, <1>3 DEF OneDump, PurgeIsCurrent, PurgeStaysCapped
<1>5. OneAtATime'
  BY <1>2, <1>3 DEF LoadInv, OneAtATime
<1>6. \A d \in Docs : InFlight(d) => InFlight(d)'
  <2>1. Marker \notin Docs
    BY DEF Marker
  <2>2. \A i \in DOMAIN queue : queue[i].doc \notin Docs
    BY <1>0, <1>1, <2>1
  <2> QED
    BY <1>2, <2>2 DEF InFlight, InBatch
<1>7. BaseInv'
  BY <1>0, PurgeBase
<1> QED
  BY <1>2, <1>4, <1>5, <1>6, <1>7, QuietPurge

\* Draining, counting, sweeping and deleting, and the ways back.
LEMMA PurgeLoads ==
    ASSUME LoadInv, Flush \/ CountRows \/ CountStale \/ SweepEdges \/ DeleteRows \/ PurgeFails
    PROVE  LoadInv'
<1>0. BaseInv /\ purge \in PurgeRecords /\ PurgeIsCurrent /\ batchMode \in BOOLEAN
  BY DEF LoadInv, BaseInv
<1>1. BaseInv'
  BY <1>0, PurgeBase
<1>2. ASSUME Flush PROVE LoadInv'
  <2> DEFINE p == [purge EXCEPT !.pc = "total"]
  <2>1. /\ p \in PurgeRecords /\ p.pc = "total" /\ p.dump = purge.dump /\ p.gone = purge.gone /\ p.del = purge.del
    BY <1>0 DEF PurgeRecords, PurgeStates
  <2>2. purge' = p /\ purge.pc = "flush" /\ UNCHANGED <<dumps, queue, row, edges, tx, batchMode>>
    BY <1>2 DEF Flush
  <2>3. batchMode => \A w \in Writers : tx[w].pc = "idle"
    BY <1>2 DEF Flush, Idle
  <2>4. purge.gone = {}
    BY <1>0, <2>2 DEF PurgeIsCurrent
  <2> HIDE DEF p
  <2> QED
    BY <1>1, <2>1, <2>2, <2>3, <2>4, PurgeGoesOn
<1>3. ASSUME CountRows PROVE LoadInv'
  <2>1. CASE Present = {}
    BY <1>1, <1>3, <2>1, PurgeGivesUp DEF CountRows
  <2>2. CASE Present # {}
    <3> DEFINE p == [purge EXCEPT !.pc = "stale", !.total = Cardinality(Present)]
    <3>1. p.pc = "stale" /\ p.dump = purge.dump /\ p.gone = purge.gone /\ p.del = purge.del /\ p.total = Cardinality(Present)
      BY <1>0 DEF PurgeRecords
    <3>2. purge' = p /\ purge.pc = "total" /\ UNCHANGED <<dumps, queue, row, edges, tx, batchMode>>
      BY <1>3, <2>2 DEF CountRows
    <3>3. purge.gone = {}
      BY <1>0, <3>2 DEF PurgeIsCurrent
    <3>4. p \in PurgeRecords
      BY <1>1, <3>2 DEF BaseInv
    <3> HIDE DEF p
    <3> QED
      BY <1>1, <3>1, <3>2, <3>3, <3>4, PurgeGoesOn
  <2> QED
    BY <2>1, <2>2
<1>4. ASSUME CountStale PROVE LoadInv'
  <2>1. CASE Refuses
    BY <1>1, <1>4, <2>1, PurgeGivesUp DEF CountStale
  <2>2. CASE ~Refuses
    <3> DEFINE p == [purge EXCEPT !.pc = "scoped"]
    <3>1. /\ p \in PurgeRecords /\ p.pc = "scoped" /\ p.dump = purge.dump /\ p.gone = purge.gone /\ p.del = purge.del
          /\ p.total = purge.total
      BY <1>0 DEF PurgeRecords, PurgeStates
    <3>2. purge' = p /\ purge.pc = "stale" /\ UNCHANGED <<dumps, queue, row, edges, tx, batchMode>>
      BY <1>4, <2>2 DEF CountStale
    <3>3. purge.gone = {}
      BY <1>0, <3>2 DEF PurgeIsCurrent
    <3>4. Cardinality(Stale) * CapDen < purge.total * CapNum
      <4>1. Cardinality(Stale) * CapDen \in Nat /\ purge.total * CapNum \in Nat
        BY <1>0, Counts
      <4> HIDE DEF p
      <4> QED
        BY <2>2, <4>1 DEF Refuses
    <3> HIDE DEF p
    <3> QED
      BY <1>1, <3>1, <3>2, <3>3, <3>4, PurgeGoesOn
  <2> QED
    BY <2>1, <2>2
<1>5. ASSUME NEW rel \in {"scoped", "credited_to"}, NEW q \in {"credited_to", "rows"}, Sweep(rel, q),
             (rel = "scoped" /\ q = "credited_to") \/ (rel = "credited_to" /\ q = "rows")
      PROVE  LoadInv'
  <2> DEFINE p == [purge EXCEPT !.pc = q, !.del = @ \cup Swept(rel)]
  <2>1. p.pc = q /\ p.dump = purge.dump /\ p.gone = purge.gone /\ p.del = purge.del \cup Swept(rel) /\ p.total = purge.total
    BY <1>0 DEF PurgeRecords
  <2>2. purge' = p /\ purge.pc = rel /\ UNCHANGED <<dumps, queue, row, edges, tx, batchMode>>
    BY <1>5 DEF Sweep, Swept
  <2>3. purge.gone = {}
    BY <1>0, <2>2 DEF PurgeIsCurrent
  <2>4. p \in PurgeRecords
    BY <1>1, <2>2 DEF BaseInv
  <2> HIDE DEF p
  <2> QED
    BY <1>1, <1>5, <2>1, <2>2, <2>3, <2>4, PurgeGoesOn
<1>6. ASSUME DeleteRows PROVE LoadInv'
  <2> DEFINE p == [purge EXCEPT !.pc = "commit", !.gone = Stale]
  <2>1. p.pc = "commit" /\ p.dump = purge.dump /\ p.gone = Stale /\ p.del = purge.del /\ p.total = purge.total
    BY <1>0 DEF PurgeRecords
  <2>2. purge' = p /\ purge.pc = "rows" /\ UNCHANGED <<dumps, queue, row, edges, tx, batchMode>>
    BY <1>6 DEF DeleteRows
  <2>3. p \in PurgeRecords
    BY <1>1, <2>2 DEF BaseInv
  <2> HIDE DEF p
  <2> QED
    BY <1>1, <2>1, <2>2, <2>3, PurgeGoesOn
<1>7. ASSUME PurgeFails PROVE LoadInv'
  BY <1>1, <1>7, PurgeRestarts DEF PurgeFails
<1> QED
  BY <1>2, <1>3, <1>4, <1>5, <1>6, <1>7 DEF SweepEdges

\* Either victim of a deadlock starts over.
LEMMA DeadlockLoads == ASSUME LoadInv, NEW w \in Writers, Deadlocked(w) PROVE LoadInv'
<1>1. BaseInv'
  BY DeadlockBase DEF LoadInv
<1>2. CASE Retried(w) /\ UNCHANGED purge
  <2> DEFINE t == [Idle EXCEPT !.pc = "begin", !.batch = tx[w].batch]
  <2>1. t \in TxRecords /\ t.pc = "begin" /\ t.batch = tx[w].batch /\ OfNewest(t) /\ Current(t)
    BY RestartIsCurrent
  <2>2. tx' = [tx EXCEPT ![w] = t]
    BY <1>2 DEF Retried
  <2> HIDE DEF t
  <2> QED
    BY <1>1, <1>2, <2>1, <2>2, QuietStep DEF Deadlocked
<1>3. CASE PurgeAgain /\ UNCHANGED tx
  BY <1>1, <1>3, PurgeRestarts DEF Deadlocked
<1> QED
  BY <1>2, <1>3 DEF Deadlocked

\* A commit leaves every document of the batch with the newest dump's content and stamp.
LEMMA CommittedRows ==
    ASSUME LoadInv, NEW w \in Writers, LinkAndCommit(w)
    PROVE  /\ \A d \in BatchDocs(tx[w]) :
                /\ row'[d] = [hash |-> Newest(d), stamp |-> Len(dumps)]
                /\ row'[d].hash = Newest(d) /\ row'[d].stamp = Len(dumps)
           /\ \A d \in Docs : d \notin BatchDocs(tx[w]) => row'[d] = row[d]
<1>0. /\ BaseInv /\ tx[w] \in TxRecords /\ Locks(tx[w]) /\ OfNewest(tx[w]) /\ Current(tx[w]) /\ Data /\ Sound(tx[w])
      /\ tx[w].pc = "link"
  BY WriterParts, BaseParts DEF LoadInv, WritersAreCurrent, Parts, LinkAndCommit
<1>1. tx[w].touched \cup tx[w].wrote = BatchDocs(tx[w]) /\ tx[w].stamp = Len(dumps)
  BY <1>0 DEF Current, OfNewest, NewContent, Data
<1>2. \A d \in BatchDocs(tx[w]) : Incoming(w, d) = Newest(d)
  BY IncomingIsNewest, BatchOperators
<1>3. \A d \in tx[w].touched \ tx[w].wrote : row[d].hash = Newest(d)
  BY <1>0, BatchOperators DEF Current, Data, NewContent
<1> SUFFICES ASSUME NEW d \in Docs
             PROVE  /\ d \in BatchDocs(tx[w]) =>
                         /\ row'[d] = [hash |-> Newest(d), stamp |-> Len(dumps)]
                         /\ row'[d].hash = Newest(d) /\ row'[d].stamp = Len(dumps)
                    /\ d \notin BatchDocs(tx[w]) => row'[d] = row[d]
  BY BatchOperators, Zenon
<1>4. row'[d] = IF d \in tx[w].wrote THEN [hash |-> Incoming(w, d), stamp |-> tx[w].stamp]
                ELSE IF d \in tx[w].touched THEN [row[d] EXCEPT !.stamp = tx[w].stamp]
                ELSE row[d]
  BY DEF LinkAndCommit
<1>5. row[d] \in [hash : Contents, stamp : 0..MaxDumps]
  BY <1>0 DEF Data
<1>6. CASE d \in tx[w].wrote
  BY <1>0, <1>1, <1>2, <1>4, <1>6
<1>7. CASE d \in tx[w].touched \ tx[w].wrote
  <2>1. [row[d] EXCEPT !.stamp = tx[w].stamp] = [hash |-> Newest(d), stamp |-> Len(dumps)]
    BY <1>1, <1>3, <1>5, <1>7
  <2> QED
    BY <1>0, <1>1, <1>4, <1>7, <2>1
<1>8. CASE d \notin tx[w].touched \cup tx[w].wrote
  BY <1>1, <1>4, <1>8
<1> QED
  BY <1>6, <1>7, <1>8

\* It replaces the edges of the documents that changed, and leaves the others alone.
LEMMA CommittedEdges ==
    ASSUME LoadInv, NEW w \in Writers, LinkAndCommit(w), batchMode
    PROVE  LET changed == NewContent(tx[w]) IN
           /\ changed \subseteq Docs /\ \A d \in changed : Newest(d) \in Payloads
           /\ \A e : e \in edges' <=>
                \/ e \in edges /\ ~(e[2] \in changed /\ e[1] \in Replaced(Newest(e[2])))
                \/ \E d \in changed : \E r \in Replaced(Newest(d)) \cup {"additive"} : e = <<r, d, Newest(d)>>
           /\ \A d \in Docs : d \notin changed => row'[d].hash = row[d].hash
           /\ \A d \in changed : row'[d].hash = Newest(d)
<1>0. Current(tx[w]) /\ tx[w].pc = "link"
  BY DEF LoadInv, WritersAreCurrent, LinkAndCommit
<1> DEFINE changed == NewContent(tx[w])
<1>1. changed \subseteq BatchDocs(tx[w]) /\ Changed(w) = changed
  BY BatchOperators DEF NewContent
<1>2. \A d \in changed : d \in Docs /\ Newest(d) \in Payloads /\ Incoming(w, d) = Newest(d)
  BY <1>1, BatchOperators, IncomingIsNewest
<1>3. tx[w].del = OldEdges(tx[w])
  BY <1>0 DEF Current
<1>4. \A e : e \in Linked(w) <=> \E d \in changed : e \in Asserted(d, Newest(d))
  BY <1>1, <1>2 DEF Linked
<1>5. \A d \in changed : \A e : e \in Asserted(d, Newest(d)) <=>
         \E r \in Replaced(Newest(d)) \cup {"additive"} : e = <<r, d, Newest(d)>>
  BY <1>2, AssertedType
<1>6. edges' = (edges \ tx[w].del) \cup Linked(w)
  BY DEF LinkAndCommit
<1>7. \A d \in Docs : d \notin changed => row'[d].hash = row[d].hash
  <2> SUFFICES ASSUME NEW d \in Docs, d \notin changed PROVE row'[d].hash = row[d].hash
    OBVIOUS
  <2>1. d \in BatchDocs(tx[w]) => row[d].hash = Newest(d)
    BY <1>0 DEF Current, NewContent
  <2> QED
    BY <2>1, CommittedRows
<1>8. \A d \in changed : row'[d].hash = Newest(d)
  BY <1>1, <1>2, CommittedRows
<1>9. \A e : e \in tx[w].del <=> e \in edges /\ e[2] \in changed /\ e[1] \in Replaced(Newest(e[2]))
  BY <1>3 DEF OldEdges
<1> HIDE DEF changed
<1>10. \A e : e \in edges' <=>
         \/ e \in edges /\ ~(e[2] \in changed /\ e[1] \in Replaced(Newest(e[2])))
         \/ \E d \in changed : \E r \in Replaced(Newest(d)) \cup {"additive"} : e = <<r, d, Newest(d)>>
  BY <1>4, <1>5, <1>6, <1>9
<1> QED
  BY <1>2, <1>7, <1>8, <1>10 DEF changed

\* Of one document: the edges are its own.
EdgesMatch(d) ==
    /\ EdgesOf("scoped", d) = {e \in Edges : e[1] = "scoped" /\ e[2] = d /\ e[3] = row[d].hash}
    /\ \A e, f \in EdgesOf("credited_to", d) : e = f
    /\ "credited_to" \in Replaced(row[d].hash) => <<"credited_to", d, row[d].hash>> \in edges
    /\ row[d] = NoRow => EdgesOf("credited_to", d) = {}

\* The edges of a document, as triples of edges.
LEMMA EdgeTriples == \A e \in Edges : e = <<e[1], e[2], e[3]>> /\ e[1] \in Relations /\ e[2] \in Docs /\ e[3] \in Payloads
  BY DEF Edges

LEMMA CommitMatches ==
    ASSUME LoadInv, NEW w \in Writers, LinkAndCommit(w), batchMode, BaseInv', NEW d \in Docs
    PROVE  EdgesMatch(d)'
<1> DEFINE changed == NewContent(tx[w])
<1>0. /\ changed \subseteq Docs /\ \A x \in changed : Newest(x) \in Payloads
      /\ \A e : e \in edges' <=>
                \/ e \in edges /\ ~(e[2] \in changed /\ e[1] \in Replaced(Newest(e[2])))
                \/ \E x \in changed : \E r \in Replaced(Newest(x)) \cup {"additive"} : e = <<r, x, Newest(x)>>
      /\ \A x \in Docs : x \notin changed => row'[x].hash = row[x].hash
      /\ \A x \in changed : row'[x].hash = Newest(x)
  BY CommittedEdges
<1>1. edges \subseteq Edges /\ edges' \subseteq Edges /\ row[d] \in [hash : Contents, stamp : 0..MaxDumps]
  BY BaseParts DEF LoadInv, Parts, Data
<1>2. EdgesMatch(d) /\ (row[d].hash = NoPayload => row[d] = NoRow)
  BY DEF LoadInv, EdgesMatchDocument, EdgesMatch, AbsentRows
<1> HIDE DEF changed
<1>3. CASE d \notin changed
  <2>1. \A e : e[2] = d => (e \in edges' <=> e \in edges)
    <3>1. ASSUME NEW e, NEW x \in changed, NEW r, e = <<r, x, Newest(x)>> PROVE e[2] # d
      BY <1>3, <3>1
    <3> QED
      BY <1>0, <1>3, <3>1
  <2>2. EdgesOf("scoped", d)' = EdgesOf("scoped", d) /\ EdgesOf("credited_to", d)' = EdgesOf("credited_to", d)
    BY <2>1 DEF EdgesOf
  <2>3. row'[d].hash = row[d].hash /\ (row'[d] = NoRow => row[d] = NoRow)
    BY <1>0, <1>2, <1>3 DEF NoRow
  <2>4. <<"credited_to", d, row[d].hash>> \in edges' <=> <<"credited_to", d, row[d].hash>> \in edges
    BY <2>1
  <2> QED
    BY <1>2, <2>2, <2>3, <2>4 DEF EdgesMatch
<1>4. CASE d \in changed
  <2> DEFINE p == Newest(d)
  <2>1. p \in Payloads /\ row'[d].hash = p /\ row'[d] # NoRow
    BY <1>0, <1>4 DEF NoRow
  <2> HIDE DEF p
  <2>2. \A rel \in Replaced(p) : \A e : e \in edges' /\ e[1] = rel /\ e[2] = d <=> e = <<rel, d, p>>
    BY <1>0, <1>4 DEF p
  <2>3. "scoped" \in Replaced(p)
    BY DEF Replaced
  <2>4. EdgesOf("scoped", d)' = {e \in Edges : e[1] = "scoped" /\ e[2] = d /\ e[3] = p}
    <3>1. \A e : e \in EdgesOf("scoped", d)' <=> e = <<"scoped", d, p>>
      BY <2>2, <2>3 DEF EdgesOf
    <3>2. <<"scoped", d, p>> \in Edges
      BY <2>1 DEF Edges, Relations
    <3>3. \A e \in Edges : e[1] = "scoped" /\ e[2] = d /\ e[3] = p <=> e = <<"scoped", d, p>>
      BY EdgeTriples
    <3> QED
      BY <3>1, <3>2, <3>3
  <2>5. CASE "credited_to" \in Replaced(p)
    BY <2>1, <2>2, <2>4, <2>5 DEF EdgesMatch, EdgesOf
  <2>6. CASE "credited_to" \notin Replaced(p)
    <3>1. \A e : e[1] = "credited_to" /\ e[2] = d => (e \in edges' => e \in edges)
      <4>1. ASSUME NEW e, e[1] = "credited_to", e[2] = d, NEW x \in changed,
                   NEW r \in Replaced(Newest(x)) \cup {"additive"}, e = <<r, x, Newest(x)>>
            PROVE  FALSE
        BY <2>6, <4>1 DEF p
      <4> QED
        BY <1>0, <4>1
    <3> QED
      BY <1>2, <2>1, <2>4, <2>6, <3>1 DEF EdgesMatch, EdgesOf
  <2> QED
    BY <2>5, <2>6
<1> QED
  BY <1>3, <1>4

\* A smaller set of rows is a smaller part of the table.
LEMMA SmallerShare ==
    ASSUME NEW S, NEW T, T \subseteq S, IsFiniteSet(S)
    PROVE  /\ Cardinality(T) \in Nat /\ Cardinality(S) \in Nat /\ Cardinality(T) <= Cardinality(S)
           /\ Cardinality(T) * CapDen <= Cardinality(S) * CapDen
<1>1. Cardinality(T) \in Nat /\ Cardinality(S) \in Nat /\ Cardinality(T) <= Cardinality(S)
  BY FS_Subset, FS_CardinalityType
<1>2. \A m, n, k \in Nat : m <= n => m * k <= n * k
  OBVIOUS
<1> QED
  BY <1>1, <1>2

\* The document is committed with its edges.
LEMMA CommitLoads == ASSUME LoadInv, NEW w \in Writers, LinkAndCommit(w) PROVE LoadInv'
<1> DEFINE t == [Idle EXCEPT !.pc = "settle", !.batch = tx[w].batch]
           B == BatchDocs(tx[w])
<1>0. /\ BaseInv /\ Data /\ tx[w].pc = "link" /\ OneDump /\ OneAtATime /\ PurgeIsCurrent /\ PurgeStaysCapped
      /\ Locks(tx[w]) /\ Current(tx[w]) /\ tx \in [Writers -> TxRecords] /\ Len(dumps) \in Nat
  BY WriterParts, BaseParts DEF LoadInv, WritersAreCurrent, Parts, LinkAndCommit, Data
<1>1. BaseInv'
  BY <1>0, WriteBase DEF Write
<1>2. tx' = [tx EXCEPT ![w] = t] /\ UNCHANGED <<dumps, queue, purge, batchMode, faults>>
  BY DEF LinkAndCommit, Step, Idle
<1>3. t \in TxRecords /\ t.pc = "settle" /\ t.batch = tx[w].batch /\ OfNewest(t) /\ Current(t)
  BY RestartIsCurrent
<1> HIDE DEF t
<1>4. \A x \in Writers : tx'[x] = IF x = w THEN t ELSE tx[x]
  BY <1>0, <1>2
<1>5. /\ B \subseteq Docs /\ \A d \in B : Newest(d) \in Payloads
      /\ \A d \in B : /\ row'[d] = [hash |-> Newest(d), stamp |-> Len(dumps)]
                      /\ row'[d].hash = Newest(d) /\ row'[d].stamp = Len(dumps)
      /\ \A d \in Docs : d \notin B => row'[d] = row[d]
  BY BatchOperators, CommittedRows
<1>6. tx[w].touched \cup tx[w].wrote = B
  BY <1>0 DEF Current, NewContent, Data
<1> HIDE DEF B
<1>7. batchMode => purge.pc \in {"idle", "flush"} /\ \A x \in Writers : x # w => tx[x].pc = "idle"
  BY <1>0 DEF OneAtATime
<1>8. OneDump'
  BY <1>0, <1>2 DEF OneDump
<1>9. OneAtATime'
  BY <1>0, <1>2, <1>3, <1>4, <1>7 DEF OneAtATime
<1>10. WritersAreCurrent'
  <2> SUFFICES ASSUME NEW x \in Writers PROVE OfNewest(tx[x])' /\ Current(tx[x])'
    BY DEF WritersAreCurrent
  <2>1. OfNewest(tx[x]) /\ Current(tx[x])
    BY DEF LoadInv, WritersAreCurrent
  <2>2. OfNewest(tx[x])'
    BY <1>2, <1>3, <1>4, <2>1 DEF OfNewest
  <2>3. CASE batchMode
    <3>1. tx'[x].pc \in {"idle", "settle"}
      BY <1>3, <1>4, <1>7, <2>3
    <3> QED
      BY <1>2, <2>2, <2>3, <3>1 DEF Current
  <2>4. CASE ~batchMode
    <3>1. Current(tx[x])'
      BY <1>2, <1>3, <1>4, <2>1, <2>4 DEF Current, BatchDocs
    <3> QED
      BY <2>2, <3>1
  <2> QED
    BY <2>3, <2>4
<1>11. PurgeIsCurrent'
  <2>1. \A d \in purge.gone : d \in Docs /\ d \notin B
    BY <1>0, <1>6 DEF Locks, Data, PurgeRecords
  <2>2. purge.pc = "commit" => \A d \in purge.gone : row'[d].stamp < purge.dump
    BY <1>0, <1>5, <2>1 DEF PurgeIsCurrent
  <2>3. batchMode => purge.pc # "credited_to" /\ purge.pc # "rows" /\ purge.pc # "commit"
    BY <1>7
  <2> QED
    BY <1>0, <1>2, <2>2, <2>3 DEF PurgeIsCurrent
<1>12. PurgeStaysCapped'
  <2>1. Present \subseteq Present' /\ IsFiniteSet(Present')
    <3>1. \A d \in B : row'[d] # NoRow
      <4>1. \A d \in B : row'[d].hash \in Payloads
        BY <1>5, Zenon
      <4>2. NoRow.hash \notin Payloads
        BY DEF NoRow
      <4> QED
        BY <4>1, <4>2
    <3>2. Present \subseteq Present'
      BY <1>5, <3>1 DEF Present
    <3>3. Present' \subseteq Docs
      BY DEF Present
    <3> QED
      BY <3>2, <3>3, FS_Subset
  <2>2. purge.pc # "idle" => Stale' \subseteq Stale
    <3> SUFFICES ASSUME purge.pc # "idle", NEW d \in Stale' PROVE d \in Stale
      OBVIOUS
    <3>1. d \in Docs /\ row'[d] # NoRow /\ row'[d].stamp < Len(dumps)
      BY <1>0, <1>2 DEF OneDump, Stale, Present
    <3>2. d \notin B
      <4>1. d \in B => row'[d].stamp = Len(dumps)
        BY <1>5, Zenon
      <4> QED
        BY <1>0, <3>1, <4>1
    <3> QED
      BY <1>0, <1>5, <3>1, <3>2 DEF OneDump, Stale, Present
  <2>3. Cardinality(Present) <= Cardinality(Present') /\ Cardinality(Present) \in Nat /\ Cardinality(Present') \in Nat
    BY <2>1, SmallerShare
  <2>4. purge.pc # "idle" => Cardinality(Stale') * CapDen <= Cardinality(Stale) * CapDen
    BY <1>0, <2>2, Counts, SmallerShare
  <2>5. /\ purge.total \in Nat /\ Cardinality(Stale) * CapDen \in Nat /\ purge.total * CapNum \in Nat
        /\ Cardinality(Stale') * CapDen \in Nat
    <3>1. Cardinality(Stale') \in Nat /\ Cardinality(Stale) \in Nat /\ purge.total \in Nat
      <4>1. Stale' \subseteq Docs
        BY DEF Stale, Present
      <4> QED
        BY <1>0, <4>1, Counts, FS_Subset, FS_CardinalityType
    <3> QED
      BY <3>1
  <2>6. purge.pc \in {"stale", "scoped", "credited_to", "rows", "commit"} => purge.total <= Cardinality(Present')
    BY <1>0, <2>3, <2>5 DEF PurgeStaysCapped
  <2>7. purge.pc \in {"scoped", "credited_to", "rows"} => Cardinality(Stale') * CapDen < purge.total * CapNum
    BY <1>0, <2>4, <2>5 DEF PurgeStaysCapped
  <2> QED
    BY <1>0, <1>2, <2>6, <2>7 DEF PurgeStaysCapped
<1>13. AbsentRows'
  BY <1>5 DEF LoadInv, AbsentRows
<1>14. DumpIsOnItsWay'
  <2> SUFFICES ASSUME dumps # <<>>, NEW d \in Docs, Newest(d) # NoPayload
               PROVE  InFlight(d)' \/ row'[d] = [hash |-> Newest(d), stamp |-> Len(dumps)]
    BY <1>2 DEF DumpIsOnItsWay, Newest
  <2>1. CASE d \in B
    BY <1>5, <2>1
  <2>2. CASE d \notin B
    <3>1. InFlight(d) => InFlight(d)'
      BY <1>2, <1>4, <2>2 DEF InFlight, InBatch, B, BatchDocs
    <3>2. InFlight(d) \/ row[d] = [hash |-> Newest(d), stamp |-> Len(dumps)]
      BY DEF LoadInv, DumpIsOnItsWay
    <3>3. row'[d] = row[d]
      BY <1>5, <2>2
    <3> QED
      BY <3>1, <3>2, <3>3
  <2> QED
    BY <2>1, <2>2
<1>15. EdgesMatchDocument'
  <2>1. batchMode => \A d \in Docs : EdgesMatch(d)'
    BY <1>1, CommitMatches
  <2> QED
    BY <1>2, <2>1 DEF EdgesMatchDocument, EdgesMatch
<1> QED
  BY <1>1, <1>8, <1>9, <1>10, <1>11, <1>12, <1>13, <1>14, <1>15 DEF LoadInv

\* The purge deletes rows that no document of its dump refreshed, and in batch mode their edges.
LEMMA PurgeCommitLoads == ASSUME LoadInv, PurgeCommits PROVE LoadInv'
<1>0. /\ BaseInv /\ Data /\ purge.pc = "commit" /\ OneDump /\ OneAtATime /\ PurgeIsCurrent /\ Len(dumps) \in Nat
      /\ purge.gone \subseteq Docs
  BY BaseParts DEF LoadInv, Parts, PurgeCommits, Data, PurgeRecords
<1>1. BaseInv'
  BY <1>0, PurgeBase
<1>2. /\ purge' = NoPurge /\ UNCHANGED <<dumps, queue, tx, batchMode, faults>> /\ edges' = edges \ purge.del
      /\ \A d \in Docs : row'[d] = IF d \in purge.gone THEN NoRow ELSE row[d]
  BY DEF PurgeCommits
<1>3. NoPurge.pc = "idle" /\ NoPurge.gone = {}
  BY DEF NoPurge
<1>4. batchMode => \A x \in Writers : tx[x].pc = "idle"
  BY <1>0 DEF OneAtATime
<1>5. OneDump' /\ OneAtATime' /\ PurgeIsCurrent' /\ PurgeStaysCapped'
  BY <1>0, <1>2, <1>3 DEF OneDump, OneAtATime, PurgeIsCurrent, PurgeStaysCapped
<1>6. WritersAreCurrent'
  <2> SUFFICES ASSUME NEW x \in Writers PROVE OfNewest(tx[x])' /\ Current(tx[x])'
    BY DEF WritersAreCurrent
  <2>1. OfNewest(tx[x]) /\ Current(tx[x])
    BY DEF LoadInv, WritersAreCurrent
  <2>2. OfNewest(tx[x])'
    BY <1>2, <2>1 DEF OfNewest
  <2>3. Current(tx[x])'
    BY <1>2, <1>4, <2>1 DEF Current, BatchDocs
  <2> QED
    BY <2>2, <2>3
<1>7. AbsentRows'
  BY <1>2 DEF LoadInv, AbsentRows
<1>8. DumpIsOnItsWay'
  <2> SUFFICES ASSUME dumps # <<>>, NEW d \in Docs, Newest(d) # NoPayload
               PROVE  InFlight(d)' \/ row'[d] = [hash |-> Newest(d), stamp |-> Len(dumps)]
    BY <1>2 DEF DumpIsOnItsWay, Newest
  <2>1. InFlight(d) => InFlight(d)'
    BY <1>2 DEF InFlight, InBatch
  <2>2. InFlight(d) \/ row[d] = [hash |-> Newest(d), stamp |-> Len(dumps)]
    BY DEF LoadInv, DumpIsOnItsWay
  <2>3. row[d] = [hash |-> Newest(d), stamp |-> Len(dumps)] => d \notin purge.gone
    <3>1. row[d] = [hash |-> Newest(d), stamp |-> Len(dumps)] => ~(row[d].stamp < Len(dumps))
      BY <1>0
    <3> QED
      BY <1>0, <3>1 DEF PurgeIsCurrent, OneDump
  <2> QED
    BY <1>2, <2>1, <2>2, <2>3
<1>9. EdgesMatchDocument'
  <2> SUFFICES ASSUME batchMode, NEW d \in Docs PROVE EdgesMatch(d)'
    BY <1>2 DEF EdgesMatchDocument, EdgesMatch
  <2>1. EdgesMatch(d) /\ purge.gone = Stale /\ purge.del = Swept("scoped") \cup Swept("credited_to")
    BY <1>0 DEF LoadInv, EdgesMatchDocument, EdgesMatch, PurgeIsCurrent
  <2>2. \A e : e \in purge.del <=> e \in edges /\ e[2] \in Stale /\ e[1] \in {"scoped", "credited_to"}
    BY <2>1 DEF Swept, EdgesOf
  <2>3. CASE d \in Stale
    <3>1. EdgesOf("scoped", d)' = {} /\ EdgesOf("credited_to", d)' = {}
      BY <1>2, <2>2, <2>3 DEF EdgesOf
    <3>2. row'[d].hash = NoPayload
      BY <1>2, <2>1, <2>3 DEF NoRow
    <3>3. {e \in Edges : e[1] = "scoped" /\ e[2] = d /\ e[3] = NoPayload} = {}
      BY EdgeTriples
    <3>4. "credited_to" \notin Replaced(NoPayload)
      BY DEF Replaced
    <3> QED
      BY <3>1, <3>2, <3>3, <3>4 DEF EdgesMatch
  <2>4. CASE d \notin Stale
    <3>1. EdgesOf("scoped", d)' = EdgesOf("scoped", d) /\ EdgesOf("credited_to", d)' = EdgesOf("credited_to", d)
      BY <1>2, <2>2, <2>4 DEF EdgesOf
    <3>2. row'[d] = row[d]
      BY <1>2, <2>1, <2>4
    <3>3. <<"credited_to", d, row[d].hash>> \in edges => <<"credited_to", d, row[d].hash>> \in edges'
      BY <1>2, <2>2, <2>4
    <3> QED
      BY <2>1, <3>1, <3>2, <3>3 DEF EdgesMatch
  <2> QED
    BY <2>3, <2>4
<1> QED
  BY <1>1, <1>5, <1>6, <1>7, <1>8, <1>9 DEF LoadInv

\* The next dump finds everything settled, and puts all it holds in the queue.
LEMMA DumpLoads == ASSUME Overlap = FALSE, LoadInv, StartDump PROVE LoadInv'
<1>0. /\ BaseInv /\ queue = <<>> /\ purge = NoPurge /\ \A w \in Writers : tx[w] = Idle
  BY DEF LoadInv, StartDump, Settled
<1>1. BaseInv'
  BY <1>0, DumpBase
<1>2. UNCHANGED <<row, edges, tx, purge, batchMode, faults>>
  BY <1>0, NewDump
<1>3. NoPurge.pc = "idle" /\ NoPurge.gone = {} /\ Idle.pc = "idle" /\ Idle.batch = <<>> /\ Idle.touched = {}
  BY DEF NoPurge, Idle
<1>4. OneDump'
  <2>1. \A i \in DOMAIN queue' : queue'[i].dump = Len(dumps') /\ (queue'[i].doc = Marker <=> i = Len(queue'))
    <3>1. \A i \in DOMAIN queue' : i \notin DOMAIN queue =>
                queue'[i].dump = Len(dumps') /\ (queue'[i].doc = Marker <=> i = Len(queue'))
      BY <1>0, NewDump
    <3>2. DOMAIN queue = {}
      BY <1>0
    <3> QED
      BY <3>1, <3>2
  <2> QED
    BY <1>0, <1>2, <1>3, <2>1 DEF OneDump
<1>5. OneAtATime' /\ PurgeIsCurrent' /\ PurgeStaysCapped'
  BY <1>0, <1>2, <1>3 DEF OneAtATime, PurgeIsCurrent, PurgeStaysCapped
<1>6. WritersAreCurrent'
  BY <1>0, <1>2, <1>3 DEF WritersAreCurrent, OfNewest, Current
<1>7. AbsentRows' /\ EdgesMatchDocument'
  BY <1>2 DEF LoadInv, AbsentRows, EdgesMatchDocument, EdgesOf
<1>8. DumpIsOnItsWay'
  <2>1. \A d \in Docs : dumps'[Len(dumps')][d] # NoPayload => \E i \in DOMAIN queue' : queue'[i].doc = d
    BY <1>0, NewDump
  <2> QED
    BY <2>1 DEF DumpIsOnItsWay, InFlight, Newest
<1> QED
  BY <1>1, <1>4, <1>5, <1>6, <1>7, <1>8 DEF LoadInv

\* A table that an earlier load left in order.
LEMMA InitLoads == Init => LoadInv
<1> SUFFICES ASSUME Init PROVE LoadInv
  OBVIOUS
<1>0. BaseInv
  BY InitBase
<1>1. PICK have \in [Docs -> Contents] :
         /\ row = [d \in Docs |-> [hash |-> have[d], stamp |-> 0]]
         /\ edges = UNION {Asserted(d, have[d]) : d \in {d \in Docs : have[d] # NoPayload}}
  BY DEF Init, Contents
<1>2. NoPurge.pc = "idle" /\ NoPurge.gone = {} /\ Idle.pc = "idle" /\ Idle.batch = <<>> /\ Idle.touched = {}
  BY DEF NoPurge, Idle
<1>3. OneDump /\ OneAtATime /\ PurgeIsCurrent /\ PurgeStaysCapped
  BY <1>2 DEF Init, OneDump, OneAtATime, PurgeIsCurrent, PurgeStaysCapped
<1>4. WritersAreCurrent
  BY <1>2 DEF Init, WritersAreCurrent, OfNewest, Current
<1>5. AbsentRows /\ DumpIsOnItsWay
  BY <1>1 DEF Init, AbsentRows, NoRow, DumpIsOnItsWay
<1>6. EdgesMatchDocument
  <2> SUFFICES ASSUME NEW d \in Docs PROVE EdgesMatch(d)
    BY DEF EdgesMatchDocument, EdgesMatch
  <2>1. row[d].hash = have[d] /\ have[d] \in Contents
    BY <1>1
  <2>2. \A e : e \in edges <=>
          \E x \in Docs : have[x] \in Payloads /\ \E r \in Replaced(have[x]) \cup {"additive"} : e = <<r, x, have[x]>>
    BY <1>1, AssertedType DEF Contents
  <2>3. CASE have[d] = NoPayload
    <3>1. EdgesOf("scoped", d) = {} /\ EdgesOf("credited_to", d) = {}
      <4>1. ASSUME NEW e \in edges, e[2] = d PROVE FALSE
        BY <2>2, <2>3, <4>1
      <4> QED
        BY <4>1 DEF EdgesOf
    <3>2. {e \in Edges : e[1] = "scoped" /\ e[2] = d /\ e[3] = NoPayload} = {}
      BY EdgeTriples
    <3>3. "credited_to" \notin Replaced(NoPayload)
      BY DEF Replaced
    <3> QED
      BY <2>1, <2>3, <3>1, <3>2, <3>3 DEF EdgesMatch
  <2>4. CASE have[d] \in Payloads
    <3> DEFINE p == have[d]
    <3>1. \A rel \in {"scoped", "credited_to"} : \A e : e \in EdgesOf(rel, d) <=> rel \in Replaced(p) /\ e = <<rel, d, p>>
      BY <2>2, <2>4 DEF EdgesOf
    <3>2. row[d] # NoRow
      BY <2>1, <2>4 DEF NoRow
    <3>3. "scoped" \in Replaced(p)
      BY DEF Replaced
    <3>4. <<"scoped", d, p>> \in Edges
      BY <2>4 DEF Edges, Relations
    <3>5. \A e \in Edges : e[1] = "scoped" /\ e[2] = d /\ e[3] = p <=> e = <<"scoped", d, p>>
      BY EdgeTriples
    <3> HIDE DEF p
    <3>6. EdgesOf("scoped", d) = {e \in Edges : e[1] = "scoped" /\ e[2] = d /\ e[3] = p}
      BY <3>1, <3>3, <3>4, <3>5
    <3>7. /\ \A e, f \in EdgesOf("credited_to", d) : e = f
          /\ "credited_to" \in Replaced(p) => <<"credited_to", d, p>> \in edges
      BY <3>1 DEF EdgesOf
    <3> QED
      BY <2>1, <3>2, <3>6, <3>7 DEF EdgesMatch, p
  <2> QED
    BY <2>1, <2>3, <2>4 DEF Contents
<1> QED
  BY <1>0, <1>3, <1>4, <1>5, <1>6 DEF LoadInv

\* LoadInv is inductive.
LEMMA LoadStep == ASSUME Overlap = FALSE PROVE LoadInv /\ [Next]_vars => LoadInv'
<1> SUFFICES ASSUME LoadInv, [Next]_vars PROVE LoadInv'
  OBVIOUS
<1>1. CASE UNCHANGED vars
  <2>1. BaseInv'
    BY BaseStep DEF LoadInv
  <2>2. UNCHANGED <<dumps, queue, row, edges, tx, purge, batchMode>>
    BY <1>1 DEF vars
  <2>3. OneDump' /\ OneAtATime' /\ PurgeIsCurrent' /\ PurgeStaysCapped'
    BY <2>2 DEF LoadInv, OneDump, OneAtATime, PurgeIsCurrent, PurgeStaysCapped, Stale, Present, Swept, EdgesOf
  <2>4. \A d \in Docs : InFlight(d) => InFlight(d)'
    BY <2>2 DEF InFlight, InBatch
  <2> QED
    BY <2>1, <2>2, <2>3, <2>4, QuietPurge
<1>2. CASE Next
  <2>1. ASSUME NEW w \in Writers, Take(w) \/ Write(w) \/ WriteFails(w) \/ Redelivered(w) \/ Deadlocked(w)
        PROVE  LoadInv'
    BY <2>1, TakeLoads, QuietWrites, CommitLoads, DeadlockLoads DEF Write
  <2> QED
    BY <1>2, <2>1, DumpLoads, MarkerLoads, PurgeLoads, PurgeCommitLoads DEF Next
<1> QED
  BY <1>1, <1>2

-----------------------------------------------------------------------------
(* Theorems                                                                *)

\* When each dump is settled before the next starts, queue, transactions and purge are of one
\* dump, in batch mode one at a time, and no record of it is lost on its way to the table.
THEOREM LoadInvariant == ASSUME Overlap = FALSE PROVE Spec => []LoadInv
<1>1. Init => LoadInv
  BY InitLoads
<1>2. LoadInv /\ [Next]_vars => LoadInv'
  BY LoadStep
<1> QED
  BY <1>1, <1>2, PTL DEF Spec

\* A document and its edges change together: whatever a batch writes, retries or gets again, and
\* whatever is purged or aborted, the committed edges are those of the committed documents.
THEOREM EdgesFollowDocuments == ASSUME Overlap = FALSE PROVE Spec => []EdgesMatchDocument
<1>1. LoadInv => EdgesMatchDocument
  BY DEF LoadInv
<1> QED
  BY <1>1, LoadInvariant, PTL

\* A settled dump is loaded: every document of it is in the table with its content.
THEOREM DumpsAreLoaded == ASSUME Overlap = FALSE PROVE Spec => []DumpIsLoaded
<1>1. LoadInv => DumpIsLoaded
  <2> SUFFICES ASSUME LoadInv, Settled, dumps # <<>>, NEW d \in Docs, Newest(d) # NoPayload
               PROVE  row[d].hash = Newest(d)
    BY DEF DumpIsLoaded, Newest
  <2>1. InFlight(d) \/ row[d] = [hash |-> Newest(d), stamp |-> Len(dumps)]
    BY DEF LoadInv, DumpIsOnItsWay
  <2>2. ~InFlight(d)
    BY DEF Settled, InFlight, InBatch, Idle
  <2> QED
    BY <2>1, <2>2
<1> QED
  BY <1>1, LoadInvariant, PTL

\* No purge deletes the cap's share of the table, although rows are counted, stale rows are
\* counted and rows are deleted at three moments.
THEOREM PurgesAreCapped == ASSUME Overlap = FALSE PROVE Spec => PurgeIsCapped
<1>1. LoadInv /\ [Next]_vars =>
         [PurgeCommits => Cardinality(purge.gone) * CapDen < Cardinality(Present) * CapNum]_vars
  <2> SUFFICES ASSUME LoadInv, PurgeCommits
               PROVE  Cardinality(purge.gone) * CapDen < Cardinality(Present) * CapNum
    OBVIOUS
  <2>1. purge.total <= Cardinality(Present) /\ Cardinality(purge.gone) * CapDen < purge.total * CapNum
    BY DEF LoadInv, PurgeStaysCapped, PurgeCommits
  <2>2. purge.total \in Nat /\ Cardinality(Present) \in Nat /\ Cardinality(purge.gone) \in Nat
    <3>1. purge.gone \subseteq Docs
      BY DEF LoadInv, BaseInv, PurgeRecords
    <3> QED
      BY <3>1, Counts, FS_Subset, FS_CardinalityType DEF LoadInv
  <2>3. \A m, n, k \in Nat : m <= n => m * k <= n * k
    OBVIOUS
  <2>4. purge.total * CapNum <= Cardinality(Present) * CapNum
    BY <2>1, <2>2, <2>3
  <2> QED
    BY <2>1, <2>2, <2>4
<1> QED
  BY <1>1, LoadInvariant, PTL DEF Spec, PurgeIsCapped
=============================================================================
