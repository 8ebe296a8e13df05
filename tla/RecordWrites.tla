---------------------------- MODULE RecordWrites ----------------------------
(***************************************************************************)
(* One entity table of the catalog and the graph edges derived from it:    *)
(* the transactions that write records (PostgreSQLBatchWriter in batch     *)
(* mode, PostgreSQLRecordPersistence.persist_record otherwise) and the     *)
(* stale-row purge that extraction_complete runs beside them.              *)
(*                                                                         *)
(* PostgreSQL runs them at READ COMMITTED: a statement reads what is       *)
(* committed when it starts and its own transaction's writes, waits for    *)
(* rows another open transaction has written, and then sees their new      *)
(* version.  A transaction's writes are kept beside it until it commits;   *)
(* the rows it has written are the rows it locks.                          *)
(*                                                                         *)
(* A payload stands for its sha256.  Time is the number of the newest      *)
(* extraction, as in PurgeSafety: NOW() is the number when the transaction *)
(* began, started_at the extraction's own.                                 *)
(***************************************************************************)
EXTENDS Naturals, Sequences, FiniteSets

CONSTANTS
    Docs,           \* the data ids of this type
    Payloads,       \* the contents a document can have
    WithCompanies,  \* payloads carrying a canonical companies block
    NoPayload,      \* the content of a document that a dump, or the table, lacks
    Writers,        \* transactions that may write records at once
    BatchModes,     \* the settings of POSTGRES_BATCH_MODE a behaviour may run under
    BatchSize,      \* records one flush may write
    Overlap,        \* whether the next dump may start before the last one is settled
    MaxDumps,       \* bound on extractions
    MaxFaults,      \* bound on failed statements and lost acks
    CapNum, CapDen  \* PURGE_MAX_DELETE_FRACTION

ASSUME PayloadsAssumption == WithCompanies \subseteq Payloads /\ NoPayload \notin Payloads
ASSUME DocsAssumption == IsFiniteSet(Docs) /\ "extraction_complete" \notin Docs
ASSUME BoundsAssumption ==
    /\ {BatchSize, MaxDumps, MaxFaults, CapNum} \subseteq Nat /\ CapDen \in Nat \ {0}
    /\ BatchModes \subseteq BOOLEAN /\ Overlap \in BOOLEAN

VARIABLES
    dumps,    \* what each extraction so far holds, in order
    queue,    \* the type's queue: records and markers not yet delivered
    row,      \* the committed entity rows: content and updated_at
    edges,    \* the committed graph edges: relation, document, the payload that asserts them
    tx,       \* the writers' transactions
    purge,    \* the extraction_complete handler and its purge
    batchMode, \* BATCH_MODE, read from the environment at startup
    faults

vars == <<dumps, queue, row, edges, tx, purge, batchMode, faults>>

Marker == "extraction_complete"
Message == [dump : 1..MaxDumps, doc : Docs \cup {Marker}]

\* How the relations of a document are written: replaced with the document
\* (by_artist, in_genre, ...), replaced only by a payload that has a companies
\* block (credited_to), or only ever added to (member_of, same_as).
Relations == {"scoped", "credited_to", "additive"}
Edges == Relations \X Docs \X Payloads

NoRow == [hash |-> NoPayload, stamp |-> 0]
Rows == [hash : Payloads, stamp : 0..MaxDumps] \cup {NoRow}

Idle == [pc |-> "idle", batch |-> <<>>, stamp |-> 0, prior |-> [d \in Docs |-> NoPayload],
         touched |-> {}, wrote |-> {}, del |-> {}]
NoPurge == [pc |-> "idle", dump |-> 0, total |-> 0, gone |-> {}, del |-> {}]

-----------------------------------------------------------------------------
(* What one document asserts: derive_document, derive_release and siblings *)

Replaced(p) == {"scoped"} \cup (IF p \in WithCompanies THEN {"credited_to"} ELSE {})
Asserted(d, p) == (Replaced(p) \cup {"additive"}) \X {d} \X {p}

EdgesOf(rel, d) == {e \in edges : e[1] = rel /\ e[2] = d}

Present == {d \in Docs : row[d] # NoRow}
Content(m) == dumps[m.dump][m.doc]

Init ==
    /\ dumps = <<>>
    /\ queue = <<>>
    /\ \E have \in [Docs -> Payloads \cup {NoPayload}] :
         /\ row = [d \in Docs |-> [hash |-> have[d], stamp |-> 0]]
         /\ edges = UNION {Asserted(d, have[d]) : d \in {d \in Docs : have[d] # NoPayload}}
    /\ tx = [w \in Writers |-> Idle]
    /\ purge = NoPurge
    /\ batchMode \in BatchModes
    /\ faults = 0

Settled == queue = <<>> /\ purge = NoPurge /\ \A w \in Writers : tx[w] = Idle

\* The extractor publishes a dump's records and then the type's extraction_complete.
StartDump ==
    /\ Len(dumps) < MaxDumps
    /\ Overlap \/ Settled
    /\ \E have \in [Docs -> Payloads \cup {NoPayload}] :
         LET n == Len(dumps) + 1
             held == {d \in Docs : have[d] # NoPayload}
         IN  \E sent \in [1..Cardinality(held) -> held] :
               /\ {sent[i] : i \in DOMAIN sent} = held
               /\ dumps' = Append(dumps, have)
               /\ queue' = Append(queue \o [i \in DOMAIN sent |-> [dump |-> n, doc |-> sent[i]]],
                                  [dump |-> n, doc |-> Marker])
    /\ UNCHANGED <<row, edges, tx, purge, batchMode, faults>>

-----------------------------------------------------------------------------
(* The transaction of one flush, or of one record *)

Step(w, pc, changes) == tx' = [tx EXCEPT ![w] = [changes EXCEPT !.pc = pc]]

Take(w) ==
    /\ tx[w].pc = "idle"
    /\ batchMode => \A x \in Writers : tx[x] = Idle    \* one flush of a type at a time
    /\ \E n \in 1..(IF batchMode THEN BatchSize ELSE 1) :
         /\ n <= Len(queue)
         /\ \A i \in 1..n : queue[i].doc # Marker
         /\ Step(w, "begin", [tx[w] EXCEPT !.batch = SubSeq(queue, 1, n)])
         /\ queue' = SubSeq(queue, n + 1, Len(queue))
    /\ UNCHANGED <<dumps, row, edges, purge, batchMode, faults>>

\* One write per document, the latest delivery of it.
InBatch(w) == {tx[w].batch[i].doc : i \in DOMAIN tx[w].batch}
Incoming(w, d) ==
    LET b == tx[w].batch
        last == CHOOSE i \in DOMAIN b : b[i].doc = d /\ \A j \in DOMAIN b : b[j].doc = d => j <= i
    IN  Content(b[last])

Changed(w) == {d \in InBatch(w) : tx[w].prior[d] # Incoming(w, d)}

RowFree(w, d) ==
    /\ \A x \in Writers \ {w} : d \notin tx[x].touched \cup tx[x].wrote
    /\ d \notin purge.gone

\* The transaction begins and reads the hashes it compares with: a SELECT of
\* its own in batch mode, the prior CTE of the upsert otherwise.
Read(w) ==
    /\ tx[w].pc = "begin"
    /\ Step(w, IF batchMode THEN "refresh" ELSE "upsert",
            [tx[w] EXCEPT !.stamp = Len(dumps), !.prior = [d \in Docs |-> row[d].hash]])
    /\ UNCHANGED <<dumps, queue, row, edges, purge, batchMode, faults>>

\* Mutant: an unchanged document's updated_at is not refreshed.
BrokenRefresh(w) ==
    /\ tx[w].pc = "refresh"
    /\ Step(w, "upsert", tx[w])
    /\ UNCHANGED <<dumps, queue, row, edges, purge, batchMode, faults>>

\* The UPDATEs of hash-unchanged rows: updated_at, and the media and identity
\* backfills. A row that is gone by now is not one of them any more.
Refresh(w) ==
    /\ tx[w].pc = "refresh"
    /\ \A d \in InBatch(w) \ Changed(w) : RowFree(w, d)
    /\ Step(w, "upsert", [tx[w] EXCEPT !.touched = (InBatch(w) \ Changed(w)) \cap Present])
    /\ UNCHANGED <<dumps, queue, row, edges, purge, batchMode, faults>>

\* Mutant: the single record, too, skips a document whose hash did not change.
BrokenUpserted(w) == Changed(w)

\* The batch upserts the changed documents, the single record always upserts.
Upserted(w) == IF batchMode THEN Changed(w) ELSE InBatch(w)

\* Mutant: autocommit, so the row and its new hash are durable before the edges.
BrokenUpsert(w) ==
    /\ tx[w].pc = "upsert"
    /\ \A d \in Upserted(w) : RowFree(w, d)
    /\ Step(w, "unlink", tx[w])
    /\ row' = [d \in Docs |-> IF d \in Upserted(w) THEN [hash |-> Incoming(w, d), stamp |-> tx[w].stamp] ELSE row[d]]
    /\ UNCHANGED <<dumps, queue, edges, purge, batchMode, faults>>

Upsert(w) ==
    /\ tx[w].pc = "upsert"
    /\ \A d \in Upserted(w) : RowFree(w, d)
    /\ Step(w, "unlink", [tx[w] EXCEPT !.wrote = Upserted(w)])
    /\ UNCHANGED <<dumps, queue, row, edges, purge, batchMode, faults>>

\* write_document_graph: the document-scoped deletes of the changed documents.
Unlinked(w) == {e \in edges : e[2] \in Changed(w) /\ e[1] \in Replaced(Incoming(w, e[2]))}

Unlink(w) ==
    /\ tx[w].pc = "unlink"
    /\ Unlinked(w) \cap purge.del = {}
    /\ Step(w, "link", [tx[w] EXCEPT !.del = Unlinked(w)])
    /\ UNCHANGED <<dumps, queue, row, edges, purge, batchMode, faults>>

Linked(w) == UNION {Asserted(d, Incoming(w, d)) : d \in Changed(w)}

\* The edge inserts, and the commit of the document with its edges.
LinkAndCommit(w) ==
    /\ tx[w].pc = "link"
    /\ row' = [d \in Docs |->
         IF d \in tx[w].wrote THEN [hash |-> Incoming(w, d), stamp |-> tx[w].stamp]
         ELSE IF d \in tx[w].touched THEN [row[d] EXCEPT !.stamp = tx[w].stamp]
         ELSE row[d]]
    /\ edges' = (edges \ tx[w].del) \cup Linked(w)
    /\ Step(w, "settle", [Idle EXCEPT !.batch = tx[w].batch])
    /\ UNCHANGED <<dumps, queue, purge, batchMode, faults>>

Ack(w) ==
    /\ tx[w].pc = "settle"
    /\ tx' = [tx EXCEPT ![w] = Idle]
    /\ UNCHANGED <<dumps, queue, row, edges, purge, batchMode, faults>>

\* Mutant: the next try goes on in the transaction that failed, which is not rolled back.
BrokenRetried(w) == tx' = [tx EXCEPT ![w] = [tx[w] EXCEPT !.pc = "begin"]]

\* What the transaction did is rolled back and its locks are released; the same deliveries are
\* written again by a new one.
Retried(w) == tx' = [tx EXCEPT ![w] = [Idle EXCEPT !.pc = "begin", !.batch = tx[w].batch]]

\* A failed statement rolls the transaction back; the deliveries are tried again.
WriteFails(w) ==
    /\ tx[w].pc \in {"refresh", "upsert", "unlink", "link"}
    /\ faults < MaxFaults /\ faults' = faults + 1
    /\ Retried(w)
    /\ UNCHANGED <<dumps, queue, row, edges, purge, batchMode>>

\* The connection is lost between commit and ack: the same deliveries again.
Redelivered(w) ==
    /\ tx[w].pc = "settle"
    /\ faults < MaxFaults /\ faults' = faults + 1
    /\ Retried(w)
    /\ UNCHANGED <<dumps, queue, row, edges, purge, batchMode>>

-----------------------------------------------------------------------------
(* extraction_complete: drain (batch mode only) and purge *)

TakeMarker ==
    /\ purge.pc = "idle"
    /\ queue # <<>> /\ Head(queue).doc = Marker
    /\ purge' = [purge EXCEPT !.pc = "flush", !.dump = Head(queue).dump]
    /\ queue' = Tail(queue)
    /\ UNCHANGED <<dumps, row, edges, tx, batchMode, faults>>

Stale == {d \in Present : row[d].stamp < purge.dump}

Flush ==
    /\ purge.pc = "flush"
    /\ batchMode => \A w \in Writers : tx[w] = Idle
    /\ purge' = [purge EXCEPT !.pc = "total"]
    /\ UNCHANGED <<dumps, queue, row, edges, tx, batchMode, faults>>

\* The table is counted by one statement, the stale rows by another.
CountRows ==
    /\ purge.pc = "total"
    /\ purge' = IF Present = {} THEN NoPurge ELSE [purge EXCEPT !.pc = "stale", !.total = Cardinality(Present)]
    /\ UNCHANGED <<dumps, queue, row, edges, tx, batchMode, faults>>

\* Mutant: the cap refuses only what is above it.
BrokenRefuses == Stale = {} \/ Cardinality(Stale) * CapDen > purge.total * CapNum

\* Nothing stale, or so much of the table that the cap refuses it: no purge.
Refuses == Stale = {} \/ Cardinality(Stale) * CapDen >= purge.total * CapNum

CountStale ==
    /\ purge.pc = "stale"
    /\ purge' = IF Refuses THEN NoPurge ELSE [purge EXCEPT !.pc = "scoped"]
    /\ UNCHANGED <<dumps, queue, row, edges, tx, batchMode, faults>>

\* purge_document_graph: one DELETE per relation, joined to the stale rows the
\* statement can see. No purge sweeps the additive relations.
Sweep(rel, next) ==
    /\ purge.pc = rel
    /\ LET swept == UNION {EdgesOf(rel, d) : d \in Stale}
       IN  /\ \A w \in Writers : swept \cap tx[w].del = {}
           /\ purge' = [purge EXCEPT !.pc = next, !.del = @ \cup swept]
    /\ UNCHANGED <<dumps, queue, row, edges, tx, batchMode, faults>>

SweepEdges == Sweep("scoped", "credited_to") \/ Sweep("credited_to", "rows")

DeleteRows ==
    /\ purge.pc = "rows"
    /\ \A w \in Writers : Stale \cap (tx[w].touched \cup tx[w].wrote) = {}
    /\ purge' = [purge EXCEPT !.pc = "commit", !.gone = Stale]
    /\ UNCHANGED <<dumps, queue, row, edges, tx, batchMode, faults>>

PurgeCommits ==
    /\ purge.pc = "commit"
    /\ row' = [d \in Docs |-> IF d \in purge.gone THEN NoRow ELSE row[d]]
    /\ edges' = edges \ purge.del
    /\ purge' = NoPurge
    /\ UNCHANGED <<dumps, queue, tx, batchMode, faults>>

PurgeAgain == purge' = [NoPurge EXCEPT !.pc = "flush", !.dump = purge.dump]

\* The purge raises and the marker is requeued.
PurgeFails ==
    /\ purge.pc \notin {"idle", "flush"}
    /\ faults < MaxFaults /\ faults' = faults + 1
    /\ PurgeAgain
    /\ UNCHANGED <<dumps, queue, row, edges, tx, batchMode>>

\* A writer waits for edges the purge has deleted, the purge for the row the
\* writer holds: PostgreSQL aborts one of the two.
Deadlocked(w) ==
    /\ tx[w].pc = "unlink" /\ Unlinked(w) \cap purge.del # {}
    /\ purge.pc = "rows" /\ Stale \cap (tx[w].touched \cup tx[w].wrote) # {}
    /\ \/ Retried(w) /\ UNCHANGED purge
       \/ PurgeAgain /\ UNCHANGED tx
    /\ UNCHANGED <<dumps, queue, row, edges, batchMode, faults>>

Write(w) == Read(w) \/ Refresh(w) \/ Upsert(w) \/ Unlink(w) \/ LinkAndCommit(w) \/ Ack(w)

Next ==
    \/ StartDump \/ TakeMarker \/ Flush \/ CountRows \/ CountStale \/ SweepEdges \/ DeleteRows \/ PurgeCommits \/ PurgeFails
    \/ \E w \in Writers : Take(w) \/ Write(w) \/ WriteFails(w) \/ Redelivered(w) \/ Deadlocked(w)

Spec == Init /\ [][Next]_vars

-----------------------------------------------------------------------------
(* Properties *)

TxStates == {"idle", "begin", "refresh", "upsert", "unlink", "link", "settle"}
PurgeStates == {"idle", "flush", "total", "stale", "scoped", "credited_to", "rows", "commit"}

\* The state is well-typed, and only an open transaction holds rows and edges: whatever
\* fails is rolled back before the deliveries are retried, redelivered or settled.
TypeOK ==
    /\ dumps \in Seq([Docs -> Payloads \cup {NoPayload}]) /\ Len(dumps) <= MaxDumps
    /\ queue \in Seq(Message)
    /\ row \in [Docs -> [hash : Payloads \cup {NoPayload}, stamp : 0..MaxDumps]]
    /\ edges \subseteq Edges
    /\ purge.pc \in PurgeStates /\ purge.total \in 0..Cardinality(Docs) /\ purge.gone \subseteq Docs /\ purge.del \subseteq Edges
    /\ \A w \in Writers :
         /\ tx[w].pc \in TxStates
         /\ tx[w].batch \in Seq(Message)
         /\ tx[w].pc \in {"idle", "begin", "settle"} => tx[w].touched = {} /\ tx[w].wrote = {} /\ tx[w].del = {}
    /\ faults \in 0..MaxFaults

\* The committed edges are the ones the committed documents assert: a row has
\* exactly its own content's edges, an absent row has none, and credited_to holds
\* one payload's credits at most, the row's own if it states any. persist_record
\* and process_batch open one transaction for document and edges to have this:
\* the hash gate never repairs an edge once the new hash is stored.
EdgesMatchDocument == batchMode =>
    \A d \in Docs :
        /\ EdgesOf("scoped", d) = {e \in Edges : e[1] = "scoped" /\ e[2] = d /\ e[3] = row[d].hash}
        /\ \A e, f \in EdgesOf("credited_to", d) : e = f
        /\ "credited_to" \in Replaced(row[d].hash) => <<"credited_to", d, row[d].hash>> \in edges
        /\ row[d] = NoRow => EdgesOf("credited_to", d) = {}

\* Once everything is settled, every document of the newest dump is in the
\* table with that dump's content, whatever was purged, retried and redelivered
\* on the way.
DumpIsLoaded ==
    Settled /\ dumps # <<>> =>
        \A d \in Docs : LET p == dumps[Len(dumps)][d] IN p # NoPayload => row[d].hash = p

\* A purge never deletes PURGE_MAX_DELETE_FRACTION of the table or more, as the table is when it
\* deletes: rows are counted, stale rows are counted and rows are deleted by three statements,
\* between which writers commit.
PurgeIsCapped ==
    [][PurgeCommits => Cardinality(purge.gone) * CapDen < Cardinality(Present) * CapNum]_vars
=============================================================================
