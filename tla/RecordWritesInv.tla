-------------------------- MODULE RecordWritesInv --------------------------
(***************************************************************************)
(* The inductive invariant of RecordWrites, in named parts.                *)
(***************************************************************************)
EXTENDS RecordWrites

-----------------------------------------------------------------------------
(* What holds in every behaviour                                           *)

Contents == Payloads \cup {NoPayload}
TxRecords == [pc : TxStates, batch : Seq(Message), stamp : 0..MaxDumps, prior : [Docs -> Contents],
              touched : SUBSET Docs, wrote : SUBSET Docs, del : SUBSET Edges]
PurgeRecords == [pc : PurgeStates, dump : 0..MaxDumps, total : 0..Cardinality(Docs),
                 gone : SUBSET Docs, del : SUBSET Edges]

\* A message is of a dump that was started, and a record of a document that the dump holds.
Sent(m) == m.dump <= Len(dumps) /\ (m.doc # Marker => Content(m) \in Payloads)

\* Writers have records only, and write and lock only rows of their batch.
WritersAreSound ==
    \A w \in Writers :
        /\ \A i \in DOMAIN tx[w].batch : tx[w].batch[i].doc # Marker /\ Sent(tx[w].batch[i])
        /\ tx[w].touched \cup tx[w].wrote \subseteq InBatch(w)
        /\ tx[w].stamp <= Len(dumps)

\* A row is locked by a writer or by the purge.
RowLocksAreExclusive ==
    \A w \in Writers : (tx[w].touched \cup tx[w].wrote) \cap purge.gone = {}

BaseInv ==
    /\ TypeOK
    /\ tx \in [Writers -> TxRecords] /\ purge \in PurgeRecords /\ batchMode \in BOOLEAN
    /\ \A i \in DOMAIN queue : Sent(queue[i])
    /\ WritersAreSound /\ RowLocksAreExclusive
    /\ purge.dump <= Len(dumps)

-----------------------------------------------------------------------------
(* What holds while dumps follow each other                                *)

\* What the newest dump holds for a document.
Newest(d) == dumps[Len(dumps)][d]

\* Whatever is queued or purged belongs to the newest dump, whose marker is the last of it.
OneDump ==
    /\ \A i \in DOMAIN queue : queue[i].dump = Len(dumps) /\ (queue[i].doc = Marker <=> i = Len(queue))
    /\ purge.pc # "idle" => queue = <<>> /\ purge.dump = Len(dumps)
    /\ purge.pc = "idle" => purge = NoPurge

\* So does whatever is written.
OfNewest(t) ==
    /\ t.pc = "idle" => t = Idle
    /\ \A i \in DOMAIN t.batch : t.batch[i].dump = Len(dumps)
    /\ t.pc \notin {"idle", "begin", "settle"} => t.stamp = Len(dumps)

\* In batch mode a writer is the only one, and no purge is past its drain.
OneAtATime ==
    batchMode => \A w \in Writers : tx[w].pc # "idle" =>
        (\A x \in Writers : tx[x].pc # "idle" => x = w) /\ purge.pc \in {"idle", "flush"}

BatchDocs(t) == {t.batch[i].doc : i \in DOMAIN t.batch}
NewContent(t) == {d \in BatchDocs(t) : t.prior[d] # Newest(d)}
OldEdges(t) == {e \in edges : e[2] \in NewContent(t) /\ e[1] \in Replaced(Newest(e[2]))}

\* What a transaction has done so far: in batch mode what it has read is still so, and the
\* documents that changed are upserted, the others refreshed; the single record is upserted.
Current(t) ==
    /\ batchMode =>
         /\ t.pc \in {"refresh", "upsert", "unlink", "link"} => \A d \in Docs : t.prior[d] = row[d].hash
         /\ t.pc \in {"upsert", "unlink", "link"} => t.touched = BatchDocs(t) \ NewContent(t)
         /\ t.pc \in {"unlink", "link"} => t.wrote = NewContent(t)
         /\ t.pc = "link" => t.del = OldEdges(t)
    /\ ~batchMode =>
         /\ t.pc # "refresh" /\ t.touched = {}
         /\ t.pc \in {"unlink", "link"} => t.wrote = BatchDocs(t)

WritersAreCurrent == \A w \in Writers : OfNewest(tx[w]) /\ Current(tx[w])

Swept(rel) == UNION {EdgesOf(rel, d) : d \in Stale}

\* In batch mode nothing changes under a purge: what it sweeps belongs to the rows it deletes.
PurgeIsCurrent ==
    /\ purge.pc = "commit" => \A d \in purge.gone : row[d].stamp < purge.dump
    /\ batchMode =>
         /\ purge.pc \in {"flush", "total", "stale", "scoped"} => purge.del = {}
         /\ purge.pc = "credited_to" => purge.del = Swept("scoped")
         /\ purge.pc \in {"rows", "commit"} => purge.del = Swept("scoped") \cup Swept("credited_to")
         /\ purge.pc = "commit" => purge.gone = Stale
    /\ purge.pc # "commit" => purge.gone = {}

\* The cap holds from the count to the delete: the table only grows and the stale rows only
\* become fewer meanwhile.
PurgeStaysCapped ==
    /\ purge.pc \in {"stale", "scoped", "credited_to", "rows", "commit"} => purge.total <= Cardinality(Present)
    /\ purge.pc \in {"scoped", "credited_to", "rows"} => Cardinality(Stale) * CapDen < purge.total * CapNum
    /\ purge.pc = "commit" => Cardinality(purge.gone) * CapDen < purge.total * CapNum

\* Only an absent row has no content.
AbsentRows == \A d \in Docs : row[d].hash = NoPayload => row[d] = NoRow

InFlight(d) ==
    \/ \E i \in DOMAIN queue : queue[i].doc = d
    \/ \E w \in Writers : tx[w].pc # "settle" /\ d \in InBatch(w)

\* A record of the newest dump is on its way or in the table, with the stamp that spares it.
DumpIsOnItsWay ==
    dumps # <<>> => \A d \in Docs : Newest(d) # NoPayload =>
        InFlight(d) \/ row[d] = [hash |-> Newest(d), stamp |-> Len(dumps)]

LoadInv ==
    /\ BaseInv /\ OneDump /\ OneAtATime /\ WritersAreCurrent /\ PurgeIsCurrent /\ PurgeStaysCapped
    /\ AbsentRows /\ DumpIsOnItsWay /\ EdgesMatchDocument
=============================================================================
