----------------------------- MODULE GraphRows -----------------------------
(***************************************************************************)
(* The rows of the graph schema that several transactions share, and who   *)
(* meets on them:                                                          *)
(*   - the vertex rows (genre, style, person, ...) and the additive edges  *)
(*     (member_of, same_as), which every document that names them inserts  *)
(*     again with ON CONFLICT DO NOTHING (write_document_graph);           *)
(*   - the derived pass (refresh_derived_relations), which re-derives the  *)
(*     additive edges from the documents, page by page, inserts what is    *)
(*     missing, deletes what no document asserts, and then recomputes the  *)
(*     counters and the path relations, all in one transaction that other  *)
(*     loads of documents run beside.                                      *)
(* Relations that belong to one document are in RecordWrites.              *)
(*                                                                         *)
(* A row is its place in the one order every writer takes: the relations   *)
(* in the order of VERTEX_COLUMNS and EDGE_COLUMNS, the rows of a relation *)
(* in the order of their keys.  A document is its place among the data     *)
(* ids.  PostgreSQL runs everything at READ COMMITTED: an insert that      *)
(* meets a row another open transaction is inserting or deleting waits for *)
(* it; one that meets a committed row does nothing and takes no lock.      *)
(***************************************************************************)
EXTENDS Integers, FiniteSets, Sequences

CONSTANTS
    NumDocs,      \* the documents are 1 .. NumDocs
    NumRows,      \* the shared rows are 1 .. NumRows
    Additive,     \* ADDITIVE_RELATIONS, in order: the documents and the rows of each
    Contents,     \* the sets of shared rows each document may assert
    PageSize,     \* DOCUMENT_PAGE_SIZE
    Writers,      \* transactions that may write documents at once
    MaxDumps,     \* bound on extractions after the one that filled the tables
    MaxWrites,    \* bound on transactions per extraction
    MaxFaults     \* bound on failed statements

Docs == 1..NumDocs
Rows == 1..NumRows
Steps == 1..Len(Additive)
Edges == {r \in Rows : \E k \in Steps : r \in Additive[k].rows}

ASSUME NumbersAssumption == {NumDocs, NumRows, MaxDumps, MaxWrites, MaxFaults} \subseteq Nat /\ PageSize \in Nat \ {0}
ASSUME AdditiveAssumption ==
    /\ Additive \in Seq([docs : SUBSET Docs, rows : SUBSET Rows]) /\ Additive # <<>>
    /\ \A j, k \in Steps : j # k => Additive[j].rows \cap Additive[k].rows = {}
\* derive_document: only a document of the relation's own table asserts its edges.
ASSUME ContentsAssumption ==
    /\ Contents \in [Docs -> SUBSET SUBSET Rows]
    /\ \A d \in Docs, k \in Steps : d \in Additive[k].docs \/ \A c \in Contents[d] : c \cap Additive[k].rows = {}

VARIABLES
    row,       \* the committed shared rows
    present,   \* the committed documents
    asserts,   \* the shared rows each of them asserts
    tx,        \* the writers' transactions
    pass,      \* the derived pass's transaction
    counters,  \* what the published counters, member union and degrees were computed from
    loading,   \* an extraction is being loaded
    due,       \* a complete extraction has not had its pass yet
    dumps, writes, faults,
    moved      \* history: what documents committed since the pass began assert, or did, and the
               \* edges of tables that they filled or a purge emptied

documents == <<present, asserts>>
clock == <<loading, due, dumps, writes>>
vars == <<row, documents, tx, pass, counters, clock, faults, moved>>

\* What the documents of D may assert; the others assert nothing.
Payloads(D) ==
    {f \in [Docs -> {{}} \cup UNION {Contents[d] : d \in D}] :
        \A d \in Docs : IF d \in D THEN f[d] \in Contents[d] ELSE f[d] = {}}
Says(D, f) == {r \in Rows : \E d \in D : r \in f[d]}

Idle == [docs |-> {}, says |-> [d \in Docs |-> {}], todo |-> {}, mine |-> {}]
NoCounters == [degree |-> {}, union |-> {}, vertex |-> {}]
NoPass == [pc |-> "idle", step |-> 0, last |-> 0, asserted |-> {}, todo |-> {}, at |-> 0,
           ins |-> {}, del |-> {}, new |-> NoCounters]

Busy(w) == tx[w].docs # {}
AssertedNow(r) == \E d \in present : r \in asserts[d]

\* Documents have been loaded and their pass is owed; edges that older versions of the
\* documents asserted may still be there, and edges that a pass beside the load deleted
\* may be missing.
Init ==
    /\ present \in SUBSET Docs
    /\ asserts \in Payloads(present)
    /\ \E edges \in SUBSET Edges : row = edges \cup (Says(present, asserts) \ Edges)
    /\ tx = [w \in Writers |-> Idle]
    /\ pass = NoPass
    /\ counters = NoCounters
    /\ loading = FALSE /\ due = TRUE
    /\ dumps = 0 /\ writes = 0 /\ faults = 0
    /\ moved = {}

-----------------------------------------------------------------------------
(* An extraction, and the transactions that load its documents             *)

StartDump ==
    /\ ~loading /\ dumps < MaxDumps
    /\ loading' = TRUE /\ dumps' = dumps + 1 /\ writes' = 0
    /\ UNCHANGED <<row, documents, tx, pass, counters, due, faults, moved>>

\* The last of the four extraction_complete signals: the pass is owed.
CompleteDump ==
    /\ loading /\ \A w \in Writers : ~Busy(w)
    /\ loading' = FALSE /\ due' = TRUE
    /\ UNCHANGED <<row, documents, tx, pass, counters, dumps, writes, faults, moved>>

\* A batch and a purge are of one queue, hence of one document table.
OneTable(D) == \A k \in Steps : D \subseteq Additive[k].docs \/ D \cap Additive[k].docs = {}

\* A batch of changed documents: their entity rows are taken, and the union of
\* what they assert is what is to be inserted.
BeginWrite(w) ==
    /\ loading /\ ~Busy(w) /\ writes < MaxWrites
    /\ \E D \in (SUBSET Docs) \ {{}} : \E says \in Payloads(D) :
         /\ OneTable(D) /\ \A d \in D \cap present : says[d] # asserts[d]
         /\ \A x \in Writers \ {w} : D \cap tx[x].docs = {}
         /\ tx' = [tx EXCEPT ![w] = [docs |-> D, says |-> says, todo |-> Says(D, says), mine |-> {}]]
    /\ writes' = writes + 1
    /\ UNCHANGED <<row, documents, pass, counters, loading, due, dumps, faults, moved>>

Pending(r) == r \in pass.ins \cup pass.del \/ \E w \in Writers : r \in tx[w].mine

\* Mutant: the rows of a batch are inserted in the order the documents list them.
BrokenIsNext(w, r) == r \in tx[w].todo

\* The rows are sorted, and the relations walked in their fixed order.
IsNext(w, r) == r \in tx[w].todo /\ \A s \in tx[w].todo : r <= s

\* Mutant: a row that is there already is written again.
BrokenInsertRow(w, r) ==
    /\ IsNext(w, r) /\ ~Pending(r)
    /\ tx' = [tx EXCEPT ![w].todo = @ \ {r}, ![w].mine = @ \cup {r}]
    /\ UNCHANGED <<row, documents, pass, counters, clock, faults, moved>>

\* ON CONFLICT DO NOTHING
InsertRow(w, r) ==
    /\ IsNext(w, r) /\ ~Pending(r)
    /\ tx' = [tx EXCEPT ![w].todo = @ \ {r},
                        ![w].mine = IF r \in row THEN @ ELSE @ \cup {r}]
    /\ UNCHANGED <<row, documents, pass, counters, clock, faults, moved>>

\* History: the documents D are written or removed, and assert what is now said of them.
Moved(D, now) ==
    moved \cup Says(D, asserts) \cup now
          \cup {r \in Rows : \E k \in Steps : /\ r \in Additive[k].rows
                                            /\ (Additive[k].docs \cap present = {}) # (Additive[k].docs \cap present' = {})}

CommitWrite(w) ==
    /\ Busy(w) /\ tx[w].todo = {}
    /\ present' = present \cup tx[w].docs
    /\ asserts' = [d \in Docs |-> IF d \in tx[w].docs THEN tx[w].says[d] ELSE asserts[d]]
    /\ moved' = Moved(tx[w].docs, Says(tx[w].docs, tx[w].says))
    /\ row' = row \cup tx[w].mine
    /\ tx' = [tx EXCEPT ![w] = Idle]
    /\ UNCHANGED <<pass, counters, clock, faults>>

Rollback(w) == tx' = [tx EXCEPT ![w] = Idle]

WriteFails(w) ==
    /\ Busy(w)
    /\ faults < MaxFaults /\ faults' = faults + 1
    /\ Rollback(w)
    /\ UNCHANGED <<row, documents, pass, counters, clock, moved>>

\* The stale-row purge of an extraction removes documents, and no additive edge.
Purge ==
    /\ loading
    /\ \E D \in (SUBSET present) \ {{}} :
         /\ OneTable(D) /\ \A w \in Writers : D \cap tx[w].docs = {}
         /\ present' = present \ D
         /\ asserts' = [d \in Docs |-> IF d \in D THEN {} ELSE asserts[d]]
         /\ moved' = Moved(D, {})
    /\ UNCHANGED <<row, tx, pass, counters, clock, faults>>

-----------------------------------------------------------------------------
(* refresh_derived_relations                                               *)

\* What the pass's next statement sees: what is committed, and its own changes.
Visible == (row \ pass.del) \cup pass.ins

\* COUNTER_BODIES: every counter is a projection of the edges that are there.
CounterBodies == Visible \cap Edges

PassStep(next) == /\ pass' = next
                  /\ UNCHANGED <<row, documents, tx, counters, clock, faults, moved>>

\* The worker claims the job, or the handler of the last signal runs it.
BeginPass ==
    /\ pass.pc = "idle" /\ due
    /\ due' = FALSE /\ moved' = {}
    /\ pass' = [NoPass EXCEPT !.pc = "count", !.step = 1]
    /\ UNCHANGED <<row, documents, tx, counters, loading, dumps, writes, faults>>

Source == Additive[pass.step]
NextRelation == [pass EXCEPT !.pc = IF pass.step = Len(Additive) THEN "counters" ELSE "count",
                             !.step = IF pass.step = Len(Additive) THEN @ ELSE @ + 1,
                             !.last = 0, !.asserted = {}]

\* Mutant: an empty table is read as asserting nothing.
BrokenCountDocuments ==
    /\ pass.pc = "count"
    /\ PassStep([pass EXCEPT !.pc = "page"])

\* An empty table is a failed load: its relation is left alone.
CountDocuments ==
    /\ pass.pc = "count"
    /\ PassStep(IF Source.docs \cap present = {} THEN NextRelation ELSE [pass EXCEPT !.pc = "page"])

Candidates == {d \in Source.docs \cap present : asserts[d] \cap Source.rows # {} /\ d > pass.last}
Page == {d \in Candidates : Cardinality({c \in Candidates : c < d}) < PageSize}

\* Mutant: a full page is taken for the last one.
BrokenLastPage(page) == Cardinality(page) <= PageSize

LastPage(page) == Cardinality(page) < PageSize

\* One keyset page of documents, derived and copied into the temporary table.
ReadPage ==
    /\ pass.pc = "page"
    /\ LET asserted == pass.asserted \cup (Says(Page, asserts) \cap Source.rows)
           read == [pass EXCEPT !.asserted = asserted,
                       !.last = IF Page = {} THEN @ ELSE CHOOSE d \in Page : \A c \in Page : c <= d]
       IN  PassStep(IF LastPage(Page) THEN [read EXCEPT !.pc = "insert", !.todo = asserted] ELSE read)

\* The insert of asserted rows walks them in no particular order ...
PickAsserted(r) ==
    /\ pass.pc = "insert" /\ pass.at = 0 /\ r \in pass.todo
    /\ PassStep([pass EXCEPT !.at = r])

\* ... and waits at a row that a writer is inserting.
InsertAsserted ==
    /\ pass.pc = "insert" /\ pass.at # 0
    /\ \A w \in Writers : pass.at \notin tx[w].mine
    /\ PassStep([pass EXCEPT !.todo = @ \ {pass.at}, !.at = 0,
                             !.ins = IF pass.at \in row THEN @ ELSE @ \cup {pass.at}])

DeleteUnasserted ==
    /\ pass.pc = "insert" /\ pass.todo = {}
    /\ PassStep([NextRelation EXCEPT !.del = @ \cup ((Source.rows \cap row) \ pass.asserted)])

RefreshCounters ==
    /\ pass.pc = "counters"
    /\ PassStep([pass EXCEPT !.pc = "refresh_artist_member_of", !.new.degree = CounterBodies])

RefreshMemberUnion ==
    /\ pass.pc = "refresh_artist_member_of"
    /\ PassStep([pass EXCEPT !.pc = "refresh_vertex_degree", !.new.union = CounterBodies])

\* Mutant: the degrees sum the union that the last pass published.
BrokenRefreshVertexDegree ==
    /\ pass.pc = "refresh_vertex_degree"
    /\ PassStep([pass EXCEPT !.pc = "commit", !.new.vertex = counters.union])

\* The degree of a vertex sums, among others, the union refreshed before it.
RefreshVertexDegree ==
    /\ pass.pc = "refresh_vertex_degree"
    /\ PassStep([pass EXCEPT !.pc = "commit", !.new.vertex = pass.new.union])

CommitPass ==
    /\ pass.pc = "commit"
    /\ row' = Visible
    /\ counters' = pass.new
    /\ pass' = NoPass
    /\ UNCHANGED <<documents, tx, clock, faults, moved>>

\* The transaction is rolled back, and the job or the delivery stays to be retried.
RetryPass == pass' = NoPass /\ due' = TRUE

PassFails ==
    /\ pass.pc # "idle"
    /\ faults < MaxFaults /\ faults' = faults + 1
    /\ RetryPass
    /\ UNCHANGED <<row, documents, tx, counters, loading, dumps, writes, moved>>

-----------------------------------------------------------------------------
(* Who waits for whom.  PostgreSQL aborts a transaction of a cycle.        *)

Waits(w, x) == \E r \in Rows : IsNext(w, r) /\ r \in tx[x].mine
WaitsForPass(w) == \E r \in Rows : IsNext(w, r) /\ r \in pass.ins \cup pass.del
PassWaits(w) == pass.at # 0 /\ pass.at \in tx[w].mine

\* The pass waits, directly or through others, for a writer that waits for it.
PassDeadlocked(w) ==
    \E W \in SUBSET Writers :
        /\ w \in W /\ WaitsForPass(w)
        /\ \E x \in W : PassWaits(x)
        /\ \A x \in W : x = w \/ \E y \in W : Waits(x, y)

DeadlockDetected(w) ==
    /\ PassDeadlocked(w)
    /\ \/ Rollback(w) /\ UNCHANGED <<pass, due>>
       \/ RetryPass /\ UNCHANGED tx
    /\ UNCHANGED <<row, documents, counters, loading, dumps, writes, faults, moved>>

Write(w) == BeginWrite(w) \/ (\E r \in Rows : InsertRow(w, r)) \/ CommitWrite(w) \/ WriteFails(w)
            \/ DeadlockDetected(w)

Pass == \/ BeginPass \/ CountDocuments \/ ReadPage \/ InsertAsserted \/ DeleteUnasserted
        \/ \E r \in Rows : PickAsserted(r)
        \/ RefreshCounters \/ RefreshMemberUnion \/ RefreshVertexDegree \/ CommitPass \/ PassFails

Next == StartDump \/ CompleteDump \/ Purge \/ Pass \/ \E w \in Writers : Write(w)

Spec == Init /\ [][Next]_vars

-----------------------------------------------------------------------------
(* Properties *)

PassStates == {"idle", "count", "page", "insert", "counters", "refresh_artist_member_of",
               "refresh_vertex_degree", "commit"}

Transactions == [docs : SUBSET Docs, says : [Docs -> SUBSET Rows], todo : SUBSET Rows, mine : SUBSET Rows]
Counters == [degree : SUBSET Edges, union : SUBSET Edges, vertex : SUBSET Edges]
Passes == [pc : PassStates, step : 0..Len(Additive), last : 0..NumDocs, asserted : SUBSET Edges,
           todo : SUBSET Edges, at : 0..NumRows, ins : SUBSET Edges, del : SUBSET Edges, new : Counters]

\* The state is well-typed, and two open transactions never hold the same uncommitted row.
TypeOK ==
    /\ row \in SUBSET Rows /\ present \in SUBSET Docs /\ asserts \in [Docs -> SUBSET Rows]
    /\ tx \in [Writers -> Transactions] /\ pass \in Passes /\ counters \in Counters
    /\ loading \in BOOLEAN /\ due \in BOOLEAN /\ moved \in SUBSET Rows
    /\ \A w \in Writers : tx[w].mine \cap (row \cup pass.ins) = {}
    /\ \A w, x \in Writers : w # x => tx[w].mine \cap tx[x].mine = {}
    /\ pass.ins \cap row = {} /\ pass.del \subseteq row

\* graph_writer's three orderings: writers that meet on shared rows never wait for each other
\* in a circle, whichever documents their batches hold.
WritersNeverDeadlock ==
    ~ \E W \in SUBSET Writers : W # {} /\ \A w \in W : \E x \in W : Waits(w, x)

\* What a pass does to an additive edge while documents are being written beside it: unless a
\* document committed meanwhile asserts or asserted the edge, it is there afterwards exactly if
\* a document asserts it.  The relation of a table without documents is not touched.
PassIsExact ==
    [][CommitPass => \A k \in Steps : \A e \in Additive[k].rows \ moved :
         e \in row' <=> IF Additive[k].docs \cap present = {} THEN e \in row ELSE AssertedNow(e)]_vars

\* When no extraction is being loaded and no pass is owed, the additive edges are the ones the
\* documents assert, and counters, member union and degrees all count exactly these: whatever a
\* pass that overlapped the load deleted or missed, the extraction's own pass has repaired.
SettledGraphIsReconciled ==
    ~loading /\ ~due /\ pass = NoPass =>
        /\ \A k \in Steps : Additive[k].docs \cap present # {} =>
             \A e \in Additive[k].rows : e \in row <=> AssertedNow(e)
        /\ counters = [degree |-> row \cap Edges, union |-> row \cap Edges, vertex |-> row \cap Edges]

\* Published degrees always sum the member union they are published with: the two functions run
\* in their order and in one transaction.
DegreesSumTheUnion == counters.vertex = counters.union
=============================================================================
