-------------------------- MODULE GraphRowsProofs --------------------------
(***************************************************************************)
(* Proofs about GraphRows for any number of documents, rows, relations and *)
(* writers, any page size and any number of loads and faults.              *)
(*                                                                         *)
(* RowsInv says what transactions hold and what the documents may assert;  *)
(* PassInv says how far the derived pass has come and what holds of the    *)
(* relations behind, under and before it.  The rest follows from them.     *)
(***************************************************************************)
EXTENDS GraphRowsInv, OrderLemmas, SequenceTheorems

USE NumbersAssumption, AdditiveAssumption, ContentsAssumption

-----------------------------------------------------------------------------
(* Documents and pages                                                     *)

\* What a batch says of its documents is a set of shared rows for each, one that the document
\* may assert.
LEMMA PayloadTypes ==
    ASSUME NEW D \in SUBSET Docs, NEW f \in Payloads(D)
    PROVE  /\ f \in [Docs -> SUBSET Rows]
           /\ \A d \in Docs : IF d \in D THEN f[d] \in Contents[d] ELSE f[d] = {}
<1>1. \A d \in Docs : IF d \in D THEN f[d] \in Contents[d] ELSE f[d] = {}
  BY DEF Payloads
<1>2. \A d \in Docs : f[d] \in SUBSET Rows
  BY <1>1
<1>3. f \in [Docs -> {{}} \cup UNION {Contents[d] : d \in D}]
  BY DEF Payloads
<1> QED
  BY <1>1, <1>2, <1>3

\* The relations of ADDITIVE_RELATIONS are made of documents and of edges.
LEMMA AdditiveTypes ==
    /\ Len(Additive) \in Nat /\ 1 \in Steps
    /\ \A k \in Steps : /\ Additive[k] \in [docs : SUBSET Docs, rows : SUBSET Rows]
                        /\ Additive[k].docs \in SUBSET Docs
                        /\ Additive[k].rows \in SUBSET Rows /\ Additive[k].rows \in SUBSET Edges
<1>1. Len(Additive) \in Nat /\ 1 \in Steps
  <2>1. Len(Additive) \in Nat /\ Len(Additive) # 0
    BY EmptySeq
  <2> QED
    BY <2>1 DEF Steps
<1>2. \A k \in Steps : Additive[k] \in [docs : SUBSET Docs, rows : SUBSET Rows]
  BY ElementOfSeq DEF Steps
<1> QED
  BY <1>1, <1>2 DEF Edges

\* The page that is read next has a last document, and it is a document.
LEMMA PageEnds ==
    ASSUME TypeOK, pass.pc = "page", pass.step \in Steps, Page # {}
    PROVE  LET last == CHOOSE d \in Page : \A c \in Page : c <= d
           IN  last \in Page /\ last \in Docs /\ \A c \in Page : c <= last
<1>1. Page \in SUBSET (1..NumDocs)
  BY DEF TypeOK, Page, Candidates, Docs
<1>2. Page \in SUBSET Nat /\ IsFiniteSet(Page)
  BY <1>1, FiniteParts
<1>3. \E u \in Page : \A x \in Page : x <= u
  BY <1>2, GreatestExists
<1> QED
  BY <1>1, <1>3 DEF Docs

\* Reading pages misses nothing: a candidate that is not on the page comes after all of the
\* page, and if there is one the page is full.
LEMMA PagesMissNothing ==
    ASSUME TypeOK, pass.step \in Steps, NEW d \in Candidates, d \notin Page
    PROVE  /\ \A c \in Page : c < d
           /\ ~LastPage(Page)
<1> DEFINE Before(x) == {c \in Candidates : c < x}
           Left == Candidates \ Page
<1>1. Candidates \in SUBSET (1..NumDocs) /\ Page \in SUBSET Candidates
  BY DEF TypeOK, Page, Candidates, Docs
<1>2. \A x \in Candidates : x \in Nat
  <2>1. \A x \in Candidates : x \in 1..NumDocs
    BY <1>1
  <2> QED
    BY <2>1
<1>3. \A x : IsFiniteSet(Before(x)) /\ Cardinality(Before(x)) \in Nat
  <2> SUFFICES ASSUME NEW x PROVE IsFiniteSet(Before(x)) /\ Cardinality(Before(x)) \in Nat
    OBVIOUS
  <2>1. Before(x) \in SUBSET (1..NumDocs)
    BY <1>1
  <2> HIDE DEF Before
  <2> QED
    BY <2>1, FiniteParts, FS_CardinalityType
<1>4. \A x \in Candidates : x \in Page <=> Cardinality(Before(x)) < PageSize
  BY DEF Page
<1>5. ASSUME NEW c \in Page, d <= c PROVE FALSE
  <2>1. c \in Candidates /\ c \in Nat /\ d \in Nat
    BY <1>1, <1>2
  <2>2. \A x \in Candidates : x < d => x < c
    BY <1>2, <1>5, <2>1
  <2>3. Before(d) \in SUBSET Before(c)
    BY <2>2
  <2>4. Cardinality(Before(d)) <= Cardinality(Before(c))
    <3> HIDE DEF Before
    <3> QED
      BY <2>3, <1>3, FS_Subset
  <2>5. Cardinality(Before(c)) < PageSize
    BY <1>4, <2>1
  <2>6. ~(Cardinality(Before(d)) < PageSize)
    BY <1>4
  <2> HIDE DEF Before
  <2> QED
    BY <2>4, <2>5, <2>6, <1>3
<1>6. Left \in SUBSET Nat /\ Left # {}
  BY <1>2
<1>7. PICK m \in Left : \A k \in Left : m <= k
  <2> HIDE DEF Left
  <2> QED
    BY <1>6, LeastNatural
<1>8. Before(m) \in SUBSET Page
  BY <1>2, <1>7
<1>9. IsFiniteSet(Page)
  <2>1. Page \in SUBSET (1..NumDocs)
    BY <1>1
  <2> QED
    BY <2>1, FiniteParts
<1>10. Cardinality(Before(m)) <= Cardinality(Page) /\ Cardinality(Page) \in Nat
  <2> HIDE DEF Before
  <2> QED
    BY <1>8, <1>9, FS_Subset, FS_CardinalityType
<1>11. ~(Cardinality(Before(m)) < PageSize)
  BY <1>4, <1>7
<1>12. ~(Cardinality(Page) < PageSize)
  <2> HIDE DEF Before
  <2> QED
    BY <1>3, <1>10, <1>11
<1> QED
  BY <1>1, <1>2, <1>5, <1>12 DEF LastPage

-----------------------------------------------------------------------------
(* What transactions hold                                                  *)

\* The loaded documents assert what they may, and no transaction is open.
LEMMA InitRows == Init => RowsInv
<1> SUFFICES ASSUME Init PROVE RowsInv
  OBVIOUS
<1>1. present \in SUBSET Docs /\ asserts \in Payloads(present)
  BY DEF Init
<1>2. /\ asserts \in [Docs -> SUBSET Rows]
      /\ \A d \in Docs : IF d \in present THEN asserts[d] \in Contents[d] ELSE asserts[d] = {}
  BY <1>1, PayloadTypes
<1>3. row \in SUBSET Rows
  BY DEF Init, Edges, Says
<1>4. tx \in [Writers -> Transactions]
  BY DEF Init, Idle, Transactions
<1>5. NoCounters \in Counters /\ NoPass \in Passes
  BY DEF NoCounters, Counters, NoPass, Passes, PassStates
<1>6. TypeOK
  BY <1>1, <1>2, <1>3, <1>4, <1>5 DEF Init, TypeOK, Idle, NoPass
<1>7. ContentsHold
  BY <1>2 DEF ContentsHold, Init, Idle
<1>8. WritersAscend
  BY DEF WritersAscend, Init, Idle, Busy, Says
<1>9. PassShape
  BY DEF PassShape, Init, NoPass
<1> QED
  BY <1>6, <1>7, <1>8, <1>9 DEF RowsInv

\* A load that begins or ends touches no row and no transaction.
LEMMA DumpRows == RowsInv /\ (StartDump \/ CompleteDump) => RowsInv'
<1> SUFFICES ASSUME RowsInv, StartDump \/ CompleteDump PROVE RowsInv'
  OBVIOUS
<1>1. /\ UNCHANGED <<row, present, asserts, tx, pass, counters, moved>>
      /\ loading' \in BOOLEAN /\ due' \in BOOLEAN
  BY DEF StartDump, CompleteDump, documents, RowsInv, TypeOK
<1>2. \A w \in Writers : Busy(w)' => loading'
  BY DEF StartDump, CompleteDump, Busy, RowsInv, WritersAscend
<1>3. TypeOK'
  BY <1>1 DEF RowsInv, TypeOK
<1>4. ContentsHold'
  BY <1>1 DEF RowsInv, ContentsHold
<1>5. WritersAscend'
  BY <1>1, <1>2 DEF RowsInv, WritersAscend, Busy
<1>6. PassShape'
  BY <1>1 DEF RowsInv, PassShape, Source
<1> QED
  BY <1>3, <1>4, <1>5, <1>6 DEF RowsInv

\* A step that replaces one writer's transaction keeps the invariant if the new one holds only
\* what its documents say, in ascending order, and rows nobody else has.
LEMMA TxRows ==
    ASSUME RowsInv, NEW w \in Writers, NEW t \in Transactions,
           tx' = [tx EXCEPT ![w] = t],
           UNCHANGED <<row, present, asserts, pass, counters, loading>>,
           due' \in BOOLEAN, moved' \in SUBSET Rows,
           t.docs = {} => t = Idle, t.docs # {} => loading,
           \A d \in t.docs : t.says[d] \in Contents[d],
           t.mine \cup t.todo \subseteq Says(t.docs, t.says),
           \A r \in t.mine, s \in t.todo : r < s,
           t.mine \cap (row \cup pass.ins) = {},
           \A x \in Writers \ {w} : t.mine \cap tx[x].mine = {}
    PROVE  RowsInv'
<1>1. tx \in [Writers -> Transactions]
  BY DEF RowsInv, TypeOK
<1>2. tx' \in [Writers -> Transactions] /\ \A x \in Writers : tx'[x] = IF x = w THEN t ELSE tx[x]
  BY <1>1
<1>3. TypeOK'
  BY <1>2 DEF RowsInv, TypeOK
<1>4. ContentsHold'
  BY <1>2 DEF RowsInv, ContentsHold
<1>5. WritersAscend'
  BY <1>2 DEF RowsInv, WritersAscend, Busy, Idle
<1>6. PassShape'
  BY DEF RowsInv, PassShape, Source
<1> QED
  BY <1>3, <1>4, <1>5, <1>6 DEF RowsInv

\* A batch begins with all it says to be inserted, and nothing held.
LEMMA BeginWriteRows ==
    ASSUME RowsInv, NEW w \in Writers, BeginWrite(w)
    PROVE  RowsInv'
<1>1. PICK D \in (SUBSET Docs) \ {{}} : \E says \in Payloads(D) :
         tx' = [tx EXCEPT ![w] = [docs |-> D, says |-> says, todo |-> Says(D, says), mine |-> {}]]
  BY DEF BeginWrite
<1>2. PICK says \in Payloads(D) :
         tx' = [tx EXCEPT ![w] = [docs |-> D, says |-> says, todo |-> Says(D, says), mine |-> {}]]
  BY <1>1
<1> DEFINE t == [docs |-> D, says |-> says, todo |-> Says(D, says), mine |-> {}]
<1>3. says \in [Docs -> SUBSET Rows] /\ \A d \in D : says[d] \in Contents[d]
  BY PayloadTypes
<1>4. t \in Transactions
  BY <1>3 DEF Transactions, Says
<1>5. UNCHANGED <<row, present, asserts, pass, counters, loading, due, moved>> /\ loading
  BY DEF BeginWrite, documents
<1> HIDE DEF t
<1>6. due' \in BOOLEAN /\ moved' \in SUBSET Rows
  BY <1>5 DEF RowsInv, TypeOK
<1>7. tx' = [tx EXCEPT ![w] = t]
  BY <1>2 DEF t
<1>8. t.docs = D /\ t.says = says /\ t.todo = Says(D, says) /\ t.mine = {}
  BY DEF t
<1>9. /\ t.docs # {} /\ loading
      /\ \A d \in t.docs : t.says[d] \in Contents[d]
      /\ t.mine \cup t.todo \subseteq Says(t.docs, t.says)
      /\ \A r \in t.mine, s \in t.todo : r < s
      /\ t.mine \cap (row \cup pass.ins) = {}
      /\ \A x \in Writers \ {w} : t.mine \cap tx[x].mine = {}
  BY <1>3, <1>5, <1>8
<1> QED
  BY <1>4, <1>5, <1>6, <1>7, <1>9, TxRows

\* An insert takes the least row left, so what is held stays below what is left.
LEMMA InsertRowRows ==
    ASSUME RowsInv, NEW w \in Writers, NEW r \in Rows, InsertRow(w, r)
    PROVE  RowsInv'
<1> DEFINE mine == IF r \in row THEN tx[w].mine ELSE tx[w].mine \cup {r}
           t == [tx[w] EXCEPT !.todo = @ \ {r}, !.mine = mine]
<1>1. tx \in [Writers -> Transactions] /\ tx[w] \in Transactions
  BY DEF RowsInv, TypeOK
<1>2. t \in Transactions
  BY <1>1 DEF Transactions
<1>3. t.docs = tx[w].docs /\ t.says = tx[w].says /\ t.todo = tx[w].todo \ {r} /\ t.mine = mine
  BY <1>1 DEF Transactions
<1>4. tx' = [tx EXCEPT ![w] = t]
  BY <1>1 DEF InsertRow, Transactions
<1>5. UNCHANGED <<row, present, asserts, pass, counters, loading, due, moved>>
  BY DEF InsertRow, documents, clock
<1>6. due' \in BOOLEAN /\ moved' \in SUBSET Rows
  BY <1>5 DEF RowsInv, TypeOK
<1>7. r \in tx[w].todo /\ (\A s \in tx[w].todo : r <= s) /\ r \notin pass.ins
      /\ \A x \in Writers : r \notin tx[x].mine
  BY DEF InsertRow, IsNext, Pending
<1>8. t.docs # {} /\ loading
  <2>1. tx[w].docs # {}
    BY <1>7 DEF RowsInv, WritersAscend, Busy, Idle
  <2> QED
    BY <1>3, <2>1 DEF RowsInv, WritersAscend, Busy
<1>9. \A d \in t.docs : t.says[d] \in Contents[d]
  BY <1>3 DEF RowsInv, ContentsHold
<1>10. t.mine \cup t.todo \subseteq Says(t.docs, t.says)
  BY <1>3, <1>7 DEF RowsInv, WritersAscend
<1>11. \A q \in t.mine, s \in t.todo : q < s
  <2>1. \A s \in tx[w].todo : s \in Int
    BY <1>1 DEF Transactions, Rows
  <2>2. \A q \in tx[w].mine, s \in tx[w].todo : q < s
    BY DEF RowsInv, WritersAscend
  <2> QED
    BY <1>3, <1>7, <2>1, <2>2
<1>12. t.mine \cap (row \cup pass.ins) = {} /\ \A x \in Writers \ {w} : t.mine \cap tx[x].mine = {}
  BY <1>3, <1>7 DEF RowsInv, TypeOK
<1> HIDE DEF t
<1> QED
  BY <1>2, <1>4, <1>5, <1>6, <1>8, <1>9, <1>10, <1>11, <1>12, TxRows

\* A rollback leaves nothing behind.
LEMMA RollbackRows ==
    ASSUME RowsInv, NEW w \in Writers, Rollback(w),
           UNCHANGED <<row, present, asserts, pass, counters, loading, due, moved>>
    PROVE  RowsInv'
<1>1. Idle \in Transactions
  BY DEF Idle, Transactions
<1>2. Idle.docs = {} /\ Idle.todo = {} /\ Idle.mine = {}
  BY DEF Idle
<1>3. due' \in BOOLEAN /\ moved' \in SUBSET Rows
  BY DEF RowsInv, TypeOK
<1>4. tx' = [tx EXCEPT ![w] = Idle]
  BY DEF Rollback
<1>5. /\ Idle.docs = {}
      /\ \A d \in Idle.docs : Idle.says[d] \in Contents[d]
      /\ Idle.mine \cup Idle.todo \subseteq Says(Idle.docs, Idle.says)
      /\ \A r \in Idle.mine, s \in Idle.todo : r < s
      /\ Idle.mine \cap (row \cup pass.ins) = {}
      /\ \A x \in Writers \ {w} : Idle.mine \cap tx[x].mine = {}
  BY <1>2
<1> QED
  BY <1>1, <1>3, <1>4, <1>5, TxRows

\* A commit publishes rows nobody else holds, and what its documents say.
LEMMA CommitWriteRows ==
    ASSUME RowsInv, NEW w \in Writers, CommitWrite(w)
    PROVE  RowsInv'
<1>1. tx \in [Writers -> Transactions] /\ tx[w] \in Transactions
  BY DEF RowsInv, TypeOK
<1>2. tx' = [tx EXCEPT ![w] = Idle] /\ Idle \in Transactions
  BY DEF CommitWrite, Idle, Transactions
<1>3. tx' \in [Writers -> Transactions] /\ \A x \in Writers : tx'[x] = IF x = w THEN Idle ELSE tx[x]
  BY <1>1, <1>2
<1>4. Idle.docs = {} /\ Idle.todo = {} /\ Idle.mine = {}
  BY DEF Idle
<1>5. /\ present' = present \cup tx[w].docs
      /\ asserts' = [d \in Docs |-> IF d \in tx[w].docs THEN tx[w].says[d] ELSE asserts[d]]
      /\ row' = row \cup tx[w].mine
      /\ UNCHANGED <<pass, counters, loading, due>>
  BY DEF CommitWrite, clock
<1>6. moved' \in SUBSET Rows
  <2>1. moved' = Moved(tx[w].docs, Says(tx[w].docs, tx[w].says))
    BY DEF CommitWrite
  <2> QED
    BY <2>1 DEF Moved, Says, RowsInv, TypeOK
<1>7. present' \in SUBSET Docs /\ asserts' \in [Docs -> SUBSET Rows] /\ row' \in SUBSET Rows
  BY <1>1, <1>5 DEF RowsInv, TypeOK, Transactions
<1>8. /\ \A x \in Writers : tx'[x].mine \cap (row' \cup pass'.ins) = {}
      /\ \A x, y \in Writers : x # y => tx'[x].mine \cap tx'[y].mine = {}
      /\ pass'.ins \cap row' = {} /\ pass'.del \subseteq row'
  BY <1>3, <1>4, <1>5 DEF RowsInv, TypeOK
<1>9. TypeOK'
  BY <1>3, <1>5, <1>6, <1>7, <1>8 DEF RowsInv, TypeOK
<1>10. ContentsHold'
  BY <1>3, <1>4, <1>5 DEF RowsInv, ContentsHold
<1>11. WritersAscend'
  BY <1>3, <1>4, <1>5 DEF RowsInv, WritersAscend, Busy
<1>12. PassShape'
  BY <1>5 DEF RowsInv, PassShape, Source
<1> QED
  BY <1>9, <1>10, <1>11, <1>12 DEF RowsInv

\* The purge takes documents away and no row.
LEMMA PurgeRows == RowsInv /\ Purge => RowsInv'
<1> SUFFICES ASSUME RowsInv, Purge PROVE RowsInv'
  OBVIOUS
<1>1. PICK D \in (SUBSET present) \ {{}} :
        /\ present' = present \ D
        /\ asserts' = [d \in Docs |-> IF d \in D THEN {} ELSE asserts[d]]
        /\ moved' = Moved(D, {})
  BY DEF Purge
<1>2. UNCHANGED <<row, tx, pass, counters, loading, due>>
  BY DEF Purge, clock
<1>3. moved' \in SUBSET Rows
  BY <1>1 DEF Moved, Says, RowsInv, TypeOK
<1>4. present' \in SUBSET Docs /\ asserts' \in [Docs -> SUBSET Rows]
  BY <1>1 DEF RowsInv, TypeOK
<1>5. TypeOK'
  BY <1>2, <1>3, <1>4 DEF RowsInv, TypeOK
<1>6. ContentsHold'
  BY <1>1, <1>2 DEF RowsInv, ContentsHold, TypeOK
<1>7. WritersAscend'
  BY <1>2 DEF RowsInv, WritersAscend, Busy
<1>8. PassShape'
  BY <1>2 DEF RowsInv, PassShape, Source
<1> QED
  BY <1>5, <1>6, <1>7, <1>8 DEF RowsInv

\* A statement of the pass keeps the invariant if the pass is still in order, and has inserted
\* and deleted only what it may.
LEMMA PassRows ==
    ASSUME RowsInv, pass' \in Passes, PassShape',
           UNCHANGED <<row, present, asserts, tx, counters, loading>>,
           due' \in BOOLEAN, moved' \in SUBSET Rows,
           \A w \in Writers : tx[w].mine \cap pass'.ins = {},
           pass'.ins \cap row = {}, pass'.del \subseteq row
    PROVE  RowsInv'
<1>1. TypeOK'
  BY DEF RowsInv, TypeOK
<1>2. ContentsHold'
  BY DEF RowsInv, ContentsHold
<1>3. WritersAscend'
  BY DEF RowsInv, WritersAscend, Busy
<1> QED
  BY <1>1, <1>2, <1>3 DEF RowsInv

\* A pass begins, and one that fails is forgotten.
LEMMA FreshPassRows ==
    ASSUME RowsInv,
           \/ pass' = NoPass
           \/ pass' = [NoPass EXCEPT !.pc = "count", !.step = 1],
           UNCHANGED <<row, present, asserts, tx, counters, loading>>,
           due' \in BOOLEAN, moved' \in SUBSET Rows
    PROVE  RowsInv'
<1>1. 1 \in Steps /\ Len(Additive) \in Nat
  BY AdditiveTypes
<1>2. NoPass \in Passes /\ NoCounters \in Counters
  BY <1>1 DEF NoCounters, Counters, NoPass, Passes, PassStates
<1>3. pass' \in Passes /\ pass'.ins = {} /\ pass'.del = {} /\ PassShape'
  <2>1. CASE pass' = NoPass
    BY <1>2, <2>1 DEF PassShape, NoPass
  <2>2. CASE pass' = [NoPass EXCEPT !.pc = "count", !.step = 1]
    <3>1. pass' \in Passes
      <4>1. 1 \in 0..Len(Additive)
        BY <1>1 DEF Steps
      <4> QED
        BY <1>2, <2>2, <4>1 DEF Passes, PassStates
    <3> QED
      BY <1>1, <2>2, <3>1 DEF PassShape, NoPass
  <2> QED
    BY <2>1, <2>2
<1> QED
  BY <1>3, PassRows

\* From one relation to the next, or to the counters.
LEMMA NextRelationShape ==
    ASSUME RowsInv, pass.pc \in {"count", "insert"}, pass.at = 0, pass.todo = {}
    PROVE  LET next == NextRelation
           IN  /\ next \in Passes /\ next.pc \in {"count", "counters"} /\ next.step \in Steps
               /\ next.at = 0 /\ next.todo = {} /\ next.asserted = {} /\ next.last = 0
               /\ next.ins = pass.ins /\ next.del = pass.del
<1>1. pass \in Passes /\ pass.step \in Steps /\ Len(Additive) \in Nat
  BY AdditiveTypes DEF RowsInv, TypeOK, PassShape
<1>0. 0 \in 0..NumDocs
  OBVIOUS
<1>2. pass.step # Len(Additive) => pass.step + 1 \in Steps
  BY <1>1 DEF Steps
<1>3. CASE pass.step = Len(Additive)
  <2>1. NextRelation = [pass EXCEPT !.pc = "counters", !.last = 0, !.asserted = {}]
    BY <1>1, <1>3 DEF NextRelation, Passes
  <2>2. NextRelation \in Passes
    BY <1>0, <1>1, <2>1 DEF Passes, PassStates
  <2> QED
    BY <1>1, <2>1, <2>2 DEF Passes
<1>4. CASE pass.step # Len(Additive)
  <2>1. NextRelation = [pass EXCEPT !.pc = "count", !.step = pass.step + 1, !.last = 0, !.asserted = {}]
    BY <1>1, <1>4 DEF NextRelation, Passes
  <2>2. pass.step + 1 \in 0..Len(Additive)
    BY <1>1, <1>2, <1>4 DEF Steps
  <2>3. NextRelation \in Passes
    BY <1>0, <1>1, <2>1, <2>2 DEF Passes, PassStates
  <2> QED
    BY <1>1, <1>2, <1>4, <2>1, <2>3 DEF Passes
<1> QED
  BY <1>3, <1>4

\* An empty table is skipped, another one is read from its first page.
LEMMA CountDocumentsRows == RowsInv /\ CountDocuments => RowsInv'
<1> SUFFICES ASSUME RowsInv, CountDocuments PROVE RowsInv'
  OBVIOUS
<1>1. pass \in Passes /\ pass.pc = "count" /\ pass.step \in Steps /\ pass.at = 0
      /\ pass.todo = {} /\ pass.asserted = {}
  BY DEF RowsInv, TypeOK, PassShape, CountDocuments
<1>2. UNCHANGED <<row, present, asserts, tx, counters, loading, due, moved>>
  BY DEF CountDocuments, PassStep, documents, clock
<1>3. pass' = NextRelation \/ pass' = [pass EXCEPT !.pc = "page"]
  BY DEF CountDocuments, PassStep
<1>4. pass' \in Passes /\ pass'.ins = pass.ins /\ pass'.del = pass.del /\ PassShape'
  <2>1. CASE pass' = NextRelation
    BY <1>1, <2>1, NextRelationShape DEF PassShape
  <2>2. CASE pass' = [pass EXCEPT !.pc = "page"]
    BY <1>1, <2>2 DEF PassShape, Passes, PassStates, Source
  <2> QED
    BY <1>3, <2>1, <2>2
<1>5. /\ due' \in BOOLEAN /\ moved' \in SUBSET Rows
      /\ \A w \in Writers : tx[w].mine \cap pass'.ins = {}
      /\ pass'.ins \cap row = {} /\ pass'.del \subseteq row
  BY <1>2, <1>4 DEF RowsInv, TypeOK
<1> QED
  BY <1>2, <1>4, <1>5, PassRows

\* A page adds edges of its own relation to what is asserted.
LEMMA ReadPageRows == RowsInv /\ ReadPage => RowsInv'
<1> SUFFICES ASSUME RowsInv, ReadPage PROVE RowsInv'
  OBVIOUS
<1>1. pass \in Passes /\ pass.pc = "page" /\ pass.step \in Steps /\ pass.at = 0
      /\ pass.todo = {} /\ pass.asserted \subseteq Source.rows
  BY DEF RowsInv, TypeOK, PassShape, ReadPage
<1>2. UNCHANGED <<row, present, asserts, tx, counters, loading, due, moved>>
  BY DEF ReadPage, PassStep, documents, clock
<1> DEFINE asserted == pass.asserted \cup (Says(Page, asserts) \cap Source.rows)
           last == IF Page = {} THEN pass.last ELSE CHOOSE d \in Page : \A c \in Page : c <= d
           read == [pass EXCEPT !.asserted = asserted, !.last = last]
<1>3. pass' = IF LastPage(Page) THEN [read EXCEPT !.pc = "insert", !.todo = asserted] ELSE read
  BY DEF ReadPage, PassStep
<1>4. asserted \subseteq Source.rows /\ asserted \subseteq Edges
  BY <1>1, AdditiveTypes DEF Source
<1>5. last \in 0..NumDocs
  <2>1. CASE Page = {}
    BY <1>1, <2>1 DEF Passes
  <2>2. CASE Page # {}
    BY <1>1, <2>2, PageEnds DEF Docs, RowsInv
  <2> QED
    BY <2>1, <2>2
<1> HIDE DEF asserted, last
<1>6. pass' \in Passes /\ pass'.ins = pass.ins /\ pass'.del = pass.del /\ PassShape'
  <2>1. CASE LastPage(Page)
    <3>1. pass' = [pass EXCEPT !.asserted = asserted, !.last = last, !.pc = "insert", !.todo = asserted]
      BY <1>1, <1>3, <2>1 DEF Passes
    <3> QED
      BY <1>1, <1>4, <1>5, <3>1 DEF PassShape, Passes, PassStates, Source
  <2>2. CASE ~LastPage(Page)
    BY <1>1, <1>3, <1>4, <1>5, <2>2 DEF PassShape, Passes, PassStates, Source
  <2> QED
    BY <2>1, <2>2
<1>7. /\ due' \in BOOLEAN /\ moved' \in SUBSET Rows
      /\ \A w \in Writers : tx[w].mine \cap pass'.ins = {}
      /\ pass'.ins \cap row = {} /\ pass'.del \subseteq row
  BY <1>2, <1>6 DEF RowsInv, TypeOK
<1> QED
  BY <1>2, <1>6, <1>7, PassRows

\* The insert takes an edge that no writer holds.
LEMMA InsertRows ==
    ASSUME RowsInv, InsertAsserted \/ \E r \in Rows : PickAsserted(r)
    PROVE  RowsInv'
<1>1. pass \in Passes /\ pass.pc = "insert" /\ pass.step \in Steps
      /\ pass.asserted \subseteq Source.rows /\ pass.todo \subseteq pass.asserted
      /\ (pass.at # 0 => pass.at \in pass.todo)
  BY DEF RowsInv, TypeOK, PassShape, InsertAsserted, PickAsserted
<1>2. UNCHANGED <<row, present, asserts, tx, counters, loading, due, moved>>
  BY DEF InsertAsserted, PickAsserted, PassStep, documents, clock
<1>3. due' \in BOOLEAN /\ moved' \in SUBSET Rows
  BY <1>2 DEF RowsInv, TypeOK
<1>4. ASSUME NEW r \in Rows, PickAsserted(r)
      PROVE  RowsInv'
  <2>1. pass' = [pass EXCEPT !.at = r] /\ r \in pass.todo /\ r \in 0..NumRows
    BY <1>4 DEF PickAsserted, PassStep, Rows
  <2>2. pass' \in Passes /\ pass'.ins = pass.ins /\ pass'.del = pass.del
    BY <1>1, <2>1 DEF Passes
  <2>3. PassShape'
    BY <1>1, <2>1 DEF PassShape, Passes, Source
  <2>4. /\ \A w \in Writers : tx[w].mine \cap pass'.ins = {}
        /\ pass'.ins \cap row = {} /\ pass'.del \subseteq row
    BY <2>2 DEF RowsInv, TypeOK
  <2> QED
    BY <1>2, <1>3, <2>2, <2>3, <2>4, PassRows
<1>5. ASSUME InsertAsserted
      PROVE  RowsInv'
  <2> DEFINE ins == IF pass.at \in row THEN pass.ins ELSE pass.ins \cup {pass.at}
  <2>1. pass' = [pass EXCEPT !.todo = @ \ {pass.at}, !.at = 0, !.ins = ins] /\ pass.at \in pass.todo
    BY <1>1, <1>5 DEF InsertAsserted, PassStep
  <2>2. pass.todo \ {pass.at} \subseteq Edges /\ ins \subseteq Edges /\ 0 \in 0..NumRows
    BY <1>1, <2>1 DEF Passes
  <2>3. \A w \in Writers : pass.at \notin tx[w].mine
    BY <1>5 DEF InsertAsserted
  <2>4. /\ \A w \in Writers : tx[w].mine \cap ins = {}
        /\ ins \cap row = {}
    BY <2>3 DEF RowsInv, TypeOK
  <2> HIDE DEF ins
  <2>5. pass' \in Passes /\ pass'.ins = ins /\ pass'.del = pass.del
    BY <1>1, <2>1, <2>2 DEF Passes
  <2>6. PassShape'
    BY <1>1, <2>1 DEF PassShape, Passes, Source
  <2>7. pass'.del \subseteq row
    BY <2>5 DEF RowsInv, TypeOK
  <2> QED
    BY <1>2, <1>3, <2>4, <2>5, <2>6, <2>7, PassRows
<1> QED
  BY <1>4, <1>5

\* The delete takes committed edges.
LEMMA DeleteUnassertedRows == RowsInv /\ DeleteUnasserted => RowsInv'
<1> SUFFICES ASSUME RowsInv, DeleteUnasserted PROVE RowsInv'
  OBVIOUS
<1>1. pass \in Passes /\ pass.pc = "insert" /\ pass.step \in Steps /\ pass.todo = {} /\ pass.at = 0
  BY DEF RowsInv, TypeOK, PassShape, DeleteUnasserted
<1>2. UNCHANGED <<row, present, asserts, tx, counters, loading, due, moved>>
  BY DEF DeleteUnasserted, PassStep, documents, clock
<1> DEFINE next == NextRelation
           del == next.del \cup ((Source.rows \cap row) \ pass.asserted)
<1>3. /\ next \in Passes /\ next.pc \in {"count", "counters"} /\ next.step \in Steps
      /\ next.at = 0 /\ next.todo = {} /\ next.asserted = {} /\ next.last = 0
      /\ next.ins = pass.ins /\ next.del = pass.del
  BY <1>1, NextRelationShape
<1>4. pass' = [next EXCEPT !.del = del]
  BY DEF DeleteUnasserted, PassStep
<1>5. del \subseteq Edges /\ del \subseteq row
  <2>1. pass.del \subseteq Edges /\ pass.del \subseteq row
    BY <1>1 DEF RowsInv, TypeOK, Passes
  <2>2. Source.rows \subseteq Edges
    BY <1>1, AdditiveTypes DEF Source
  <2> QED
    BY <1>3, <2>1, <2>2
<1> HIDE DEF next, del
<1>6. pass' \in Passes /\ pass'.ins = pass.ins /\ pass'.del = del
  BY <1>3, <1>4, <1>5 DEF Passes
<1>7. PassShape'
  BY <1>3, <1>4 DEF PassShape, Passes
<1>8. /\ due' \in BOOLEAN /\ moved' \in SUBSET Rows
      /\ \A w \in Writers : tx[w].mine \cap pass'.ins = {}
      /\ pass'.ins \cap row = {} /\ pass'.del \subseteq row
  BY <1>2, <1>5, <1>6 DEF RowsInv, TypeOK
<1> QED
  BY <1>2, <1>6, <1>7, <1>8, PassRows

\* The counters and path relations are computed, and no row changes.
LEMMA CountersRows ==
    ASSUME RowsInv, RefreshCounters \/ RefreshMemberUnion \/ RefreshVertexDegree
    PROVE  RowsInv'
<1>1. pass \in Passes /\ pass.step \in Steps /\ pass.at = 0 /\ pass.todo = {}
  BY DEF RowsInv, TypeOK, PassShape, RefreshCounters, RefreshMemberUnion, RefreshVertexDegree
<1>2. UNCHANGED <<row, present, asserts, tx, counters, loading, due, moved>>
  BY DEF RefreshCounters, RefreshMemberUnion, RefreshVertexDegree, PassStep, documents, clock
<1>3. PICK pc \in {"refresh_artist_member_of", "refresh_vertex_degree", "commit"}, new \in Counters :
        pass' = [pass EXCEPT !.pc = pc, !.new = new]
  <2>1. CounterBodies \in SUBSET Edges /\ pass.new \in Counters
    BY <1>1 DEF CounterBodies, Passes
  <2>2. CASE RefreshCounters
    <3>1. [pass.new EXCEPT !.degree = CounterBodies] \in Counters
      BY <2>1 DEF Counters
    <3>2. pass' = [pass EXCEPT !.pc = "refresh_artist_member_of", !.new = [pass.new EXCEPT !.degree = CounterBodies]]
      BY <1>1, <2>2 DEF RefreshCounters, PassStep, Passes
    <3> QED
      BY <3>1, <3>2
  <2>3. CASE RefreshMemberUnion
    <3>1. [pass.new EXCEPT !.union = CounterBodies] \in Counters
      BY <2>1 DEF Counters
    <3>2. pass' = [pass EXCEPT !.pc = "refresh_vertex_degree", !.new = [pass.new EXCEPT !.union = CounterBodies]]
      BY <1>1, <2>3 DEF RefreshMemberUnion, PassStep, Passes
    <3> QED
      BY <3>1, <3>2
  <2>4. CASE RefreshVertexDegree
    <3>1. [pass.new EXCEPT !.vertex = pass.new.union] \in Counters
      BY <2>1 DEF Counters
    <3>2. pass' = [pass EXCEPT !.pc = "commit", !.new = [pass.new EXCEPT !.vertex = pass.new.union]]
      BY <1>1, <2>4 DEF RefreshVertexDegree, PassStep, Passes
    <3> QED
      BY <3>1, <3>2
  <2> QED
    BY <2>2, <2>3, <2>4
<1>4. pass' \in Passes /\ pass'.ins = pass.ins /\ pass'.del = pass.del
  BY <1>1, <1>3 DEF Passes, PassStates
<1>5. PassShape'
  BY <1>1, <1>3 DEF PassShape, Passes
<1>6. /\ due' \in BOOLEAN /\ moved' \in SUBSET Rows
      /\ \A w \in Writers : tx[w].mine \cap pass'.ins = {}
      /\ pass'.ins \cap row = {} /\ pass'.del \subseteq row
  BY <1>2, <1>4 DEF RowsInv, TypeOK
<1> QED
  BY <1>2, <1>4, <1>5, <1>6, PassRows

\* The commit of the pass publishes edges nobody else holds.
LEMMA CommitPassRows == RowsInv /\ CommitPass => RowsInv'
<1> SUFFICES ASSUME RowsInv, CommitPass PROVE RowsInv'
  OBVIOUS
<1>1. row' = (row \ pass.del) \cup pass.ins /\ counters' = pass.new /\ pass' = NoPass
      /\ UNCHANGED <<present, asserts, tx, loading, due, moved>>
  BY DEF CommitPass, Visible, documents, clock
<1>2. NoPass \in Passes /\ NoPass.ins = {} /\ NoPass.del = {}
  BY AdditiveTypes DEF NoCounters, Counters, NoPass, Passes, PassStates
<1>3. row' \in SUBSET Rows /\ counters' \in Counters
  BY <1>1 DEF RowsInv, TypeOK, Passes, Edges
<1>4. TypeOK'
  BY <1>1, <1>2, <1>3 DEF RowsInv, TypeOK
<1>5. ContentsHold'
  BY <1>1 DEF RowsInv, ContentsHold
<1>6. WritersAscend'
  BY <1>1 DEF RowsInv, WritersAscend, Busy
<1>7. PassShape'
  BY <1>1 DEF PassShape, NoPass
<1> QED
  BY <1>4, <1>5, <1>6, <1>7 DEF RowsInv

\* RowsInv is inductive.
LEMMA RowsStep == RowsInv /\ [Next]_vars => RowsInv'
<1> SUFFICES ASSUME RowsInv, [Next]_vars PROVE RowsInv'
  OBVIOUS
<1>0. due \in BOOLEAN /\ moved \in SUBSET Rows
  BY DEF RowsInv, TypeOK
<1>1. CASE StartDump \/ CompleteDump
  BY <1>1, DumpRows
<1>2. CASE Purge
  BY <1>2, PurgeRows
<1>3. CASE BeginPass
  <2>1. /\ pass' = [NoPass EXCEPT !.pc = "count", !.step = 1]
        /\ UNCHANGED <<row, present, asserts, tx, counters, loading>>
        /\ due' \in BOOLEAN /\ moved' \in SUBSET Rows
    BY <1>3 DEF BeginPass, documents
  <2> QED
    BY <2>1, FreshPassRows
<1>4. CASE CountDocuments
  BY <1>4, CountDocumentsRows
<1>5. CASE ReadPage
  BY <1>5, ReadPageRows
<1>6. CASE InsertAsserted \/ \E r \in Rows : PickAsserted(r)
  BY <1>6, InsertRows
<1>7. CASE DeleteUnasserted
  BY <1>7, DeleteUnassertedRows
<1>8. CASE RefreshCounters \/ RefreshMemberUnion \/ RefreshVertexDegree
  BY <1>8, CountersRows
<1>9. CASE CommitPass
  BY <1>9, CommitPassRows
<1>10. CASE PassFails
  <2>1. /\ pass' = NoPass /\ due' \in BOOLEAN /\ moved' \in SUBSET Rows
        /\ UNCHANGED <<row, present, asserts, tx, counters, loading>>
    BY <1>0, <1>10 DEF PassFails, RetryPass, documents
  <2> QED
    BY <2>1, FreshPassRows
<1>11. ASSUME NEW w \in Writers, Write(w)
       PROVE  RowsInv'
  <2>1. CASE BeginWrite(w)
    BY <2>1, BeginWriteRows
  <2>2. CASE \E r \in Rows : InsertRow(w, r)
    BY <2>2, InsertRowRows
  <2>3. CASE CommitWrite(w)
    BY <2>3, CommitWriteRows
  <2>4. CASE WriteFails(w)
    <3>1. Rollback(w) /\ UNCHANGED <<row, present, asserts, pass, counters, loading, due, moved>>
      BY <2>4 DEF WriteFails, documents, clock
    <3> QED
      BY <3>1, RollbackRows
  <2>5. CASE DeadlockDetected(w)
    <3>1. CASE Rollback(w) /\ UNCHANGED <<pass, due>>
      <4>1. Rollback(w) /\ UNCHANGED <<row, present, asserts, pass, counters, loading, due, moved>>
        BY <2>5, <3>1 DEF DeadlockDetected, documents
      <4> QED
        BY <4>1, RollbackRows
    <3>2. CASE RetryPass /\ UNCHANGED tx
      <4>1. /\ pass' = NoPass /\ due' \in BOOLEAN /\ moved' \in SUBSET Rows
            /\ UNCHANGED <<row, present, asserts, tx, counters, loading>>
        BY <1>0, <2>5, <3>2 DEF DeadlockDetected, RetryPass, documents
      <4> QED
        BY <4>1, FreshPassRows
    <3> QED
      BY <2>5, <3>1, <3>2 DEF DeadlockDetected
  <2> QED
    BY <1>11, <2>1, <2>2, <2>3, <2>4, <2>5 DEF Write
<1>12. CASE UNCHANGED vars
  <2>1. UNCHANGED <<row, present, asserts, tx, pass, counters, loading, due, moved>>
    BY <1>12 DEF vars, documents, clock
  <2>2. TypeOK'
    BY <2>1 DEF RowsInv, TypeOK
  <2>3. ContentsHold'
    BY <2>1 DEF RowsInv, ContentsHold
  <2>4. WritersAscend'
    BY <2>1 DEF RowsInv, WritersAscend, Busy
  <2>5. PassShape'
    BY <2>1 DEF RowsInv, PassShape, Source
  <2> QED
    BY <2>2, <2>3, <2>4, <2>5 DEF RowsInv
<1> QED
  BY <1>1, <1>2, <1>3, <1>4, <1>5, <1>6, <1>7, <1>8, <1>9, <1>10, <1>11, <1>12 DEF Next, Pass

\* The state is well-typed and no two open transactions hold the same uncommitted row: an insert
\* waits for whoever has it.
THEOREM RowsTypeCorrect == Spec => []TypeOK
<1>1. RowsInv => TypeOK
  BY DEF RowsInv
<1> QED
  BY <1>1, InitRows, RowsStep, PTL DEF Spec

\* Writers that ascend never wait in a circle: the one that waits at the highest row waits for a
\* writer that has passed it, and so waits higher or not at all.
LEMMA AscendingNeverDeadlocks == RowsInv => WritersNeverDeadlock
<1> SUFFICES ASSUME RowsInv, NEW W \in SUBSET Writers, W # {},
                    \A w \in W : \E x \in W : Waits(w, x)
             PROVE  FALSE
  BY DEF WritersNeverDeadlock
<1> DEFINE Ends == {r \in Rows : \E w \in W : IsNext(w, r)}
<1>1. \A w \in W : \E r \in Rows : \E x \in W : IsNext(w, r) /\ r \in tx[x].mine
  BY DEF Waits
<1>2. Ends # {} /\ Ends \in SUBSET (1..NumRows)
  BY <1>1 DEF Rows
<1>3. Ends \in SUBSET Nat /\ IsFiniteSet(Ends)
  <2> HIDE DEF Ends
  <2> QED
    BY <1>2, FiniteParts
<1>4. PICK m \in Ends : \A r \in Ends : r <= m
  <2> HIDE DEF Ends
  <2> QED
    BY <1>2, <1>3, GreatestExists
<1>5. PICK w \in W : IsNext(w, m)
  OBVIOUS
<1>6. PICK r \in Rows, x \in W : IsNext(w, r) /\ r \in tx[x].mine
  BY <1>1
<1>7. PICK s \in Rows : IsNext(x, s)
  BY <1>1
<1>8. \A q \in Rows : q \in Int
  BY DEF Rows
<1>9. r = m
  BY <1>5, <1>6, <1>8 DEF IsNext
<1>10. r < s
  BY <1>6, <1>7 DEF IsNext, RowsInv, WritersAscend
<1>11. s <= m
  BY <1>4, <1>7
<1> QED
  BY <1>8, <1>9, <1>10, <1>11

\* graph_writer's ordering of relations and rows: whatever documents the concurrent batches hold,
\* no circle of writers waits for shared rows.
THEOREM WritersNeverDeadlockAlways == Spec => []WritersNeverDeadlock
<1> QED
  BY AscendingNeverDeadlocks, InitRows, RowsStep, PTL DEF Spec

-----------------------------------------------------------------------------
(* The pass beside the loads                                               *)

\* Only a document of the relation's own table asserts its edges.
LEMMA OwnTable ==
    ASSUME RowsInv, NEW k \in Steps, NEW e \in Additive[k].rows, NEW d \in present, e \in asserts[d]
    PROVE  d \in Additive[k].docs
<1>1. d \in Docs /\ asserts[d] \in Contents[d]
  BY DEF RowsInv, TypeOK, ContentsHold
<1> QED
  BY <1>1

\* Documents that come, change or go beside a pass disturb only what is recorded as moved.
LEMMA MovedCoversChanges ==
    ASSUME RowsInv, NEW D \in SUBSET Docs, NEW now \in SUBSET Rows,
           present' \in SUBSET Docs, present \ D \subseteq present', present' \ D \subseteq present,
           \A d \in Docs \ D : asserts'[d] = asserts[d],
           \A d \in D \cap present' : asserts'[d] \subseteq now,
           moved' = Moved(D, now)
    PROVE  /\ moved \subseteq moved'
           /\ \A e \in Rows \ moved' :
                /\ \A d \in present : e \in asserts[d] => d \in present' /\ e \in asserts'[d]
                /\ AssertedNow(e)' <=> AssertedNow(e)
           /\ \A k \in Steps : \A e \in Additive[k].rows \ moved' :
                (Additive[k].docs \cap present' = {}) <=> (Additive[k].docs \cap present = {})
<1>1. moved' = moved \cup Says(D, asserts) \cup now
        \cup {r \in Rows : \E k \in Steps : /\ r \in Additive[k].rows
                                            /\ (Additive[k].docs \cap present = {}) # (Additive[k].docs \cap present' = {})}
  BY DEF Moved
<1>2. \A e \in Rows \ moved' : \A d \in D : e \notin asserts[d]
  BY <1>1 DEF Says
<1>3. \A e \in Rows \ moved' : \A d \in D \cap present' : e \notin asserts'[d]
  BY <1>1
<1>4. present \in SUBSET Docs
  BY DEF RowsInv, TypeOK
<1>5. ASSUME NEW e \in Rows \ moved', NEW d \in present, e \in asserts[d]
      PROVE  d \in present' /\ e \in asserts'[d]
  BY <1>2, <1>4, <1>5
<1>6. ASSUME NEW e \in Rows \ moved', NEW d \in present', e \in asserts'[d]
      PROVE  d \in present /\ e \in asserts[d]
  BY <1>3, <1>6
<1>7. \A e \in Rows \ moved' : AssertedNow(e)' <=> AssertedNow(e)
  BY <1>5, <1>6 DEF AssertedNow
<1>8. ASSUME NEW k \in Steps, NEW e \in Additive[k].rows \ moved'
      PROVE  (Additive[k].docs \cap present' = {}) <=> (Additive[k].docs \cap present = {})
  <2>1. e \in Rows
    BY AdditiveTypes
  <2> QED
    BY <1>1, <2>1
<1> QED
  BY <1>1, <1>5, <1>7, <1>8

\* What did not move keeps what the pass knows of it.
LEMMA MovedKeepsPassInv ==
    ASSUME RowsInv, PassInv, pass' = pass, row \subseteq row',
           \A e \in row' \ row : e \in moved',
           moved \subseteq moved',
           \A e \in Rows \ moved' :
                /\ \A d \in present : e \in asserts[d] => d \in present' /\ e \in asserts'[d]
                /\ AssertedNow(e)' <=> AssertedNow(e),
           \A k \in Steps : \A e \in Additive[k].rows \ moved' :
                (Additive[k].docs \cap present' = {}) <=> (Additive[k].docs \cap present = {})
    PROVE  PassInv'
<1>1. \A k \in Steps : Done(k)' <=> Done(k)
  BY DEF Done, Reconciling
<1>2. \A k \in Steps : \A e \in Additive[k].rows : e \in Rows
  BY AdditiveTypes
<1>3. DoneIsExact'
  <2> SUFFICES ASSUME NEW k \in Steps, Done(k)', NEW e \in Additive[k].rows \ moved'
               PROVE  (IF Additive[k].docs \cap present = {} THEN e \notin pass.ins \cup pass.del
                                                             ELSE e \in Visible <=> AssertedNow(e))'
    BY DEF DoneIsExact
  <2>1. IF Additive[k].docs \cap present = {} THEN e \notin pass.ins \cup pass.del
                                              ELSE e \in Visible <=> AssertedNow(e)
    BY <1>1 DEF PassInv, DoneIsExact
  <2>2. (e \in Visible)' <=> e \in Visible
    BY DEF Visible
  <2> QED
    BY <1>2, <2>1, <2>2
<1>4. RestIsUntouched'
  BY <1>1 DEF PassInv, RestIsUntouched
<1>5. CurrentIsCollected'
  <2> SUFFICES ASSUME pass.pc \in {"page", "insert"} PROVE CurrentIsCollected'
    BY DEF CurrentIsCollected
  <2>1. pass.step \in Steps /\ Source' = Source /\ Source = Additive[pass.step]
    BY DEF RowsInv, PassShape, Source
  <2>2. (Source.docs \cap present = {} => Source.rows \subseteq moved)'
    BY <2>1 DEF PassInv, CurrentIsCollected
  <2>3. ASSUME NEW e \in Source.rows \ moved'
        PROVE  (/\ e \in pass.asserted => AssertedNow(e)
                /\ AssertedNow(e) => \/ e \in pass.asserted
                                     \/ pass.pc = "page" /\ \E d \in present : e \in asserts[d] /\ d > pass.last)'
    <3>1. e \in Rows \ moved' /\ e \notin moved
      BY <1>2, <2>1
    <3> QED
      BY <2>1, <3>1 DEF PassInv, CurrentIsCollected
  <2>4. (pass.pc = "insert" => /\ pass.asserted \ pass.todo \subseteq row \cup pass.ins
                               /\ pass.ins \cap Source.rows \subseteq pass.asserted)'
    BY <2>1 DEF PassInv, CurrentIsCollected
  <2> QED
    BY <2>1, <2>2, <2>3, <2>4 DEF CurrentIsCollected
<1> QED
  BY <1>3, <1>4, <1>5 DEF PassInv

\* A writer's commit beside the pass.
LEMMA CommitWritePass ==
    ASSUME RowsInv, PassInv, NEW w \in Writers, CommitWrite(w)
    PROVE  PassInv'
<1> DEFINE D == tx[w].docs
           now == Says(tx[w].docs, tx[w].says)
<1>1. tx[w] \in Transactions /\ D \in SUBSET Docs /\ now \in SUBSET Rows
  BY DEF RowsInv, TypeOK, Transactions, Says
<1>2. /\ present' = present \cup D
      /\ asserts' = [d \in Docs |-> IF d \in D THEN tx[w].says[d] ELSE asserts[d]]
      /\ moved' = Moved(D, now)
      /\ row' = row \cup tx[w].mine
      /\ pass' = pass
  BY DEF CommitWrite
<1>3. present \in SUBSET Docs /\ tx[w].mine \subseteq now /\ \A d \in Docs : tx[w].says[d] \in SUBSET Rows
  BY <1>1 DEF RowsInv, TypeOK, WritersAscend, Transactions
<1>4. \A d \in D \cap present' : asserts'[d] \subseteq now
  BY <1>1, <1>2, <1>3 DEF Says
<1>5. now \subseteq moved'
  BY <1>2 DEF Moved
<1> HIDE DEF D, now
<1>6. /\ moved \subseteq moved'
      /\ \A e \in Rows \ moved' :
           /\ \A d \in present : e \in asserts[d] => d \in present' /\ e \in asserts'[d]
           /\ AssertedNow(e)' <=> AssertedNow(e)
      /\ \A k \in Steps : \A e \in Additive[k].rows \ moved' :
           (Additive[k].docs \cap present' = {}) <=> (Additive[k].docs \cap present = {})
  <2>1. /\ present' \in SUBSET Docs /\ present \ D \subseteq present' /\ present' \ D \subseteq present
        /\ \A d \in Docs \ D : asserts'[d] = asserts[d]
    BY <1>1, <1>2, <1>3
  <2> QED
    BY <1>1, <1>2, <1>4, <2>1, MovedCoversChanges
<1>7. row \subseteq row' /\ \A e \in row' \ row : e \in moved'
  BY <1>2, <1>3, <1>5
<1> QED
  BY <1>2, <1>6, <1>7, MovedKeepsPassInv

\* The purge beside the pass.
LEMMA PurgePass == RowsInv /\ PassInv /\ Purge => PassInv'
<1> SUFFICES ASSUME RowsInv, PassInv, Purge PROVE PassInv'
  OBVIOUS
<1>1. PICK D \in (SUBSET present) \ {{}} :
        /\ present' = present \ D
        /\ asserts' = [d \in Docs |-> IF d \in D THEN {} ELSE asserts[d]]
        /\ moved' = Moved(D, {})
  BY DEF Purge
<1>2. row' = row /\ pass' = pass
  BY DEF Purge
<1>3. present \in SUBSET Docs
  BY DEF RowsInv, TypeOK
<1>4. /\ D \in SUBSET Docs /\ present' \in SUBSET Docs
      /\ present \ D \subseteq present' /\ present' \ D \subseteq present
      /\ \A d \in Docs \ D : asserts'[d] = asserts[d]
      /\ \A d \in D \cap present' : asserts'[d] \subseteq {}
  BY <1>1, <1>3
<1>5. /\ moved \subseteq moved'
      /\ \A e \in Rows \ moved' :
           /\ \A d \in present : e \in asserts[d] => d \in present' /\ e \in asserts'[d]
           /\ AssertedNow(e)' <=> AssertedNow(e)
      /\ \A k \in Steps : \A e \in Additive[k].rows \ moved' :
           (Additive[k].docs \cap present' = {}) <=> (Additive[k].docs \cap present = {})
  BY <1>1, <1>4, MovedCoversChanges
<1> QED
  BY <1>2, <1>5, MovedKeepsPassInv

\* A pass that has not begun, or just begins, has touched nothing.
LEMMA FreshPass ==
    ASSUME pass' = NoPass \/ pass' = [NoPass EXCEPT !.pc = "count", !.step = 1]
    PROVE  PassInv'
<1>1. pass'.ins = {} /\ pass'.del = {} /\ pass'.pc \in {"idle", "count"}
      /\ (pass'.pc = "count" => pass'.step = 1)
  <2>1. CASE pass' = NoPass
    BY <2>1 DEF NoPass
  <2>2. CASE pass' = [NoPass EXCEPT !.pc = "count", !.step = 1]
    BY <2>2 DEF NoPass
  <2> QED
    BY <2>1, <2>2
<1>2. \A k \in Steps : ~Done(k)'
  BY <1>1 DEF Done, Reconciling, Steps
<1> QED
  BY <1>1, <1>2 DEF PassInv, DoneIsExact, RestIsUntouched, CurrentIsCollected

\* The relation the pass leaves is the only one that is reconciled anew.
LEMMA OneMoreDone ==
    ASSUME RowsInv, pass.pc \in {"count", "insert"},
           pass'.pc = NextRelation.pc, pass'.step = NextRelation.step
    PROVE  /\ pass'.pc \in {"count", "counters"}
           /\ ~Done(pass.step)
           /\ \A k \in Steps : Done(k)' <=> Done(k) \/ k = pass.step
<1>1. pass \in Passes /\ pass.step \in Steps /\ Len(Additive) \in Nat
  BY AdditiveTypes DEF RowsInv, TypeOK, PassShape
<1>2. CASE pass.step = Len(Additive)
  <2>1. pass'.pc = "counters"
    BY <1>1, <1>2 DEF NextRelation, Passes
  <2> QED
    BY <1>1, <1>2, <2>1 DEF Done, Reconciling, Steps
<1>3. CASE pass.step # Len(Additive)
  <2>1. pass'.pc = "count" /\ pass'.step = pass.step + 1
    BY <1>1, <1>3 DEF NextRelation, Passes
  <2> QED
    BY <1>1, <1>3, <2>1 DEF Done, Reconciling, Steps
<1> QED
  BY <1>2, <1>3

\* A step of the pass that changes no edge keeps what is known of the relations behind it and
\* before it.
LEMMA SameEdges ==
    ASSUME RowsInv, PassInv, UNCHANGED <<row, present, asserts, moved>>,
           pass'.ins = pass.ins, pass'.del = pass.del,
           \A k \in Steps : Done(k)' <=> Done(k),
           pass.pc = "insert" => pass'.pc = "insert", pass'.step = pass.step
    PROVE  DoneIsExact' /\ RestIsUntouched'
<1>1. Visible' = Visible /\ \A e : AssertedNow(e)' <=> AssertedNow(e)
  BY DEF Visible, AssertedNow
<1>2. DoneIsExact'
  BY <1>1 DEF PassInv, DoneIsExact
<1>3. RestIsUntouched'
  BY DEF PassInv, RestIsUntouched
<1> QED
  BY <1>2, <1>3

\* Counting: the empty table's relation is done as it is.
LEMMA CountDocumentsPass == RowsInv /\ PassInv /\ CountDocuments => PassInv'
<1> SUFFICES ASSUME RowsInv, PassInv, CountDocuments PROVE PassInv'
  OBVIOUS
<1>1. pass \in Passes /\ pass.pc = "count" /\ pass.step \in Steps /\ pass.at = 0
      /\ pass.todo = {} /\ pass.asserted = {} /\ pass.last = 0
  BY DEF RowsInv, TypeOK, PassShape, CountDocuments
<1>2. UNCHANGED <<row, present, asserts, moved>>
  BY DEF CountDocuments, PassStep, documents
<1>3. Source = Additive[pass.step] /\ ~Done(pass.step)
  BY <1>1 DEF Source, Done, Reconciling, Steps
<1>4. pass.ins \cap Source.rows = {} /\ pass.del \cap Source.rows = {}
  BY <1>1, <1>3 DEF PassInv, RestIsUntouched
<1>5. Visible' = (row \ pass'.del) \cup pass'.ins /\ \A e : AssertedNow(e)' <=> AssertedNow(e)
  BY <1>2 DEF Visible, AssertedNow
<1>6. CASE Source.docs \cap present = {}
  <2>1. pass' = NextRelation
    BY <1>6 DEF CountDocuments, PassStep
  <2>2. pass'.ins = pass.ins /\ pass'.del = pass.del
    BY <1>1, <2>1, NextRelationShape
  <2>3. pass'.pc \in {"count", "counters"} /\ \A k \in Steps : Done(k)' <=> Done(k) \/ k = pass.step
    BY <1>1, <2>1, OneMoreDone
  <2>4. Visible' = Visible
    BY <1>5, <2>2 DEF Visible
  <2>5. DoneIsExact'
    <3> SUFFICES ASSUME NEW k \in Steps, Done(k)', NEW e \in Additive[k].rows \ moved'
                 PROVE  (IF Additive[k].docs \cap present = {} THEN e \notin pass.ins \cup pass.del
                                                               ELSE e \in Visible <=> AssertedNow(e))'
      BY DEF DoneIsExact
    <3>1. CASE k = pass.step
      BY <1>2, <1>3, <1>4, <1>6, <2>2, <3>1
    <3>2. CASE Done(k)
      BY <1>2, <1>5, <2>2, <2>4, <3>2 DEF PassInv, DoneIsExact
    <3> QED
      BY <2>3, <3>1, <3>2
  <2>6. RestIsUntouched'
    BY <2>2, <2>3, <1>1 DEF PassInv, RestIsUntouched
  <2> QED
    BY <2>3, <2>5, <2>6 DEF PassInv, CurrentIsCollected
<1>7. CASE Source.docs \cap present # {}
  <2>1. pass' = [pass EXCEPT !.pc = "page"]
    BY <1>7 DEF CountDocuments, PassStep
  <2>2. /\ pass'.ins = pass.ins /\ pass'.del = pass.del /\ pass'.step = pass.step /\ pass'.pc = "page"
        /\ pass'.asserted = {} /\ pass'.last = 0
    BY <1>1, <2>1 DEF Passes
  <2>3. \A k \in Steps : Done(k)' <=> Done(k)
    BY <1>1, <2>2 DEF Done, Reconciling
  <2>4. Source' = Source
    BY <2>2 DEF Source
  <2>5. CurrentIsCollected'
    <3>1. \A d \in present : d > 0
      <4>1. \A d \in present : d \in 1..NumDocs
        BY DEF RowsInv, TypeOK, Docs
      <4> QED
        BY <4>1
    <3> QED
      BY <1>2, <1>7, <2>2, <2>4, <3>1 DEF CurrentIsCollected, AssertedNow
  <2>6. DoneIsExact' /\ RestIsUntouched'
    BY <1>1, <1>2, <2>2, <2>3, SameEdges
  <2> QED
    BY <2>5, <2>6 DEF PassInv
<1> QED
  BY <1>6, <1>7

\* Reading a page: what the documents up to the new last one assert has been collected.
LEMMA ReadPagePass == RowsInv /\ PassInv /\ ReadPage => PassInv'
<1> SUFFICES ASSUME RowsInv, PassInv, ReadPage PROVE PassInv'
  OBVIOUS
<1>1. pass \in Passes /\ pass.pc = "page" /\ pass.step \in Steps
      /\ pass.todo = {} /\ pass.asserted \subseteq Source.rows
  BY DEF RowsInv, TypeOK, PassShape, ReadPage
<1>2. UNCHANGED <<row, present, asserts, moved>>
  BY DEF ReadPage, PassStep, documents
<1> DEFINE asserted == pass.asserted \cup (Says(Page, asserts) \cap Source.rows)
           last == IF Page = {} THEN pass.last ELSE CHOOSE d \in Page : \A c \in Page : c <= d
           read == [pass EXCEPT !.asserted = asserted, !.last = last]
<1>3. pass' = IF LastPage(Page) THEN [read EXCEPT !.pc = "insert", !.todo = asserted] ELSE read
  BY DEF ReadPage, PassStep
<1>4. /\ pass'.asserted = asserted /\ pass'.last = last /\ pass'.step = pass.step
      /\ pass'.ins = pass.ins /\ pass'.del = pass.del
      /\ pass'.pc = IF LastPage(Page) THEN "insert" ELSE "page"
      /\ pass'.todo = IF LastPage(Page) THEN asserted ELSE {}
  <2> HIDE DEF asserted, last
  <2>1. CASE LastPage(Page)
    BY <1>1, <1>3, <2>1 DEF Passes
  <2>2. CASE ~LastPage(Page)
    BY <1>1, <1>3, <2>2 DEF Passes
  <2> QED
    BY <2>1, <2>2
<1>5. \A k \in Steps : Done(k)' <=> Done(k)
  BY <1>1, <1>4 DEF Done, Reconciling
<1>6. DoneIsExact' /\ RestIsUntouched'
  BY <1>1, <1>2, <1>4, <1>5, SameEdges
<1>7. Source' = Source /\ Source = Additive[pass.step] /\ \A e : AssertedNow(e)' <=> AssertedNow(e)
  BY <1>2, <1>4 DEF Source, AssertedNow
<1>8. Page \subseteq Candidates /\ Candidates \subseteq present /\ present \subseteq Docs
  BY DEF Page, Candidates, RowsInv, TypeOK
<1>9. ASSUME NEW e \in Source.rows \ moved
      PROVE  /\ e \in asserted => AssertedNow(e)
             /\ AssertedNow(e) => \/ e \in asserted
                                  \/ ~LastPage(Page) /\ \E d \in present : e \in asserts[d] /\ d > last
  <2>1. e \in asserted => AssertedNow(e)
    <3>1. CASE e \in pass.asserted
      BY <1>1, <3>1 DEF PassInv, CurrentIsCollected
    <3>2. CASE e \in Says(Page, asserts)
      BY <1>8, <3>2 DEF Says, AssertedNow
    <3> QED
      BY <3>1, <3>2
  <2>2. ASSUME AssertedNow(e), e \notin asserted
        PROVE  ~LastPage(Page) /\ \E d \in present : e \in asserts[d] /\ d > last
    <3>1. PICK d \in present : e \in asserts[d] /\ d > pass.last
      BY <1>1, <2>2 DEF PassInv, CurrentIsCollected
    <3>2. d \in Candidates
      BY <1>1, <1>7, <3>1, OwnTable DEF Candidates
    <3>3. d \notin Page
      <4>1. e \in Rows
        BY <1>1, <1>7, AdditiveTypes
      <4> QED
        BY <2>2, <3>1, <4>1 DEF Says
    <3>4. (\A c \in Page : c < d) /\ ~LastPage(Page)
      BY <1>1, <3>2, <3>3, PagesMissNothing DEF RowsInv
    <3>5. d > last
      <4>1. CASE Page = {}
        BY <3>1, <4>1
      <4>2. CASE Page # {}
        <5>1. last \in Page /\ last \in Docs
          BY <1>1, <4>2, PageEnds DEF RowsInv
        <5>2. last \in Int /\ d \in Int
          BY <1>8, <5>1 DEF Docs
        <5>3. last < d
          BY <3>4, <5>1
        <5> HIDE DEF last
        <5> QED
          BY <5>2, <5>3
      <4> QED
        BY <4>1, <4>2
    <3> QED
      BY <3>1, <3>4, <3>5
  <2> QED
    BY <2>1, <2>2
<1>10. Source.docs \cap present = {} => Source.rows \subseteq moved
  BY <1>1 DEF PassInv, CurrentIsCollected
<1>11. pass.ins \cap Source.rows = {}
  BY <1>1, <1>7 DEF PassInv, RestIsUntouched, Done, Reconciling, Steps
<1> HIDE DEF asserted, last
<1>12. CurrentIsCollected'
  BY <1>2, <1>4, <1>7, <1>9, <1>10, <1>11 DEF CurrentIsCollected
<1> QED
  BY <1>6, <1>12 DEF PassInv

\* Inserting: an edge leaves the list once it is there.
LEMMA InsertPass ==
    ASSUME RowsInv, PassInv, InsertAsserted \/ \E r \in Rows : PickAsserted(r)
    PROVE  PassInv'
<1>1. pass \in Passes /\ pass.pc = "insert" /\ pass.step \in Steps
      /\ pass.asserted \subseteq Source.rows /\ pass.todo \subseteq pass.asserted
      /\ (pass.at # 0 => pass.at \in pass.todo)
  BY DEF RowsInv, TypeOK, PassShape, InsertAsserted, PickAsserted
<1>2. UNCHANGED <<row, present, asserts, moved>>
  BY DEF InsertAsserted, PickAsserted, PassStep, documents
<1>3. CASE \E r \in Rows : PickAsserted(r)
  <2>1. PICK r \in Rows : pass' = [pass EXCEPT !.at = r]
    BY <1>3 DEF PickAsserted, PassStep
  <2>2. /\ pass'.ins = pass.ins /\ pass'.del = pass.del /\ pass'.step = pass.step /\ pass'.pc = pass.pc
        /\ pass'.asserted = pass.asserted /\ pass'.last = pass.last /\ pass'.todo = pass.todo
    BY <1>1, <2>1 DEF Passes
  <2>3. \A k \in Steps : Done(k)' <=> Done(k)
    BY <2>2 DEF Done, Reconciling
  <2>4. Source' = Source /\ \A e : AssertedNow(e)' <=> AssertedNow(e)
    BY <1>2, <2>2 DEF Source, AssertedNow
  <2>5. DoneIsExact' /\ RestIsUntouched'
    BY <1>1, <1>2, <2>2, <2>3, SameEdges
  <2>6. CurrentIsCollected'
    BY <1>1, <1>2, <2>2, <2>4 DEF PassInv, CurrentIsCollected
  <2> QED
    BY <2>5, <2>6 DEF PassInv
<1>4. CASE InsertAsserted
  <2> DEFINE ins == IF pass.at \in row THEN pass.ins ELSE pass.ins \cup {pass.at}
  <2>1. pass' = [pass EXCEPT !.todo = @ \ {pass.at}, !.at = 0, !.ins = ins] /\ pass.at \in pass.todo
    BY <1>1, <1>4 DEF InsertAsserted, PassStep
  <2>2. /\ pass'.ins = ins /\ pass'.del = pass.del /\ pass'.step = pass.step /\ pass'.pc = pass.pc
        /\ pass'.asserted = pass.asserted /\ pass'.last = pass.last /\ pass'.todo = pass.todo \ {pass.at}
    <3> HIDE DEF ins
    <3> QED
      BY <1>1, <2>1 DEF Passes
  <2>3. \A k \in Steps : Done(k)' <=> Done(k)
    BY <2>2 DEF Done, Reconciling
  <2>4. Source' = Source /\ Source = Additive[pass.step] /\ \A e : AssertedNow(e)' <=> AssertedNow(e)
    BY <1>2, <2>2 DEF Source, AssertedNow
  <2>5. pass.at \in Source.rows /\ \A k \in Steps : k # pass.step => pass.at \notin Additive[k].rows
    BY <1>1, <2>1, <2>4
  <2>6. ~Done(pass.step)
    BY <1>1 DEF Done, Reconciling, Steps
  <2>7. \A k \in Steps : k # pass.step => pass'.ins \cap Additive[k].rows = pass.ins \cap Additive[k].rows
    BY <2>2, <2>5
  <2>8. DoneIsExact'
    <3> SUFFICES ASSUME NEW k \in Steps, Done(k)', NEW e \in Additive[k].rows \ moved'
                 PROVE  (IF Additive[k].docs \cap present = {} THEN e \notin pass.ins \cup pass.del
                                                               ELSE e \in Visible <=> AssertedNow(e))'
      BY DEF DoneIsExact
    <3>1. Done(k) /\ k # pass.step
      BY <2>3, <2>6
    <3>2. (e \in Visible)' <=> e \in Visible
      BY <1>2, <2>2, <2>7, <3>1 DEF Visible
    <3>3. (e \in pass.ins \cup pass.del)' <=> e \in pass.ins \cup pass.del
      BY <2>2, <2>7, <3>1
    <3> QED
      BY <1>2, <2>4, <3>1, <3>2, <3>3 DEF PassInv, DoneIsExact
  <2>9. RestIsUntouched'
    BY <1>1, <2>2, <2>3, <2>7 DEF PassInv, RestIsUntouched
  <2>10. CurrentIsCollected'
    <3>1. (pass.asserted \ pass.todo \subseteq row \cup pass.ins)'
      BY <1>1, <1>2, <2>2 DEF PassInv, CurrentIsCollected
    <3>2. (pass.ins \cap Source.rows \subseteq pass.asserted)'
      BY <1>1, <2>1, <2>2, <2>4 DEF PassInv, CurrentIsCollected
    <3> QED
      BY <1>1, <1>2, <2>2, <2>4, <3>1, <3>2 DEF PassInv, CurrentIsCollected
  <2> QED
    BY <2>8, <2>9, <2>10 DEF PassInv
<1> QED
  BY <1>3, <1>4

\* Deleting: with all asserted edges there and the others gone, the relation is exact.
LEMMA DeleteUnassertedPass == RowsInv /\ PassInv /\ DeleteUnasserted => PassInv'
<1> SUFFICES ASSUME RowsInv, PassInv, DeleteUnasserted PROVE PassInv'
  OBVIOUS
<1>1. pass \in Passes /\ pass.pc = "insert" /\ pass.step \in Steps /\ pass.todo = {} /\ pass.at = 0
      /\ pass.ins \cap row = {}
  BY DEF RowsInv, TypeOK, PassShape, DeleteUnasserted
<1>2. UNCHANGED <<row, present, asserts, moved>>
  BY DEF DeleteUnasserted, PassStep, documents
<1> DEFINE next == NextRelation
           gone == (Source.rows \cap row) \ pass.asserted
<1>3. next \in Passes /\ next.ins = pass.ins /\ next.del = pass.del
  BY <1>1, NextRelationShape
<1>4. pass' = [next EXCEPT !.del = next.del \cup gone]
  BY DEF DeleteUnasserted, PassStep
<1>5. pass'.ins = pass.ins /\ pass'.del = pass.del \cup gone /\ pass'.pc = next.pc /\ pass'.step = next.step
  <2> HIDE DEF next, gone
  <2> QED
    BY <1>3, <1>4 DEF Passes
<1>6. /\ pass'.pc \in {"count", "counters"} /\ ~Done(pass.step)
      /\ \A k \in Steps : Done(k)' <=> Done(k) \/ k = pass.step
  BY <1>1, <1>5, OneMoreDone
<1>7. Source = Additive[pass.step] /\ \A e : AssertedNow(e)' <=> AssertedNow(e)
  BY <1>2 DEF Source, AssertedNow
<1>8. \A k \in Steps : k # pass.step => gone \cap Additive[k].rows = {}
  BY <1>1, <1>7
<1>9. pass.del \cap Source.rows = {}
  BY <1>1, <1>6, <1>7 DEF PassInv, RestIsUntouched
<1>10. Visible' = (row \ (pass.del \cup gone)) \cup pass.ins
  BY <1>2, <1>5 DEF Visible
<1>11. DoneIsExact'
  <2> SUFFICES ASSUME NEW k \in Steps, Done(k)', NEW e \in Additive[k].rows \ moved'
               PROVE  (IF Additive[k].docs \cap present = {} THEN e \notin pass.ins \cup pass.del
                                                             ELSE e \in Visible <=> AssertedNow(e))'
    BY DEF DoneIsExact
  <2>1. CASE k = pass.step
    <3>1. e \in Source.rows /\ e \notin moved /\ Source.docs \cap present # {}
      BY <1>1, <1>2, <1>7, <2>1 DEF PassInv, CurrentIsCollected
    <3>2. e \in pass.asserted <=> AssertedNow(e)
      BY <1>1, <3>1 DEF PassInv, CurrentIsCollected
    <3>3. e \in pass.asserted => e \in row \cup pass.ins
      BY <1>1 DEF PassInv, CurrentIsCollected
    <3>4. e \in pass.ins => e \in pass.asserted
      BY <1>1, <3>1 DEF PassInv, CurrentIsCollected
    <3>5. (e \in Visible)' <=> e \in pass.asserted
      BY <1>1, <1>9, <1>10, <3>1, <3>3, <3>4
    <3> QED
      BY <1>2, <1>7, <2>1, <3>1, <3>2, <3>5
  <2>2. CASE Done(k) /\ k # pass.step
    <3>1. e \notin gone
      BY <1>8, <2>2
    <3>2. (e \in Visible)' <=> e \in Visible
      BY <1>10, <3>1 DEF Visible
    <3>3. (e \in pass.ins \cup pass.del)' <=> e \in pass.ins \cup pass.del
      BY <1>5, <3>1
    <3> QED
      BY <1>2, <1>7, <2>2, <3>2, <3>3 DEF PassInv, DoneIsExact
  <2> QED
    BY <1>6, <2>1, <2>2
<1>12. RestIsUntouched'
  <2> HIDE DEF gone
  <2> QED
    BY <1>5, <1>6, <1>8 DEF PassInv, RestIsUntouched
<1> QED
  BY <1>6, <1>11, <1>12 DEF PassInv, CurrentIsCollected

\* Computing counters and path relations touches no edge.
LEMMA CountersPass ==
    ASSUME RowsInv, PassInv, RefreshCounters \/ RefreshMemberUnion \/ RefreshVertexDegree
    PROVE  PassInv'
<1>1. pass \in Passes /\ pass.pc \in {"counters", "refresh_artist_member_of", "refresh_vertex_degree"}
  BY DEF RowsInv, TypeOK, RefreshCounters, RefreshMemberUnion, RefreshVertexDegree
<1>2. UNCHANGED <<row, present, asserts, moved>>
  BY DEF RefreshCounters, RefreshMemberUnion, RefreshVertexDegree, PassStep, documents
<1>3. /\ pass'.ins = pass.ins /\ pass'.del = pass.del /\ pass'.step = pass.step
      /\ pass'.pc \in {"refresh_artist_member_of", "refresh_vertex_degree", "commit"}
  BY <1>1 DEF RefreshCounters, RefreshMemberUnion, RefreshVertexDegree, PassStep, Passes
<1>4. \A k \in Steps : Done(k)' <=> Done(k)
  BY <1>1, <1>3 DEF Done, Reconciling
<1>5. DoneIsExact' /\ RestIsUntouched'
  BY <1>1, <1>2, <1>3, <1>4, SameEdges
<1> QED
  BY <1>3, <1>5 DEF PassInv, CurrentIsCollected

\* A step that touches neither the pass nor documents nor committed rows.
LEMMA IdleForPass ==
    ASSUME RowsInv, PassInv, UNCHANGED <<row, present, asserts, pass, moved>>
    PROVE  PassInv'
<1>1. \A e : AssertedNow(e)' <=> AssertedNow(e)
  BY DEF AssertedNow
<1> QED
  BY <1>1, MovedKeepsPassInv

\* PassInv is inductive, given RowsInv.
LEMMA PassInvStep == RowsInv /\ PassInv /\ [Next]_vars => PassInv'
<1> SUFFICES ASSUME RowsInv, PassInv, [Next]_vars PROVE PassInv'
  OBVIOUS
<1>1. CASE StartDump \/ CompleteDump
  BY <1>1, IdleForPass DEF StartDump, CompleteDump, documents
<1>2. CASE Purge
  BY <1>2, PurgePass
<1>3. CASE BeginPass
  BY <1>3, FreshPass DEF BeginPass
<1>4. CASE CountDocuments
  BY <1>4, CountDocumentsPass
<1>5. CASE ReadPage
  BY <1>5, ReadPagePass
<1>6. CASE InsertAsserted \/ \E r \in Rows : PickAsserted(r)
  BY <1>6, InsertPass
<1>7. CASE DeleteUnasserted
  BY <1>7, DeleteUnassertedPass
<1>8. CASE RefreshCounters \/ RefreshMemberUnion \/ RefreshVertexDegree
  BY <1>8, CountersPass
<1>9. CASE CommitPass
  BY <1>9, FreshPass DEF CommitPass
<1>10. CASE PassFails
  BY <1>10, FreshPass DEF PassFails, RetryPass
<1>11. ASSUME NEW w \in Writers, Write(w)
       PROVE  PassInv'
  <2>1. CASE BeginWrite(w)
    BY <2>1, IdleForPass DEF BeginWrite, documents
  <2>2. CASE \E r \in Rows : InsertRow(w, r)
    BY <2>2, IdleForPass DEF InsertRow, documents
  <2>3. CASE CommitWrite(w)
    BY <2>3, CommitWritePass
  <2>4. CASE WriteFails(w)
    BY <2>4, IdleForPass DEF WriteFails, documents
  <2>5. CASE DeadlockDetected(w)
    <3>1. CASE Rollback(w) /\ UNCHANGED <<pass, due>>
      BY <2>5, <3>1, IdleForPass DEF DeadlockDetected, documents
    <3>2. CASE RetryPass /\ UNCHANGED tx
      BY <3>2, FreshPass DEF RetryPass
    <3> QED
      BY <2>5, <3>1, <3>2 DEF DeadlockDetected
  <2> QED
    BY <1>11, <2>1, <2>2, <2>3, <2>4, <2>5 DEF Write
<1>12. CASE UNCHANGED vars
  BY <1>12, IdleForPass DEF vars, documents
<1> QED
  BY <1>1, <1>2, <1>3, <1>4, <1>5, <1>6, <1>7, <1>8, <1>9, <1>10, <1>11, <1>12 DEF Next, Pass

-----------------------------------------------------------------------------
(* What is published                                                       *)

\* Initially no pass runs and one is owed.
LEMMA InitGraph == Init => GraphInv
<1> SUFFICES ASSUME Init PROVE GraphInv
  OBVIOUS
<1>1. pass = NoPass /\ NoPass.pc = "idle" /\ NoPass.ins = {} /\ NoPass.del = {} /\ due = TRUE
  BY DEF Init, NoPass
<1>2. PassInv
  BY <1>1 DEF PassInv, DoneIsExact, Done, RestIsUntouched, CurrentIsCollected
<1>3. QuietPass /\ SettledGraphIsReconciled
  BY <1>1 DEF QuietPass, SettledGraphIsReconciled
<1>4. UnionIsSummed
  BY <1>1 DEF UnionIsSummed, DegreesSumTheUnion, Init, NoCounters
<1> QED
  BY <1>2, <1>3, <1>4, InitRows DEF GraphInv

\* refresh_artist_member_of runs before refresh_vertex_degree, and both commit together.
LEMMA UnionStep == RowsInv /\ UnionIsSummed /\ [Next]_vars => UnionIsSummed'
<1> SUFFICES ASSUME RowsInv, UnionIsSummed, [Next]_vars PROVE UnionIsSummed'
  OBVIOUS
<1>0. pass \in Passes /\ pass.new \in Counters
  BY DEF RowsInv, TypeOK, Passes
<1>1. CASE pass' = pass /\ counters' = counters
  BY <1>1 DEF UnionIsSummed, DegreesSumTheUnion
<1>2. CASE counters' = counters /\ pass'.pc # "commit"
  BY <1>2 DEF UnionIsSummed, DegreesSumTheUnion
<1>3. CASE BeginPass \/ PassFails \/ (RetryPass /\ UNCHANGED counters)
  <2>1. counters' = counters
    BY <1>3 DEF BeginPass, PassFails
  <2>2. pass' = NoPass \/ pass' = [NoPass EXCEPT !.pc = "count", !.step = 1]
    BY <1>3 DEF BeginPass, PassFails, RetryPass
  <2>3. NoPass.pc # "commit" /\ [NoPass EXCEPT !.pc = "count", !.step = 1].pc # "commit"
    BY DEF NoPass
  <2> QED
    BY <1>2, <2>1, <2>2, <2>3
<1>4. CASE CountDocuments
  <2>1. counters' = counters /\ pass'.pc # "commit"
    BY <1>0, <1>4 DEF CountDocuments, PassStep, NextRelation, Passes
  <2> QED
    BY <1>2, <2>1
<1>5. CASE ReadPage
  <2>1. counters' = counters /\ pass'.pc # "commit"
    BY <1>0, <1>5 DEF ReadPage, PassStep, Passes
  <2> QED
    BY <1>2, <2>1
<1>6. CASE InsertAsserted \/ \E r \in Rows : PickAsserted(r)
  <2>1. counters' = counters /\ pass'.pc # "commit"
    BY <1>0, <1>6 DEF InsertAsserted, PickAsserted, PassStep, Passes
  <2> QED
    BY <1>2, <2>1
<1>7. CASE DeleteUnasserted
  <2>1. counters' = counters /\ pass'.pc # "commit"
    BY <1>0, <1>7 DEF DeleteUnasserted, PassStep, NextRelation, Passes
  <2> QED
    BY <1>2, <2>1
<1>8. CASE RefreshCounters \/ RefreshMemberUnion
  <2>1. counters' = counters /\ pass'.pc # "commit"
    BY <1>0, <1>8 DEF RefreshCounters, RefreshMemberUnion, PassStep, Passes
  <2> QED
    BY <1>2, <2>1
<1>9. CASE RefreshVertexDegree
  <2>1. counters' = counters /\ pass'.new = [pass.new EXCEPT !.vertex = pass.new.union]
    BY <1>0, <1>9 DEF RefreshVertexDegree, PassStep, Passes
  <2>2. pass'.new.vertex = pass'.new.union
    BY <1>0, <2>1 DEF Counters
  <2> QED
    BY <2>1, <2>2 DEF UnionIsSummed, DegreesSumTheUnion
<1>10. CASE CommitPass
  <2>1. counters' = pass.new /\ pass.new.vertex = pass.new.union /\ pass'.pc = "idle"
    BY <1>10 DEF CommitPass, UnionIsSummed, NoPass
  <2> QED
    BY <2>1 DEF UnionIsSummed, DegreesSumTheUnion
<1>11. CASE StartDump \/ CompleteDump \/ Purge \/ UNCHANGED vars
  BY <1>1, <1>11 DEF StartDump, CompleteDump, Purge, vars
<1>12. ASSUME NEW w \in Writers, Write(w)
       PROVE  UnionIsSummed'
  <2>1. CASE BeginWrite(w) \/ CommitWrite(w) \/ WriteFails(w) \/ \E r \in Rows : InsertRow(w, r)
    BY <1>1, <2>1 DEF BeginWrite, CommitWrite, WriteFails, InsertRow
  <2>2. CASE DeadlockDetected(w)
    BY <1>1, <1>3, <2>2 DEF DeadlockDetected
  <2> QED
    BY <1>12, <2>1, <2>2 DEF Write
<1> QED
  BY <1>3, <1>4, <1>5, <1>6, <1>7, <1>8, <1>9, <1>10, <1>11, <1>12 DEF Next, Pass

\* While nothing is loaded and no other pass is owed, documents and edges stand still, and what
\* the pass counts stays so.
LEMMA QuietStep == RowsInv /\ QuietPass /\ [Next]_vars => QuietPass'
<1> SUFFICES ASSUME RowsInv, QuietPass, [Next]_vars, ~loading', ~due', pass'.pc # "idle"
             PROVE  QuietPass'
  BY DEF QuietPass
<1> DEFINE Late == {"refresh_artist_member_of", "refresh_vertex_degree", "commit"}
<1>0. pass \in Passes /\ pass.new \in Counters
  BY DEF RowsInv, TypeOK, Passes
<1>1. CASE UNCHANGED <<row, pass, loading, due, moved>>
  BY <1>1 DEF QuietPass, CounterBodies, Visible
<1>2. CASE UNCHANGED <<loading, due, moved>> /\ pass.pc # "idle" /\ pass'.pc \notin Late
  BY <1>2 DEF QuietPass
<1>3. CASE BeginPass
  <2>1. moved' = {} /\ pass'.pc = "count"
    BY <1>3 DEF BeginPass, NoPass
  <2> QED
    BY <2>1 DEF QuietPass
<1>4. CASE CountDocuments
  BY <1>0, <1>2, <1>4 DEF CountDocuments, PassStep, NextRelation, Passes, clock
<1>5. CASE ReadPage
  BY <1>0, <1>2, <1>5 DEF ReadPage, PassStep, Passes, clock
<1>6. CASE InsertAsserted \/ \E r \in Rows : PickAsserted(r)
  BY <1>0, <1>2, <1>6 DEF InsertAsserted, PickAsserted, PassStep, Passes, clock
<1>7. CASE DeleteUnasserted
  BY <1>0, <1>2, <1>7 DEF DeleteUnasserted, PassStep, NextRelation, Passes, clock
<1>8. CASE RefreshCounters \/ RefreshMemberUnion \/ RefreshVertexDegree
  <2>1. UNCHANGED <<row, loading, due, moved>> /\ pass.pc # "idle"
    BY <1>8 DEF RefreshCounters, RefreshMemberUnion, RefreshVertexDegree, PassStep, clock
  <2>2. pass'.ins = pass.ins /\ pass'.del = pass.del
    BY <1>0, <1>8 DEF RefreshCounters, RefreshMemberUnion, RefreshVertexDegree, PassStep, Passes
  <2>3. CounterBodies' = CounterBodies
    BY <2>1, <2>2 DEF CounterBodies, Visible
  <2>4. CASE RefreshCounters
    <3>1. pass'.pc = "refresh_artist_member_of" /\ pass'.new = [pass.new EXCEPT !.degree = CounterBodies]
      BY <1>0, <2>4 DEF RefreshCounters, PassStep, Passes
    <3>2. pass'.new.degree = CounterBodies
      BY <1>0, <3>1 DEF Counters
    <3> QED
      BY <2>1, <2>3, <3>1, <3>2 DEF QuietPass
  <2>5. CASE RefreshMemberUnion
    <3>1. pass.pc = "refresh_artist_member_of" /\ pass'.pc = "refresh_vertex_degree"
          /\ pass'.new = [pass.new EXCEPT !.union = CounterBodies]
      BY <1>0, <2>5 DEF RefreshMemberUnion, PassStep, Passes
    <3>2. pass'.new.degree = pass.new.degree /\ pass'.new.union = CounterBodies
      BY <1>0, <3>1 DEF Counters
    <3> QED
      BY <2>1, <2>3, <3>1, <3>2 DEF QuietPass
  <2>6. CASE RefreshVertexDegree
    <3>1. pass.pc = "refresh_vertex_degree" /\ pass'.pc = "commit"
          /\ pass'.new = [pass.new EXCEPT !.vertex = pass.new.union]
      BY <1>0, <2>6 DEF RefreshVertexDegree, PassStep, Passes
    <3>2. pass'.new.degree = pass.new.degree /\ pass'.new.union = pass.new.union
      BY <1>0, <3>1 DEF Counters
    <3> QED
      BY <2>1, <2>3, <3>1, <3>2 DEF QuietPass
  <2> QED
    BY <1>8, <2>4, <2>5, <2>6
<1>9. CASE CommitPass \/ PassFails \/ RetryPass
  BY <1>9 DEF CommitPass, PassFails, RetryPass, NoPass
<1>10. CASE StartDump \/ CompleteDump \/ Purge
  <2>1. CASE StartDump \/ CompleteDump
    BY <2>1 DEF StartDump, CompleteDump
  <2>2. CASE Purge
    BY <2>2 DEF Purge, clock
  <2> QED
    BY <1>10, <2>1, <2>2
<1>11. ASSUME NEW w \in Writers, Write(w)
       PROVE  QuietPass'
  <2>1. CASE BeginWrite(w) \/ WriteFails(w) \/ \E r \in Rows : InsertRow(w, r)
    BY <1>1, <2>1 DEF BeginWrite, WriteFails, InsertRow, clock
  <2>2. CASE CommitWrite(w)
    BY <2>2 DEF CommitWrite, clock, RowsInv, WritersAscend
  <2>3. CASE DeadlockDetected(w)
    BY <1>1, <1>9, <2>3 DEF DeadlockDetected
  <2> QED
    BY <1>11, <2>1, <2>2, <2>3 DEF Write
<1>12. CASE UNCHANGED vars
  BY <1>1, <1>12 DEF vars, clock
<1> QED
  BY <1>3, <1>4, <1>5, <1>6, <1>7, <1>8, <1>9, <1>10, <1>11, <1>12 DEF Next, Pass

\* The commit of a pass makes every edge that did not move what the documents assert.
LEMMA CommitIsExact ==
    ASSUME RowsInv, PassInv, CommitPass
    PROVE  \A k \in Steps : \A e \in Additive[k].rows \ moved :
             e \in row' <=> IF Additive[k].docs \cap present = {} THEN e \in row ELSE AssertedNow(e)
<1> SUFFICES ASSUME NEW k \in Steps, NEW e \in Additive[k].rows \ moved
             PROVE  e \in row' <=> IF Additive[k].docs \cap present = {} THEN e \in row ELSE AssertedNow(e)
  OBVIOUS
<1>1. row' = Visible /\ pass.pc = "commit"
  BY DEF CommitPass
<1>2. Done(k)
  BY <1>1 DEF Done, Reconciling
<1>3. IF Additive[k].docs \cap present = {} THEN e \notin pass.ins \cup pass.del
                                            ELSE e \in Visible <=> AssertedNow(e)
  BY <1>2 DEF PassInv, DoneIsExact
<1> QED
  BY <1>1, <1>3 DEF Visible

\* The extraction's own pass repairs whatever an overlapping one did.
LEMMA SettledStep ==
    RowsInv /\ PassInv /\ QuietPass /\ UnionIsSummed /\ SettledGraphIsReconciled /\ [Next]_vars
        => SettledGraphIsReconciled'
<1> SUFFICES ASSUME RowsInv, PassInv, QuietPass, UnionIsSummed, SettledGraphIsReconciled, [Next]_vars,
                    ~loading', ~due', pass' = NoPass
             PROVE  SettledGraphIsReconciled'
  BY DEF SettledGraphIsReconciled
<1>0. pass \in Passes /\ NoPass.pc = "idle"
  BY DEF RowsInv, TypeOK, NoPass
<1>1. CASE UNCHANGED <<row, present, asserts, pass, counters, loading, due>>
  <2>1. \A e : AssertedNow(e)' <=> AssertedNow(e)
    BY <1>1 DEF AssertedNow
  <2> QED
    BY <1>1, <2>1 DEF SettledGraphIsReconciled
<1>2. CASE CommitPass
  <2>1. UNCHANGED <<present, asserts, loading, due>> /\ row' = Visible /\ counters' = pass.new /\ pass.pc = "commit"
    BY <1>2 DEF CommitPass, documents, clock
  <2>2. moved = {} /\ pass.new.degree = CounterBodies /\ pass.new.union = CounterBodies
    BY <2>1 DEF QuietPass
  <2>3. pass.new.vertex = CounterBodies
    BY <2>1, <2>2 DEF UnionIsSummed
  <2>4. pass.new = [degree |-> CounterBodies, union |-> CounterBodies, vertex |-> CounterBodies]
    BY <1>0, <2>2, <2>3 DEF Passes, Counters
  <2>5. counters' = [degree |-> row' \cap Edges, union |-> row' \cap Edges, vertex |-> row' \cap Edges]
    BY <2>1, <2>4 DEF CounterBodies
  <2>6. \A e : AssertedNow(e)' <=> AssertedNow(e)
    BY <2>1 DEF AssertedNow
  <2>7. \A k \in Steps : Additive[k].docs \cap present # {} =>
          \A e \in Additive[k].rows : e \in row' <=> AssertedNow(e)
    BY <1>2, <2>2, CommitIsExact
  <2> QED
    BY <2>1, <2>5, <2>6, <2>7 DEF SettledGraphIsReconciled
<1>3. CASE pass'.pc # "idle"
  BY <1>0, <1>3
<1>4. CASE BeginPass
  BY <1>3, <1>4 DEF BeginPass, NoPass
<1>5. CASE CountDocuments
  BY <1>0, <1>3, <1>5 DEF CountDocuments, PassStep, NextRelation, Passes
<1>6. CASE ReadPage
  BY <1>0, <1>3, <1>6 DEF ReadPage, PassStep, Passes
<1>7. CASE InsertAsserted \/ \E r \in Rows : PickAsserted(r)
  BY <1>0, <1>3, <1>7 DEF InsertAsserted, PickAsserted, PassStep, Passes
<1>8. CASE DeleteUnasserted
  BY <1>0, <1>3, <1>8 DEF DeleteUnasserted, PassStep, NextRelation, Passes
<1>9. CASE RefreshCounters \/ RefreshMemberUnion \/ RefreshVertexDegree
  BY <1>0, <1>3, <1>9 DEF RefreshCounters, RefreshMemberUnion, RefreshVertexDegree, PassStep, Passes
<1>10. CASE PassFails \/ RetryPass
  BY <1>10 DEF PassFails, RetryPass
<1>11. CASE StartDump \/ CompleteDump \/ Purge
  BY <1>11 DEF StartDump, CompleteDump, Purge, clock
<1>12. ASSUME NEW w \in Writers, Write(w)
       PROVE  SettledGraphIsReconciled'
  <2>1. CASE BeginWrite(w) \/ WriteFails(w) \/ \E r \in Rows : InsertRow(w, r)
    BY <1>1, <2>1 DEF BeginWrite, WriteFails, InsertRow, clock, documents
  <2>2. CASE CommitWrite(w)
    BY <2>2 DEF CommitWrite, clock, RowsInv, WritersAscend
  <2>3. CASE DeadlockDetected(w)
    BY <1>1, <1>10, <2>3 DEF DeadlockDetected, documents
  <2> QED
    BY <1>12, <2>1, <2>2, <2>3 DEF Write
<1>13. CASE UNCHANGED vars
  BY <1>1, <1>13 DEF vars, documents, clock
<1> QED
  BY <1>2, <1>4, <1>5, <1>6, <1>7, <1>8, <1>9, <1>10, <1>11, <1>12, <1>13 DEF Next, Pass

\* GraphInv is inductive.
THEOREM GraphInductive == Spec => []GraphInv
<1>1. GraphInv /\ [Next]_vars => GraphInv'
  BY RowsStep, PassInvStep, QuietStep, UnionStep, SettledStep DEF GraphInv
<1> QED
  BY <1>1, InitGraph, PTL DEF Spec

\* refresh_vertex_degree sums the member union of its own pass: degrees and union are always
\* published together.
THEOREM DegreesSumTheUnionAlways == Spec => []DegreesSumTheUnion
<1>1. GraphInv => DegreesSumTheUnion
  BY DEF GraphInv, UnionIsSummed
<1> QED
  BY <1>1, GraphInductive, PTL

\* Once the pass of the last complete extraction has committed, edges and counters are exactly
\* those of the documents, whatever passes and loads overlapped before.
THEOREM SettledGraphIsReconciledAlways == Spec => []SettledGraphIsReconciled
<1>1. GraphInv => SettledGraphIsReconciled
  BY DEF GraphInv
<1> QED
  BY <1>1, GraphInductive, PTL

\* A pass that reads the documents page by page beside a load commits the exact edges wherever
\* documents did not move, and leaves the relations of empty tables alone.
THEOREM PassIsExactAlways == Spec => PassIsExact
<1>1. GraphInv /\ [Next]_vars =>
        [CommitPass => \A k \in Steps : \A e \in Additive[k].rows \ moved :
           e \in row' <=> IF Additive[k].docs \cap present = {} THEN e \in row ELSE AssertedNow(e)]_vars
  BY CommitIsExact DEF GraphInv
<1> QED
  BY <1>1, GraphInductive, PTL DEF Spec, PassIsExact
=============================================================================
