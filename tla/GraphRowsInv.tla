---------------------------- MODULE GraphRowsInv ----------------------------
(***************************************************************************)
(* The inductive invariant of GraphRows, in named parts.                   *)
(***************************************************************************)
EXTENDS GraphRows

\* Documents, committed or about to be, assert what their kind allows, and nothing when absent.
ContentsHold ==
    /\ \A d \in Docs : IF d \in present THEN asserts[d] \in Contents[d] ELSE asserts[d] = {}
    /\ \A w \in Writers : \A d \in tx[w].docs : tx[w].says[d] \in Contents[d]

\* A writer holds only rows its documents assert, and all of them precede what it still has to
\* insert.  A transaction is open only while an extraction is loaded.
WritersAscend ==
    /\ \A w \in Writers : ~Busy(w) => tx[w] = Idle
    /\ \A w \in Writers : Busy(w) => loading
    /\ \A w \in Writers : tx[w].mine \cup tx[w].todo \subseteq Says(tx[w].docs, tx[w].says)
    /\ \A w \in Writers : \A r \in tx[w].mine, t \in tx[w].todo : r < t

\* What the statement counter of the pass says about its other fields.
PassShape ==
    /\ pass.pc = "idle" => pass = NoPass
    /\ pass.pc # "idle" => pass.step \in Steps
    /\ pass.at # 0 => pass.pc = "insert" /\ pass.at \in pass.todo
    /\ pass.pc = "count" => pass.asserted = {} /\ pass.last = 0
    /\ pass.pc \in {"page", "insert"} => pass.asserted \subseteq Source.rows
    /\ pass.pc # "insert" => pass.todo = {}
    /\ pass.todo \subseteq pass.asserted

Reconciling == pass.pc \in {"count", "page", "insert"}
Done(k) == pass.pc # "idle" /\ (Reconciling => k < pass.step)

\* The relations the pass has reconciled agree with the documents, except where they moved ...
DoneIsExact ==
    \A k \in Steps : Done(k) => \A e \in Additive[k].rows \ moved :
        IF Additive[k].docs \cap present = {} THEN e \notin pass.ins \cup pass.del
                                              ELSE e \in Visible <=> AssertedNow(e)

\* ... those it has not come to are as it found them ...
RestIsUntouched ==
    \A k \in Steps : ~Done(k) =>
        /\ pass.del \cap Additive[k].rows = {}
        /\ k # pass.step \/ pass.pc # "insert" => pass.ins \cap Additive[k].rows = {}

\* ... and of the one it works on it has collected what the documents up to its last page assert,
\* and inserted what is not left to do.
CurrentIsCollected ==
    pass.pc \in {"page", "insert"} =>
        /\ Source.docs \cap present = {} => Source.rows \subseteq moved
        /\ \A e \in Source.rows \ moved :
             /\ e \in pass.asserted => AssertedNow(e)
             /\ AssertedNow(e) => \/ e \in pass.asserted
                                  \/ pass.pc = "page" /\ \E d \in present : e \in asserts[d] /\ d > pass.last
        /\ pass.pc = "insert" => /\ pass.asserted \ pass.todo \subseteq row \cup pass.ins
                                 /\ pass.ins \cap Source.rows \subseteq pass.asserted

\* A pass that runs while nothing is loaded and no other is owed began after the load: nothing
\* has moved, and what it counts is still so.
QuietPass ==
    ~loading /\ ~due /\ pass.pc # "idle" =>
        /\ moved = {}
        /\ pass.pc \in {"refresh_artist_member_of", "refresh_vertex_degree", "commit"} =>
             pass.new.degree = CounterBodies
        /\ pass.pc \in {"refresh_vertex_degree", "commit"} => pass.new.union = CounterBodies

\* The degrees about to be published sum the union about to be published.
UnionIsSummed ==
    /\ pass.pc = "commit" => pass.new.vertex = pass.new.union
    /\ DegreesSumTheUnion

RowsInv == TypeOK /\ ContentsHold /\ WritersAscend /\ PassShape
PassInv == DoneIsExact /\ RestIsUntouched /\ CurrentIsCollected
GraphInv == RowsInv /\ PassInv /\ QuietPass /\ UnionIsSummed /\ SettledGraphIsReconciled
=============================================================================
