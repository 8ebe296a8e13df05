-------------------------- MODULE DurableRefreshInv --------------------------
(***************************************************************************)
(* The inductive invariant of DurableRefresh, checked by TLC on the small  *)
(* instances and used by DurableRefreshProofs.                             *)
(***************************************************************************)
EXTENDS DurableRefresh

\* The relations' contents between transactions: cursor (cg, cv), latch rows (lt, sg, lg, rf)
\* and job rows (js, jg).
DBType(cg, cv, lt, sg, lg, rf, js, jg) ==
    /\ cg \in Nat
    /\ cv \in Versions \cup {0}
    /\ lt \in SUBSET Versions
    /\ sg \in [Versions -> SUBSET Types]
    /\ lg \in [Versions -> Nat]
    /\ rf \in SUBSET lt
    /\ js \in [Versions -> JobStates]
    /\ jg \in [Versions -> Nat]

\* Generations follow the source order and end at the cursor.
GenInv(cg, cv, lt, lg, rf) ==
    /\ \A u, v \in Versions : lg[u] # 0 /\ lg[v] # 0 /\ u < v => lg[u] < lg[v]
    /\ \A u \in Versions : lg[u] # 0 => u <= cv /\ lg[u] <= cg /\ u \in lt
    /\ cv # 0 => cv \in lt /\ lg[cv] = cg /\ cg # 0
    /\ cv # 0 => \A u \in rf : u <= cv

\* Jobs belong to complete, placed versions; only the cursor's can be live, and while its
\* pass is owed it is.
JobInv(cg, cv, sg, lg, rf, js, jg) ==
    /\ \A u \in Versions : js[u] \in Active => u = cv
    /\ \A u \in Versions : js[u] # "none" => lg[u] # 0 /\ jg[u] = lg[u] /\ Complete(sg[u])
    /\ \A u \in Versions : js[u] # "none" => (js[u] = "completed" <=> u \in rf)
    /\ cv # 0 => js[cv] # "superseded"
    /\ cv # 0 /\ Complete(sg[cv]) /\ cv \notin rf => js[cv] # "none"

DBInv(cg, cv, lt, sg, lg, rf, js, jg) ==
    /\ DBType(cg, cv, lt, sg, lg, rf, js, jg)
    /\ GenInv(cg, cv, lt, lg, rf)
    /\ JobInv(cg, cv, sg, lg, rf, js, jg)

\* Claims: an idle worker has none; two claims on one version differ in their epoch, which
\* never exceeds the row's; the owner of the lease has the row's generation.
ClaimInv ==
    /\ \A w \in Workers : pc[w] = "idle" <=> claim[w] = NoClaim
    /\ \A w \in Workers : claim[w].version # 0 => claim[w].epoch <= epoch[claim[w].version]
    /\ \A w, x \in Workers :
        claim[w].version # 0 /\ claim[w].version = claim[x].version
            /\ claim[w].epoch = claim[x].epoch => w = x
    /\ \A w \in Workers : OwnsLease(w) => claim[w].generation = jobGen[claim[w].version]

\* Deliveries whose handler has committed are in the latch.
DeliveryInv ==
    \A v \in Versions, t \in Types :
        <<v, t>> \in recorded \cup acked => v \in latched /\ t \in signals[v]

\* The published version is the newest stamped one.
PublishedInv ==
    /\ published \in refreshed \cup {0}
    /\ \A u \in refreshed : u <= published

\* A version that was stamped without a job, before the cutover, is older than every version
\* whose job was completed.
LegacyStampInv ==
    \A u \in refreshed, x \in Versions : jobState[u] = "none" /\ jobState[x] = "completed" => u < x

IInv ==
    /\ TypeOK
    /\ DBInv(cursorGen, cursorVer, latched, signals, latchGen, refreshed, jobState, jobGen)
    /\ ClaimInv
    /\ DeliveryInv
    /\ PublishedInv

=============================================================================
