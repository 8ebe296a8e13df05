--------------------------- MODULE DurableRefresh ---------------------------
(***************************************************************************)
(* The durable derived-refresh protocol of tableinator/durable_refresh.py. *)
(*                                                                         *)
(* The last extraction_complete signal of a dump version owes one pass     *)
(* over the derived relations.  The obligation lives in three PostgreSQL   *)
(* relations: a one-row cursor (the newest accepted version and its        *)
(* generation), one latch row per version (which types have signalled,     *)
(* whether the pass was stamped) and one job row per version.  Signal      *)
(* handlers write them before the delivery is acked; workers lease the     *)
(* job, run the pass under an advisory lock, and are fenced twice.         *)
(*                                                                         *)
(* Every database transaction of the code is one action: each of them      *)
(* takes the cursor row's lock first, except the heartbeat and the veto    *)
(* insert, which are single statements.  Version 0 stands for SQL NULL in  *)
(* the cursor and generation 0 for SQL NULL in a latch row.                *)
(***************************************************************************)
EXTENDS Naturals, FiniteSets

CONSTANTS
    Versions,   \* the YYYYMMDD dump versions, as numbers in their source order
    Types,      \* the data types that must all signal (REQUIRED types)
    Workers,    \* worker loops, one per loader process
    MaxFaults   \* bound on crashes, failed passes, lost heartbeats and failed marks

ASSUME VersionsAssumption == Versions \subseteq Nat \ {0} /\ IsFiniteSet(Versions)
ASSUME TypesAssumption    == Types # {}
ASSUME FaultsAssumption   == MaxFaults \in Nat

VARIABLES
    cursorGen,  \* loader_derived_refresh_cursor.generation
    cursorVer,  \* loader_derived_refresh_cursor.version, 0 when NULL
    latched,    \* versions that have a loader_extraction_latch row
    signals,    \* latch.signals
    latchGen,   \* latch.generation, 0 when NULL (a legacy row or a veto-only row)
    refreshed,  \* versions whose latch.refreshed_at is set
    malformed,  \* an unfinished legacy latch row has a non-orderable key
    jobState,   \* loader_derived_refresh_job.state, "none" when there is no row
    jobGen,     \* job.generation
    epoch,      \* job.lease_epoch; each lease's fresh token is identified by it
    lapsed,     \* versions whose next_attempt_at or lease_expires_at has passed
    recorded,   \* deliveries <<v, t>> whose handler committed and has not acked
    acked,      \* deliveries <<v, t>> that were acked
    pc,         \* where each worker's run_worker_once stands
    claim,      \* the ClaimedJob each worker holds
    lost,       \* workers whose heartbeat has set the lost event
    published,  \* the version whose pass last committed to the derived relations
    faults      \* faults so far

latchVars  == <<latched, signals, latchGen, refreshed, malformed>>
jobVars    == <<jobState, jobGen, epoch, lapsed>>
brokerVars == <<recorded, acked>>
workerVars == <<pc, claim, lost>>
vars == <<cursorGen, cursorVer, latchVars, jobVars, brokerVars, workerVars,
          published, faults>>

JobStates == {"none", "pending", "retry", "leased", "completed", "superseded"}
Active    == {"pending", "retry", "leased"}
PCs       == {"idle", "claimed", "passing", "failed"}
Claims    == [version : Versions \cup {0}, generation : Nat, epoch : Nat]
NoClaim   == [version |-> 0, generation |-> 0, epoch |-> 0]
Deliveries == Versions \X Types

\* Broken variants: a definition named Broken... is never used by the specification.  Each is
\* the definition that follows it with one plausible mistake, and exists to show that some
\* property below notices the mistake.
BrokenComplete(sig) == sig # {}

\* A version is complete when every required type has signalled it.
Complete(sig) == Types \subseteq sig

-----------------------------------------------------------------------------
(* The transactions' building blocks, as functions of the rows they read.  *)

BrokenSupersedeBelow(js, jg, g) ==
    [u \in Versions |-> IF js[u] \in {"pending", "retry"} /\ jg[u] < g THEN "superseded" ELSE js[u]]

\* The second UPDATE of _advance_cursor: every live job of an older generation.
SupersedeBelow(js, jg, g) ==
    [u \in Versions |-> IF js[u] \in Active /\ jg[u] < g THEN "superseded" ELSE js[u]]

\* _upsert_job: a new row is pending, an existing row is left as it is.
UpsertState(js, v) == IF js[v] = "none" THEN [js EXCEPT ![v] = "pending"] ELSE js
UpsertGen(js, jg, v, g) == IF js[v] = "none" THEN [jg EXCEPT ![v] = g] ELSE jg

\* _reconcile_legacy reads every latch row without a generation, oldest first.  A row older
\* than the cursor is skipped, one above it advances the cursor by one generation.
Unplaced == {u \in latched : latchGen[u] = 0}
BrokenNewer == Unplaced
Newer    == {u \in Unplaced : u > cursorVer}
Placed   == {u \in Unplaced : u >= cursorVer}
Rank(u)  == Cardinality({x \in Newer : x <= u})

ReconciledGen == cursorGen + Cardinality(Newer)
ReconciledVer ==
    IF Newer = {} THEN cursorVer ELSE CHOOSE u \in Newer : \A x \in Newer : x <= u
ReconciledLatchGen ==
    [u \in Versions |-> IF u \in Placed THEN cursorGen + Rank(u) ELSE latchGen[u]]

\* A placed row whose signals are complete and whose pass is not stamped is given a job; the
\* job of any row but the newest is superseded by the next advance of the same transaction.
BrokenOwed(u) == FALSE
Owed(u) == u \in Placed /\ u \notin refreshed /\ Complete(signals[u]) /\ jobState[u] = "none"
ReconciledJobGen ==
    [u \in Versions |-> IF Owed(u) THEN ReconciledLatchGen[u] ELSE jobGen[u]]
ReconciledJobState ==
    SupersedeBelow([u \in Versions |-> IF Owed(u) THEN "pending" ELSE jobState[u]],
                   ReconciledJobGen,
                   IF Newer = {} THEN 0 ELSE ReconciledGen)

BrokenFreshDeadlines == lapsed' = lapsed

\* Every statement that changes a job's state also rewrites its deadline columns.
FreshDeadlines == lapsed' = {u \in lapsed : jobState'[u] = jobState[u]}

-----------------------------------------------------------------------------
(* The producer side: terminal deliveries and startup.                     *)

\* Before the cutover the inline writer left latch rows without generations.  It stamped a
\* version only after all of its types had signalled.
Init ==
    /\ cursorGen = 0 /\ cursorVer = 0
    /\ latched \in SUBSET Versions
    /\ signals \in [Versions -> SUBSET Types]
    /\ refreshed \in SUBSET latched
    /\ \A u \in Versions : u \notin latched => signals[u] = {}
    /\ \A u \in refreshed : Complete(signals[u])
    /\ latchGen = [u \in Versions |-> 0]
    /\ malformed \in BOOLEAN
    /\ jobState = [u \in Versions |-> "none"]
    /\ jobGen = [u \in Versions |-> 0]
    /\ epoch = [u \in Versions |-> 0]
    /\ lapsed = {}
    /\ recorded = {} /\ acked = {}
    /\ pc = [w \in Workers |-> "idle"]
    /\ claim = [w \in Workers |-> NoClaim]
    /\ lost = {}
    /\ published \in refreshed \cup {0}
    /\ \A u \in refreshed : u <= published
    /\ faults = 0

\* reconcile_legacy_latches, at startup and during durable recovery.
ReconcileLegacy ==
    /\ ~malformed
    /\ Placed # {}
    /\ cursorGen' = ReconciledGen
    /\ cursorVer' = ReconciledVer
    /\ latchGen' = ReconciledLatchGen
    /\ jobState' = ReconciledJobState
    /\ jobGen' = ReconciledJobGen
    /\ FreshDeadlines
    /\ UNCHANGED <<latched, signals, refreshed, malformed, epoch, brokerVars, workerVars,
                   published, faults>>

\* record_purge_veto: the insert that may create the row before its first signal.
RecordPurgeVeto(v, t) ==
    /\ <<v, t>> \notin recorded \cup acked
    /\ v \notin latched
    /\ latched' = latched \cup {v}
    /\ UNCHANGED <<cursorGen, cursorVer, signals, latchGen, refreshed, malformed, jobVars,
                   brokerVars, workerVars, published, faults>>

\* record_durable_signal: reconcile, advance the cursor, upsert the latch row and, when the
\* signal completes the set, the job.  One transaction, committed before the ack.
RecordSignal(v, t) ==
    LET gen0 == ReconciledGen
        ver0 == ReconciledVer
        superseded == v < ver0
        advances == v > ver0
        gen == IF advances THEN gen0 + 1 ELSE gen0
        js == IF advances THEN SupersedeBelow(ReconciledJobState, ReconciledJobGen, gen)
                          ELSE ReconciledJobState
        accepted == IF superseded THEN 0 ELSE gen
        rowGen == IF ReconciledLatchGen[v] = 0 THEN accepted ELSE ReconciledLatchGen[v]
        schedules == /\ ~superseded
                     /\ v \notin refreshed
                     /\ Complete(signals[v] \cup {t})
    IN  /\ ~malformed
        /\ <<v, t>> \notin recorded \cup acked
        /\ schedules => rowGen = gen      \* otherwise DurableSchemaUnavailable is raised
        /\ cursorGen' = gen
        /\ cursorVer' = IF advances THEN v ELSE ver0
        /\ latched' = latched \cup {v}
        /\ signals' = [signals EXCEPT ![v] = @ \cup {t}]
        /\ latchGen' = [ReconciledLatchGen EXCEPT ![v] = rowGen]
        /\ jobState' = IF schedules THEN UpsertState(js, v) ELSE js
        /\ jobGen' = IF schedules THEN UpsertGen(js, ReconciledJobGen, v, gen)
                                  ELSE ReconciledJobGen
        /\ FreshDeadlines
        /\ recorded' = recorded \cup {<<v, t>>}
        /\ UNCHANGED <<refreshed, malformed, epoch, acked, workerVars, published, faults>>

BrokenAck(v, t) ==
    /\ <<v, t>> \notin acked
    /\ recorded' = recorded \ {<<v, t>>}
    /\ acked' = acked \cup {<<v, t>>}
    /\ UNCHANGED <<cursorGen, cursorVer, latchVars, jobVars, workerVars, published, faults>>

\* The handler acks once its transaction has committed.
Ack(v, t) ==
    /\ <<v, t>> \in recorded
    /\ recorded' = recorded \ {<<v, t>>}
    /\ acked' = acked \cup {<<v, t>>}
    /\ UNCHANGED <<cursorGen, cursorVer, latchVars, jobVars, workerVars, published, faults>>

\* The process stops between its commit and its ack, or the commit's reply is lost, or the
\* extractor sends the same version again: the signal is delivered once more.
Redeliver(v, t) ==
    /\ <<v, t>> \in recorded \cup acked
    /\ recorded' = recorded \ {<<v, t>>}
    /\ acked' = acked \ {<<v, t>>}
    /\ UNCHANGED <<cursorGen, cursorVer, latchVars, jobVars, workerVars, published, faults>>

\* An operator repairs or finishes the legacy row whose key cannot be ordered.
RepairLegacyRow ==
    /\ malformed
    /\ malformed' = FALSE
    /\ UNCHANGED <<cursorGen, cursorVer, latched, signals, latchGen, refreshed, jobVars,
                   brokerVars, workerVars, published, faults>>

-----------------------------------------------------------------------------
(* The worker side.                                                        *)

Fault == faults < MaxFaults /\ faults' = faults + 1

Release(w) ==
    /\ pc' = [pc EXCEPT ![w] = "idle"]
    /\ claim' = [claim EXCEPT ![w] = NoClaim]
    /\ lost' = lost \ {w}

\* claim_due_job gives up while any lease is unexpired; otherwise it takes the due job of the
\* newest generation.
LeaseHeld == \E u \in Versions : jobState[u] = "leased" /\ u \notin lapsed
BrokenDue(u) == \/ jobState[u] = "pending"
                \/ jobState[u] = "retry" /\ u \in lapsed
Due(u) == \/ jobState[u] = "pending"
          \/ jobState[u] \in {"retry", "leased"} /\ u \in lapsed
DueJob(u) == Due(u) /\ \A x \in Versions : Due(x) => jobGen[x] <= jobGen[u]

BrokenLeaseDueJob(w, u) ==
    /\ pc[w] = "idle"
    /\ ~LeaseHeld /\ DueJob(u)
    /\ jobGen[u] = cursorGen
    /\ jobState[u] # "leased"
    /\ jobState' = [jobState EXCEPT ![u] = "leased"]
    /\ FreshDeadlines
    /\ pc' = [pc EXCEPT ![w] = "claimed"]
    /\ claim' = [claim EXCEPT ![w] = [version |-> u, generation |-> jobGen[u],
                                      epoch |-> epoch[u]]]
    /\ UNCHANGED <<cursorGen, cursorVer, latchVars, jobGen, epoch, brokerVars, lost, published,
                   faults>>

\* claim_due_job leases a pending or retried job under a fresh token.
LeaseDueJob(w, u) ==
    /\ pc[w] = "idle"
    /\ ~LeaseHeld /\ DueJob(u)
    /\ jobGen[u] = cursorGen
    /\ jobState[u] # "leased"
    /\ jobState' = [jobState EXCEPT ![u] = "leased"]
    /\ epoch' = [epoch EXCEPT ![u] = @ + 1]
    /\ FreshDeadlines
    /\ pc' = [pc EXCEPT ![w] = "claimed"]
    /\ claim' = [claim EXCEPT ![w] = [version |-> u, generation |-> jobGen[u],
                                      epoch |-> epoch[u] + 1]]
    /\ UNCHANGED <<cursorGen, cursorVer, latchVars, jobGen, brokerVars, lost, published,
                   faults>>

\* claim_due_job fences instead of leasing: a job of another generation is superseded, an
\* expired lease loses its token and is put back behind a backoff delay.
FenceDueJob(w, u) ==
    /\ pc[w] = "idle"
    /\ ~LeaseHeld /\ DueJob(u)
    /\ jobGen[u] # cursorGen \/ jobState[u] = "leased"
    /\ jobState' = [jobState EXCEPT ![u] =
                        IF jobGen[u] # cursorGen THEN "superseded" ELSE "retry"]
    /\ FreshDeadlines
    /\ UNCHANGED <<cursorGen, cursorVer, latchVars, jobGen, epoch, brokerVars, workerVars,
                   published, faults>>

\* _owns_lease compares the expiry with the client's clock, not the database's, so an expired
\* lease may pass it or fail it; only the token and the epoch decide for certain.
OwnsLease(w) ==
    /\ claim[w].version \in Versions
    /\ jobState[claim[w].version] = "leased"
    /\ epoch[claim[w].version] = claim[w].epoch

CursorIsClaim(w) == cursorGen = claim[w].generation /\ cursorVer = claim[w].version

BrokenPassesFence(w) == w \notin lost

\* The check that _before_refresh and _before_commit share, with the lost event before it.
PassesFence(w) == w \notin lost /\ CursorIsClaim(w) /\ OwnsLease(w)

\* The advisory lock is held by the transaction of the pass.
LockFree == \A x \in Workers : pc[x] # "passing"

\* _before_refresh: wait for the advisory lock, then fence.
BeforeRefresh(w) ==
    /\ pc[w] = "claimed" /\ LockFree
    /\ PassesFence(w)
    /\ pc' = [pc EXCEPT ![w] = "passing"]
    /\ UNCHANGED <<cursorGen, cursorVer, latchVars, jobVars, brokerVars, claim, lost,
                   published, faults>>

\* _before_commit's two UPDATEs each have to touch exactly one row.
Stampable(w) == /\ claim[w].version \notin refreshed
                /\ claim[w].version \in latched
                /\ latchGen[claim[w].version] = claim[w].generation

BrokenCommits(w) ==
    /\ pc[w] = "passing"
    /\ PassesFence(w) /\ Stampable(w)
    /\ refreshed' = refreshed \cup {claim[w].version}
    /\ published' = claim[w].version
    /\ UNCHANGED <<cursorGen, cursorVer, latched, signals, latchGen, malformed, jobVars, brokerVars>>

\* _before_commit and the commit of the pass: relations, stamp and job together.
Commits(w) ==
    /\ pc[w] = "passing"
    /\ PassesFence(w) /\ Stampable(w)
    /\ refreshed' = refreshed \cup {claim[w].version}
    /\ jobState' = [jobState EXCEPT ![claim[w].version] = "completed"]
    /\ FreshDeadlines
    /\ published' = claim[w].version
    /\ UNCHANGED <<cursorGen, cursorVer, latched, signals, latchGen, malformed, jobGen,
                   epoch, brokerVars>>

BeforeCommit(w) == Commits(w) /\ Release(w) /\ UNCHANGED faults

\* The server commits, the client sees an error and takes the failure path.
CommitReplyLost(w) ==
    /\ Commits(w)
    /\ pc' = [pc EXCEPT ![w] = "failed"]
    /\ Fault
    /\ UNCHANGED <<claim, lost>>

\* Either fence raises SupersededJob and the transaction rolls back.
Fenced(w) ==
    /\ \/ pc[w] = "claimed" /\ LockFree /\ (~PassesFence(w) \/ claim[w].version \in lapsed)
       \/ pc[w] = "passing" /\ ~(PassesFence(w) /\ Stampable(w) /\ claim[w].version \notin lapsed)
    /\ pc' = [pc EXCEPT ![w] = "failed"]
    /\ UNCHANGED <<cursorGen, cursorVer, latchVars, jobVars, brokerVars, claim, lost,
                   published, faults>>

\* Any other exception inside refresh_derived_relations rolls the pass back.
PassFails(w) ==
    /\ pc[w] \in {"claimed", "passing"}
    /\ pc' = [pc EXCEPT ![w] = "failed"]
    /\ Fault
    /\ UNCHANGED <<cursorGen, cursorVer, latchVars, jobVars, brokerVars, claim, lost, published>>

BrokenMarkAfterFailure(w) ==
    /\ pc[w] = "failed"
    /\ jobState' = IF OwnsLease(w)
                   THEN [jobState EXCEPT ![claim[w].version] = "superseded"]
                   ELSE jobState
    /\ FreshDeadlines
    /\ Release(w)
    /\ UNCHANGED <<cursorGen, cursorVer, latchVars, jobGen, epoch, brokerVars, published,
                   faults>>

\* _mark_after_failure: touches the job only while this claimant still holds the lease.
MarkAfterFailure(w) ==
    /\ pc[w] = "failed"
    /\ jobState' = IF OwnsLease(w)
                   THEN [jobState EXCEPT ![claim[w].version] =
                            IF CursorIsClaim(w) THEN "retry" ELSE "superseded"]
                   ELSE jobState
    /\ FreshDeadlines
    /\ Release(w)
    /\ UNCHANGED <<cursorGen, cursorVer, latchVars, jobGen, epoch, brokerVars, published,
                   faults>>

\* The process dies, is cancelled, or cannot record the failure: the job stays leased.
WorkerStops(w) ==
    /\ pc[w] # "idle"
    /\ Release(w)
    /\ Fault
    /\ UNCHANGED <<cursorGen, cursorVer, latchVars, jobVars, brokerVars, published>>

\* _heartbeat gives up: its UPDATE matched no row, or it raised (a fault).
HeartbeatLost(w) ==
    /\ pc[w] \in {"claimed", "passing"} /\ w \notin lost
    /\ lost' = lost \cup {w}
    /\ \/ (~OwnsLease(w) \/ claim[w].version \in lapsed) /\ UNCHANGED faults
       \/ Fault
    /\ UNCHANGED <<cursorGen, cursorVer, latchVars, jobVars, brokerVars, pc, claim, published>>

\* A successful heartbeat keeps the lease unexpired, which is where the lease already stands.
Heartbeats(v) == \E w \in Workers : /\ pc[w] # "idle" /\ w \notin lost
                                    /\ claim[w].version = v /\ OwnsLease(w)

\* A backoff delay elapses, or a lease that nobody renews expires.
DeadlinePasses(v) ==
    /\ v \notin lapsed
    /\ \/ jobState[v] = "retry"
       \/ jobState[v] = "leased" /\ ~Heartbeats(v)
    /\ lapsed' = lapsed \cup {v}
    /\ UNCHANGED <<cursorGen, cursorVer, latchVars, jobState, jobGen, epoch, brokerVars,
                   workerVars, published, faults>>

\* The heartbeat is delayed past the lease: the process or the database stalled.
HeartbeatStalls(v) ==
    /\ v \notin lapsed
    /\ jobState[v] = "leased" /\ Heartbeats(v)
    /\ lapsed' = lapsed \cup {v}
    /\ Fault
    /\ UNCHANGED <<cursorGen, cursorVer, latchVars, jobState, jobGen, epoch, brokerVars,
                   workerVars, published>>

-----------------------------------------------------------------------------

Terminal == \E v \in Versions, t \in Types :
                RecordPurgeVeto(v, t) \/ RecordSignal(v, t) \/ Ack(v, t) \/ Redeliver(v, t)

Worker(w) == \/ \E u \in Versions : LeaseDueJob(w, u) \/ FenceDueJob(w, u)
             \/ BeforeRefresh(w) \/ BeforeCommit(w) \/ CommitReplyLost(w)
             \/ Fenced(w) \/ PassFails(w) \/ MarkAfterFailure(w)
             \/ WorkerStops(w) \/ HeartbeatLost(w)

Next == \/ ReconcileLegacy
        \/ RepairLegacyRow
        \/ Terminal
        \/ \E w \in Workers : Worker(w)
        \/ \E v \in Versions : DeadlinePasses(v) \/ HeartbeatStalls(v)

Spec == Init /\ [][Next]_vars

\* What the code's loops guarantee: run_worker_loop scans and finishes what it claimed, time
\* passes, and startup reconciles.  Signals, crashes and operators are under no obligation.
Fairness ==
    /\ WF_vars(ReconcileLegacy)
    /\ \A v \in Versions : WF_vars(DeadlinePasses(v))
    /\ \A w \in Workers :
        /\ WF_vars(\E u \in Versions : LeaseDueJob(w, u) \/ FenceDueJob(w, u))
        /\ WF_vars(BeforeRefresh(w) \/ BeforeCommit(w) \/ Fenced(w) \/ MarkAfterFailure(w))

FairSpec == Spec /\ Fairness

-----------------------------------------------------------------------------
(* Properties.                                                             *)

\* Every variable keeps its type; a deadline is only ever past for a job that has one.
TypeOK ==
    /\ cursorGen \in Nat
    /\ cursorVer \in Versions \cup {0}
    /\ latched \in SUBSET Versions
    /\ signals \in [Versions -> SUBSET Types]
    /\ latchGen \in [Versions -> Nat]
    /\ refreshed \in SUBSET latched
    /\ malformed \in BOOLEAN
    /\ jobState \in [Versions -> JobStates]
    /\ jobGen \in [Versions -> Nat]
    /\ epoch \in [Versions -> Nat]
    /\ lapsed \in SUBSET {u \in Versions : jobState[u] \in {"retry", "leased"}}
    /\ recorded \in SUBSET Deliveries
    /\ acked \in SUBSET Deliveries
    /\ pc \in [Workers -> PCs]
    /\ claim \in [Workers -> Claims]
    /\ lost \in SUBSET Workers
    /\ published \in Versions \cup {0}
    /\ faults \in 0..MaxFaults

\* A job that a worker could still claim or finish belongs to the cursor's version and
\* generation: _advance_cursor leaves nothing behind that claim_due_job could pick up.
ActiveJobIsCurrent ==
    \A u \in Versions : jobState[u] \in Active => u = cursorVer /\ jobGen[u] = cursorGen

\* Generations are assigned in source order whatever order signals, vetoes and legacy rows
\* arrive in, and the cursor's own latch row carries the cursor's generation, so the
\* "latch generation disagrees with the cursor" refusal in record_durable_signal is never met.
GenerationsFollowVersions ==
    /\ \A u, v \in Versions :
        latchGen[u] # 0 /\ latchGen[v] # 0 /\ u < v => latchGen[u] < latchGen[v]
    /\ \A u \in Versions : latchGen[u] # 0 => u <= cursorVer /\ latchGen[u] <= cursorGen
    /\ cursorVer # 0 => cursorVer \in latched /\ latchGen[cursorVer] = cursorGen

\* Once every type of the newest version has signalled, either its pass has been stamped or
\* a job that a worker can still take exists: no crash, lost lease or failure path of
\* durable_refresh.py drops the obligation.
NoLostObligation ==
    cursorVer # 0 /\ Complete(signals[cursorVer]) /\ cursorVer \notin refreshed
        => jobState[cursorVer] \in Active

\* The stamp on the latch and the completion of the job are one transaction: a completed job
\* has its stamp and a stamped version has no other kind of job.
StampedIffCompleted ==
    \A u \in Versions :
        jobState[u] # "none" => (jobState[u] = "completed" <=> u \in refreshed)

\* The job rows and what is owed agree: the newest complete version has a live job until its
\* pass is stamped, nothing else has one, and a job is completed exactly by its stamp.
JobsMatchObligations == ActiveJobIsCurrent /\ NoLostObligation /\ StampedIffCompleted

\* However leases expire and are reclaimed, no two workers can both pass _owns_lease.
AtMostOneOwner ==
    \A w, x \in Workers : OwnsLease(w) /\ OwnsLease(x) => w = x

\* A terminal signal is acked only when the database holds it, and no later step of any
\* handler or worker loses it.
AckedSignalIsDurable ==
    \A v \in Versions, t \in Types :
        <<v, t>> \in acked => v \in latched /\ t \in signals[v]

\* A pass never overwrites the derived relations with an older dump version, whoever still
\* holds a claim when a newer version is accepted.
PublishedNeverRegresses == [][published' >= published]_published

\* The protocol implements the contract it was introduced for.
Contract == INSTANCE RefreshContract
                WITH current <- cursorVer, signalled <- signals, done <- refreshed

\* The safety half of the contract: publish only the newest version, complete, and once.
ImplementsContract == Contract!Spec

\* The live half: a complete newest version is published or replaced, with finitely many
\* faults and the fairness of the worker loop.
ImplementsFairContract == Contract!FairSpec

\* Startup alone, with no further delivery, is enough for a complete legacy latch, and for a
\* version whose last signal was recorded: the newest version whose types have all signalled
\* is published unless a newer version turns up.  A lease that its worker abandoned (crash,
\* cancelled pass, failed mark) is therefore reclaimed.
NewestCompleteIsPublished ==
    \A v \in Versions :
        (~malformed /\ v \in latched /\ Complete(signals[v]))
            ~> (v \in refreshed \/ \E u \in latched : u > v)

=============================================================================
