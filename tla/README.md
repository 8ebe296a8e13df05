# Formal models of the Discogs SQL loader

The loader (`tableinator/`) reads catalog records of four data types from
RabbitMQ queues, writes each as a JSONB row and as edges of a property graph in
PostgreSQL, deletes the rows that a new dump no longer contains, and, once all
types have reported a dump complete, recomputes the relations derived from the
graph. Its difficulty is not in any single statement. It is in what happens
between them: deliveries are held unacked while others are settled, tasks of one
event loop cancel and restart consumers behind each other's awaits, leases
expire under running transactions, and the process may stop anywhere.

This directory holds TLA+ models of those parts, TLC configurations that check
them on small instances, and TLAPS proofs about all of them, for every value of the constants.

- [Inventory](#inventory)
- [The modules and the code](#the-modules-and-the-code)
- [Runs](#runs)
- [Fairness](#fairness)
- [Proofs](#proofs)
- [Where the properties stop](#where-the-properties-stop)
- [What is not modelled](#what-is-not-modelled)
- [Plan](#plan)

Paths are relative to the repository root; `TB` is `tableinator/tableinator.py`.

## Inventory

| Component | State | Operations |
|---|---|---|
| Durable refresh protocol (`durable_refresh.py`) | one cursor row, a latch row and a job row per dump version; leases, epochs | record a signal, reconcile legacy rows, claim, fence, pass, stamp, heartbeat, mark for retry, worker loop |
| Refresh health (`read_refresh_health`) | none, derived from cursor and jobs | report newest completed, active and waiting version and phase |
| extraction_complete and purge (`TB`, `record_persistence.py`) | the marker delivery, the veto flag in memory, the veto on the latch, the dead-letter queue | drain, ask three veto sources, persist the veto, purge, signal, ack or requeue |
| Consumer lifecycle (`TB`) | connection, channels, `consumer_tags`, completed and signalled sets, timers, the durable pause gate and its lock | cancel after a grace period, pause and nack, reset, reopen the gate, probe parked markers, find lost consumers, recover |
| Record writes (`batch_writer.py`, `record_persistence.py`, `graph_writer.py`, `graph_derivation.py`) | entity rows with hash and `updated_at`, edges | hash gate, upsert, document-scoped delete, link, purge sweep |
| Batch engine adapter (`batch_processor.py`) | deliveries held unacked, copies lost with their channel, deliveries owed back | accept, withdraw, reject, flush, isolate a poison record, settle, report stalls |
| Inline latch (`extraction_latch.py`) | latch rows: signals, vetoes, `refreshed_at` | rollback mode: run the pass before the ack |
| Derived pass (`graph_counters.py`) | derived relations, a temporary table of asserted edges | one transaction: page through the documents, insert, delete, recount, refresh the path relations |
| Shutdown (`TB`) | the tasks, channels and pools to close | cancel, flush, drain, close in order |
| Identity, media, configuration, queue names, telemetry, scripts | none of their own that another part reads back | parsing, validation, metrics |

How they meet:

- The extractor publishes a type's records, its `file_complete` and, behind
  them, its `extraction_complete`. The broker keeps a queue per type. A consumer
  exists per type most of the time; *Consumers* is about that "most".
- A record delivery is held by the batch engine until its transaction commits
  and is then acked. *BatchEngine* is about the delivery between the two, and about
  the end of the process; *RecordWrites* is about the transaction, *PurgeSafety* about
  what a held, lost or returned delivery means for the purge.
- Documents share vertex rows and additive edges. Batches that run at once, of one type
  or of several, and the derived pass meet on them: *GraphRows*.
- The `extraction_complete` handler drains the engine, purges, records the
  signal in the latch and acks, in that order. *PurgeSafety* ends where it
  records the signal, *DurableRefresh* begins there.
- When the signal cannot be committed the handler pauses every consumer and
  requeues the delivery. A recovery loop reopens the gate. Both are in
  *Consumers*.
- Worker loops, one per process, lease the job of the newest complete version
  and run the pass. Health reads the same rows.

What makes each part correct:

- Refresh: the pass of the newest complete dump is never lost and runs in the
  end; an older pass never overwrites a newer one; an acked signal is durable;
  health never hides an owed pass.
- Purge: it never deletes the row of a record that the dump contains, and a dead
  letter is never left unaccounted for.
- Consumers: every live subscription is known and can be closed, a failed
  terminal is never forgotten, queued work is delivered in the end.
- Writes: edges are those the stored document asserts, a settled dump is in
  the table, and a purge stays below its cap.
- Batches: nothing is acked unwritten, nothing is dead-lettered for a neighbour's fault, a
  stall is reported when and only when there is one, and every record is settled in the end.
- Graph rows: writers do not deadlock, a pass does not damage what is written beside it
  beyond what the next pass repairs, and counters, union and degrees agree.
- Shutdown: the pool is closed only when nobody has a connection of it.

`PROJECT.json` lists the hazards behind these properties with the line where each
one bites.

## The modules and the code

A comment above each definition says which function it models; `PROJECT.json`
maps definitions to lines. A definition named `Broken...` is used by no
specification. It is the definition below it with one plausible mistake and shows
that a property notices that mistake.

### RefreshContract, DurableRefresh

`RefreshContract` is what the protocol promises: signals accumulate, the newest
accepted version only grows, and a version is published only when complete and
when it is the newest. It has four variables and no jobs or leases.

`DurableRefresh` is `durable_refresh.py`. One action is one database transaction,
because every transaction but the heartbeat and the veto insert takes the cursor
row's lock first. Variables are the columns: `cursorGen`, `cursorVer`, `signals`,
`latchGen`, `refreshed`, `jobState`, `jobGen`, `epoch`. Deadlines are the set
`lapsed` of versions whose deadline has passed; every statement that writes a
deadline takes the version out. A lease's token is its epoch. `run_worker_once`
is a walk through `pc`: `LeaseDueJob` or `FenceDueJob`, `BeforeRefresh` (the lock
and the first fence), `BeforeCommit` (the second fence under row locks, and the
stamp), `CommitReplyLost`, `PassFails`, `Fenced`, `MarkAfterFailure`, `Release`;
`HeartbeatLost` and `WorkerStops` may happen at any point of it. `Init` is every
state that the inline writer can have left before the cutover: any set of latch
rows without generations, stamped or not, and possibly one with a key that has no
order. `ReconcileLegacy` places them all in one step, as the transaction does; the
loop over rows is the closed form `Rank`.

`RefreshHealth` computes what `read_refresh_health` reports and compares it with
what is stamped and published. Ages are left out.

### PurgeSafety

One type, its queue, and the handlers of its `extraction_complete`. A delivery is
ready, held by the engine, dead-lettered, cleared or done. The queue is first in,
first out; a closed connection returns deliveries to their places, while an
expired hold or an operator's replay puts them behind the marker (`behind`).
What the engine counts as pending is `Held`, `ghosts` (copies whose channel is
gone) and `owed` (returned and not seen again), all in memory. The handler's phases
are the awaits of `_process_data_message`: flush, flag and dead-letter depth,
latch, veto or purge, signal, ack. Each source that cannot be read vetoes, and
each write that fails requeues the marker. The operator clears dead letters only
after the veto is on the latch, as `docs/operations.md` prescribes. Time is the
number of the newest dump, which is all that `updated_at < started_at` tells apart.
`limits.outage` says which of four troubles a behaviour may combine: a database outage that
outlasts the longest hold ("hold"), a restart ("restart"), a copy that lost its channel, is then
refused and is reported as lost rather than as rejected ("unnoted", `SettleGhost`), and a process
that starts without the latch ("nolatch"). `Probe` is `probe_latch_relation` at each start; a
process that did not find the relation (`declared`) reads no veto from it, persists none
(`persist_purge_veto` then reports success) and acks the marker all the same, which leaves it
"unlatched", as `docs/operations.md:181-184` describes this mode. Two variables are history: `flagged`, the
refused copies that only `_had_dlq_nacks` remembers, and `forgotten`, the unwritten deliveries of
which neither engine, flag, dead-letter queue nor latch knows any more. `PurgeSafetyInv` holds the
inductive invariant.

### InlineLatch

The rollback mode `DERIVED_REFRESH_MODE=inline`: the same latch rows, written by
`record_extraction_signal`, and the pass run by the handler that completes an
extraction, before its ack. Handlers of one process overlap, keep running after a lost
connection, and hold `derived_refresh_lock` from the signal to the end of the pass. A
row is superseded when another was created later; `created` is the rank of its insertion,
which a veto may do before the first signal. Drain and purge are reduced to their
outcome. Whether a dump's messages name their extraction is a choice of the initial state. Whether
the relation is found is a choice at every start, as `main` probes at every start; a marker that
is acked without being recorded is "skipped". The veto count follows the ack as a step of its own,
which may fail and leave the gauge as it was, and a restart reads it back for each type.
`LegacyRowsAreComplete` ties the module to `DurableRefresh`:
what this mode leaves behind is what that module's `Init` allows for rows, signals and
stamps. `Init` further assumes that inline passes ran in version order, which they do when
one extraction is settled before the next begins. `InlineLatchInv` holds the inductive
invariant.

### Consumers

Per type one record, one `file_complete` and one `extraction_complete` per
extraction, the subscription behind its tag and its grace timer; for the process
the transport, the pause gate with its lock and the position of the two
background tasks (`periodic_queue_checker` and `durable_recovery_loop`). One
action is what a task does between two awaits; closing a transport and the tidying
after it are one action. A subscription may be live, cancelled by the broker
("missing") or on a closed channel. `orphan` holds the types with a live subscription
that no tag names. The process starts with every type subscribed or, when it does not find the
durable schema, with the gate closed, no consumer and every type to resume; `pauses` counts such a
start like a failed commit. `cut` holds the tasks whose transport was closed while they were inside
`_start_consumer`; a transport that is open before its queues are declared is "undeclared". aio-pika, which subscribes cancelled tags again, is external: `Heal`
stands for it. `ConsumersInv` holds the inductive invariant.

### RecordWrites

One entity table and its edges, at READ COMMITTED. A transaction keeps its writes
beside the committed state, and the rows it wrote are the rows it locks. In batch
mode one writer takes up to `BatchSize` records, reads the stored hashes, refreshes
`updated_at` of the unchanged documents, upserts the others, deletes and links their
edges and commits. In single mode several writers each run `persist_record`, whose
one statement reads the prior hash on its own snapshot and then waits for the row; which
mode it is, `POSTGRES_BATCH_MODE`, is a choice of the initial state.
The purge counts the table, counts the stale rows, compares with the cap, sweeps edges and
deletes rows, one statement each. Relations are in three groups by how they are
written: replaced with the document, replaced only by a payload that has a companies
block (`credited_to`), and only ever added to (`member_of`, `same_as`). A payload
stands for its sha256. Every record is writable: a deterministic failure and its dead letter
(`batch_processor.py:364-366`) are in BatchEngine and PurgeSafety. What fails is rolled back before it
is retried or returned (`Retried`). Locks are taken at once and PostgreSQL breaks the one cycle
between writer and purge (`Deadlocked`). `RecordWritesInv` holds the inductive invariant.

### GraphRows

The rows of the graph that belong to no single document: vertex rows, and the additive
edges `member_of` and `same_as`. A row is a number, its place in the order in which
`write_document_graph` walks relations and sorted keys; a document is its place among the
data ids. A writer's transaction has rows still to insert (`todo`) and rows it inserted and
has not committed (`mine`), at which others wait. The pass is `refresh_derived_relations`
statement by statement: for each relation of `ADDITIVE_RELATIONS` it counts the documents
and skips an empty table, reads keyset pages, inserts what is asserted and missing in any
order, and deletes what is not asserted; then it recomputes counters, member union and
degrees and commits. A counter is represented by the set of edges it was computed from.
`Candidates` are the documents that assert a row; the code's predicate admits more, which
assert nothing. `Init` is any load whose pass is owed: edges may be left from older versions
of the documents, and edges may be missing that a pass beside the load deleted. Deadlocks between writers are a property (`WritersNeverDeadlock`);
one with the pass, whose insert is not sorted, does happen and is broken by PostgreSQL
(`DeadlockDetected`). A dump completes when no writer is at work, which the drain before the purge
gives in batch mode (`TB:1464`). A write that changes none of the shared rows, which the hash gate lets
through (`batch_writer.py:162`), is left out: it locks and changes nothing here. `moved` is history: which edges a concurrent commit touched.
`GraphRowsInv` holds the inductive invariant.

### BatchEngine

One type in batch mode, from the delivery to its settlement. Records are good, poison (fail
in PostgreSQL whatever else is in the batch) or malformed (do not normalize). A delivery
waits for a place (`waiting`), is queued (`pending`), or is in the batch that is written
(`flush`). `_isolate` is a stack of parts of the batch, each a transaction: a part that fails
is halved, a single one rejected, and a transient error anywhere puts the whole batch back
although some parts are committed. `obs` is `PostgreSQLBatchObserver`: the queue of
acceptance times, the wait that survives returns to the broker, the time of the last ack or
reject, and the veto flag. Time is a tick, ages stop at `MaxHold`. `lingering` is the set of writes
that were given up and still have their connections. The teardown of `main` is `stage`; while it flushes
and closes, a handler that gets its place still flushes at the threshold (`HandlerFlushes`), so that
a write may be running when the transport closes. Faults are
drawn from a budget, and the cases that a run considers each name their records and their
budget, so that the product of all of them is not explored.

`common.AsyncBatchEngine` is not in the repository. The module's header says what is
assumed of it, taken from how `batch_processor.py` configures and uses it and from
`docs/shared-delivery-runtime.md`. `BatchEngineInv` holds the inductive invariant.

## Runs

| Run | Bounds | What it shows |
|---|---|---|
| `refresh_safety` | 2 versions, 2 types, 2 workers, 2 faults | From every legacy state: the newest obligation always has a live job and older ones none, and a job is completed exactly when stamped (`JobsMatchObligations`); generations follow versions, two workers never own one lease, an acked signal is durable, the published version never regresses, the contract is implemented; health reports no idle phase while a pass is owed, and names the published version (`HealthTellsTheTruth`). |
| `refresh_liveness` | 2 versions, 1 type, 2 workers, 2 faults | The newest complete version is published in the end, from legacy rows alone and after an abandoned lease too, and the fair contract is implemented. |
| `purge_safety` | 2 records; 1 dump, 2 handlers and 2 faults with all four outages, or 3 faults with restarts and without or with the latch; or 2 dumps, 1 handler and 1 fault with expired holds; cap 3/4 | The purge spares every record of its dump, and a settled marker accounts for every dead letter, except for what was forgotten and for what a process without the latch cannot read or record. |
| `purge_settles` | 2 records, 1 dump, 2 handlers; 2 faults with a latch, or 1 fault of any kind | Every marker is acked in the end. |
| `inline_latch` | 2 dumps, 2 types, 2 handlers, 2 faults, either outcome of each probe | Inline mode: an extraction settled on the latch has had its pass or was superseded, passes never repeat or go back, the rows are those `DurableRefresh` starts from, a clean purge ends the reported run of vetoes. |
| `consumers_broker` | 2 types, 2 extractions, 2 broker faults, no pause | Every live subscription is tracked and on a transport that can be closed; in an undisturbed first extraction a type with something queued has a consumer or a task that will give it one. |
| `consumers_pause` | 1 type, 1 extraction, 2 pauses (failed commits, or a start without the schema and one), 2 broker faults | A terminal given up unsettled always has a reset owed, an open gate owes no consumer, the pause lock is never left behind. |
| `consumers_liveness` | 1 type, 2 extractions, 2 broker faults, no pause | Whatever is queued is delivered in the end. |
| `consumers_double_start` | 1 type, 1 extraction, 1 pause, no fault | Violated: see below. |
| `record_writes` | 2 documents, 2 payloads, 2 dumps, batches of 2 or 2 single-record writers, 2 faults, cap 1/1 | A settled dump is in the table although writers and purge overlap; in batch mode edges are those the stored documents assert; whatever fails is rolled back first; a purge never deletes the whole table. |
| `graph_rows` | an artist with a stale edge, two releases that share a person and a `same_as` edge, 4 rows in all, pages of 1, 2 writers, 1 dump beside the pass, 2 transactions, 1 fault | Writers never wait in a circle; a pass is exact for every edge that nothing touched beside it; once nothing is loading or owed, edges, counters, union and degrees agree with the documents. |
| `batch_engine` | 2 to 4 records with poison and malformed ones among them, batches and places 3, hold 2 ticks, stall 1 tick; up to two failed or hung writes, with a lost channel or with a restart or teardown | Nothing is acked unwritten or dead-lettered without cause, acceptance entries match deliveries, stalls are reported exactly, the pool closes unused, every record is settled in the end. |

Why the bounds are enough to be interesting: two versions are what an older pass
needs to overtake a newer one, two types what an incomplete version needs, two
workers what an expired lease needs. Two records let the purge's cap admit a
partial delete, which a single record never does. Three faults let a dead letter be
noted, the note lost in a restart and the marker redelivered. Two dumps are needed
for a row to be stale at all. Three records are the smallest batch whose halves differ in size
and which can have a poison record on either side of a good one; records with ticks are at most
two. A fourth record is one more than there are places: its handler still waits when the teardown's flush
gives up, and flushes afterwards. Three documents are two pages of one relation and one of the other. Each bound is a constant of the module and a guard of the
actions that count against it. Symmetry is used for types, workers, records, handlers,
documents and writers, in runs without liveness only.

Runs switch deadlock checking off where the loader may legitimately come to rest:
the extractor publishes a bounded number of dumps, and once they are settled
nothing is left to do. A cap of 1/1 is the one at which `>=` and `>` differ in a table of any
size.

## Fairness

- `DurableRefresh`: weak fairness of reconciliation, of deadlines passing, of a worker's
  claim and of each worker's steps. `run_worker_loop` scans on every poll and never
  exits on an error, and PostgreSQL's clock advances. Signals, crashes, lost heartbeats
  and operators are under no obligation.
- `PurgeSafety`: weak fairness of delivery, of a flush writing or dead-lettering what
  it holds, of handlers and of marker delivery. The engine's flush timer and the broker
  provide these while the process runs. Faults are finitely many.
- `BatchEngine`: weak fairness of `Progress`, the disjunction of delivery, admission, flush,
  write, settlement and teardown. One of them being enabled for ever without any being taken
  would be a process that does nothing. Each uses up a finite amount of work, so no fairness
  between them is needed. Faults, ticks, expired holds and a given-up write ending are under no
  obligation.
- `Consumers`: strong fairness of deliveries, acks, the checker's checks and the
  recovery attempts, weak fairness of timers, pauses and starts. Strong fairness
  stands for time scales: an ack takes milliseconds, a tick seconds, a grace period
  minutes, so that other tasks cannot interrupt the same short step for ever. The
  liveness run has no failed commit and no start without the schema: after either, the checker and
  the recovery loop each close the transport the other has just opened when they run in lockstep for
  ever, and only their timing keeps them from doing so.

## Proofs

Eight modules hold theorems. `OrderLemmas` has the facts about finite sets of numbers that the
others use (a non-empty set of naturals has a least element, a finite one a greatest). Each of the
others proves about one component (`DurableRefreshProofs` about the health report too), from an
inductive invariant in the module named `...Inv` beside it. TLC has checked those invariants on
the instances of the runs, and on others with more documents, faults or overlap, before they were
proved. Bounds on dumps, faults, handlers and the like are arbitrary in the proofs; no assumption
on a constant is made beyond the named `ASSUME`s of the component's module, except where a theorem
states one.

### DurableRefresh

`DurableRefreshProofs` proves, for every finite set of versions
(positive numbers), every non-empty set of types, every set of workers and every
number of faults:

| Theorem | Statement |
|---|---|
| `InductiveInvariant` | `Spec => []IInv` |
| `TypeCorrect` | `Spec => []TypeOK` |
| `JobsMatchObligationsAlways`, with its parts `ActiveJobIsCurrentAlways`, `NoLostObligationAlways` and `StampedIffCompletedAlways`; `GenerationsFollowVersionsAlways`, `AtMostOneOwnerAlways`, `AckedSignalIsDurableAlways` | the invariants of `refresh_safety` |
| `PublishedNeverRegressesAlways` | the action property |
| `ImplementsContractAlways` | the refinement of `RefreshContract` |

The assumptions are those of the module: `VersionsAssumption`, `TypesAssumption`,
`FaultsAssumption`. Workers need none.

None of the invariants is inductive by itself. `IInv` (in `DurableRefreshInv`) is the
conjunction of:

- `TypeOK`;
- `DBInv`: generations follow versions and end at the cursor (`GenInv`); only the
  cursor's job is live, jobs exist only for complete placed versions, a job is
  completed exactly when its row is stamped, and an owed pass has a job (`JobInv`).
  This is what makes `NoLostObligation` inductive: a signal that completes a version
  must find a cursor that agrees with the generations of all rows;
- `ClaimInv`: two claims on one version differ in their epoch, and whoever owns the
  lease has the row's generation. Without it, a stale claimant could satisfy the fence;
- `DeliveryInv`: a handler that may ack has committed its signal;
- `PublishedInv`: the published version is the newest stamped one.

The argument has three layers. `LeastNatural`, `GreatestExists`, `RankOrder` and
`ReconcileNumbers` say what the closed form of reconciliation computes.
`ReconcileKeepsDBInv` and `RecordSignalKeepsDBInv` say that the two transactions that
renumber rows preserve `DBInv`. One lemma per action preserves `IInv`, and `NextIInv`
collects them. The refinement needs two more lemmas: `OnlyCommitsPublish` and
`CursorAndSignalsGrow`.

### RefreshHealth

`DurableRefreshProofs` also proves `HealthTellsTheTruthAlways` from `IInv`, under the same
assumptions, by its three parts: `IdlePhaseMeansPublishedAlways`,
`WaitingMeansNothingIsOwedAlways` and `NewestCompletedIsPublishedAlways`. `NewestOfRows` says what the report's "first row in
generation order" picks. The last part needs one fact that `IInv` lacks, `LegacyStampInv`: a
stamped version without a job was stamped before the cutover, so that every version with a
completed job is newer than it. It is inductive relative to `IInv`.

### GraphRows

`GraphRowsProofs` proves, for any number of documents and rows, any sequence of additive
relations over disjoint rows, any page size, any set of writers and any bounds:

| Theorem | Statement |
|---|---|
| `RowsTypeCorrect` | `Spec => []TypeOK` |
| `WritersNeverDeadlockAlways` | no set of writers waits within itself |
| `GraphInductive` | `Spec => []GraphInv` |
| `PassIsExactAlways`, `SettledGraphIsReconciledAlways` | the properties of `graph_rows` |
| `DegreesSumTheUnionAlways` | the degrees sum the union they are published with, also while a load is running |

The assumptions are `NumbersAssumption`, `AdditiveAssumption` (a row belongs to one relation)
and `ContentsAssumption` (only a document of the relation's own table asserts its edges).
`GraphInv` is the conjunction of:

- `RowsInv`: types, contents, the statement counter of the pass, and `WritersAscend`: what a
  writer holds precedes what it still has to insert. Deadlock freedom follows from it: among
  writers that wait within a set, the one that waits for the greatest row waits for a writer
  that waits for a still greater one;
- `PassInv`: relations already reconciled are exact except where they moved, those to come are
  untouched, and for the one in hand every asserted edge has been collected or is asserted by
  a document on a later page. This is the loop invariant of the paging, and where a page that
  ends too early would fail;
- `QuietPass`: a pass that runs with nothing loading and nothing owed has seen nothing move, so
  what it counted is still so;
- `UnionIsSummed` and `SettledGraphIsReconciled`.

### PurgeSafety

`PurgeSafetyProofs`, for any finite set of records, any number of dumps, handlers and faults
and any cap:

| Theorem | Statement |
|---|---|
| `BaseInvariant`, `PurgeTypes`, `NoAckWithoutRow` | `Spec => []BaseInv`, `[]TypeOK`, `[]AckedRecordIsWritten` |
| `PurgeInvariant` | `Spec => []PurgeInv` |
| `PurgeSparesItsDump`, `DeadLettersAreAccountedFor` | `PurgeSparesTheDump` and `SettledMarkerAccountsForDeadLetters` |

All of them hold for every combination of outages, with and without a latch, however dumps overlap.
No behaviour is assumed away; the two properties name what they except. A purge takes a record of its
own dump only when the record is `forgotten` or its veto is on a latch that this process did not find.
A record becomes forgotten at three places only: `Restart`, `SettleGhost` and `AckMarker`;
[Where the properties stop](#where-the-properties-stop) tells what happens there.

The invariant follows the handler. While it flushes, a delivery of its dump is safe (its row
refreshed, or the dump vetoed on the latch) or forgotten, or the engine counts it as pending, or a
rejection is noted for it in the dead-letter queue or in the flag. Each await takes one alternative away:
a successful drain takes "pending", reading flag and depth takes "noted", reading the latch takes
"vetoed" if there is a latch, and the purge is left with refreshed rows and the exceptions
(`HandlersHaveExcluded`).
`DeliveriesAreAccounted` is what keeps this true under the other actors: a delivery that came
back behind the marker is safe, pending, covered by the flag, or forgotten.

### InlineLatch

`InlineLatchProofs`, for any number of dumps, types, handlers and faults: `LatchInvariant`,
`LatchTypes`, `NoPassIsLost` (`SettledDumpIsRefreshed`), `PassesAreOrdered`
(`PassesFollowExtractions`), `InheritedRowsAreComplete` (`LegacyRowsAreComplete`) and
`CleanPurgesAreReported` (the action property `CleanPurgeEndsStreak`).

Each start may or may not find the relation. That a settled dump has had its pass is not inductive: what a handler still in flight owes has to
be counted. `AcksAreCovered` counts a delivery whose live handler, in a process with the relation, has
only the ack left as acked. The last handler to get there has run the pass or seen a later row, and `RowsAreRanked`
makes a later row stay later. `PassesAreStamped` says that a running pass is for a row created
after all rows that had one, which is what `derived_refresh_lock` and the check under it give.

### Consumers

`ConsumersProofs`, for any finite set of types and any number of extractions, failed commits and
broker faults: `ConsumersInvariant`, `ConsumerTypes`, `UnsettledTerminalsAreReset`,
`GateWaitsForConsumers`, `NoConsumerOutlivesItsTransport`, from a start with or without the durable
schema; and, in a process that found its schema and until a commit fails (`pauses = 0`), `ConsumersAreTracked` (`EveryConsumerIsTracked`) and `NothingIsStranded` (`NoStrandedWork`).

Two facts make the invariant inductive. `PausesCloseTheGate`: a handler that holds the pause lock
has closed the gate, so neither background task takes its message back under it.
`TagsHaveATransport`: every tag, also one whose subscription is lost and may be healed by the
client library, is of the current transport. `ConsumersAreTracked` needs `BeforeAnyPause`: until
then the recovery loop has nothing to restart, so the checker alone is ever inside
`_start_consumer`, for a type that has no tag.

`NothingIsStranded` needs `BeforeAnyFault`. What endangers it is a type that is signalled and has
no consumer: no test of the checker looks at its queue while another type has a consumer. So
`Covered` says that such a type has nothing queued, unless every consumer is gone or a full
recovery has yet to come to it. Two facts keep this true. `MessagesInOrder`: when a type is signalled, everything of it has been
published and nothing of it is queued. `TimersFollowMarkers`: a grace timer cancels only after what
was queued has been delivered. Messages come back to a queue only when a transport is closed, and
that takes all consumers with it, which the checker does see.

### RecordWrites

`RecordWritesProofs`, for any documents and payloads, any number of writers, any batch size and
cap, and any number of dumps and faults:

| Theorem | Statement |
|---|---|
| `BaseInvariant`, `RecordTypes` | `Spec => []BaseInv`, `[]TypeOK`, in both modes, dumps overlapping or not |
| `LoadInvariant` | `Spec => []LoadInv`, assuming `Overlap = FALSE` |
| `EdgesFollowDocuments`, `DumpsAreLoaded`, `PurgesAreCapped` | `EdgesMatchDocument`, `DumpIsLoaded` and `PurgeIsCapped`, assuming `Overlap = FALSE` |

`LoadInv` is the conjunction of:

- `OneDump` and `OneAtATime`: all that is queued, written or purged is of the newest dump, its
  marker comes last, and in batch mode a writer, or a purge past its drain, is alone;
- `WritersAreCurrent`: in batch mode what a transaction has read is still so, and what it has
  refreshed, upserted and unlinked is exactly what that calls for;
- `PurgeIsCurrent`: what a purge deletes is older than its dump, and in batch mode the edges it
  swept are those of the rows it deletes;
- `PurgeStaysCapped`: the table only grows and its stale rows only become fewer between the
  counts and the delete, so the comparison made with the counts still holds at the delete;
- `DumpIsOnItsWay`: a document of the newest dump is queued, in an open transaction, or stored
  with its content and the stamp that spares it;
- `AbsentRows` and `EdgesMatchDocument`.

`CommittedRows` and `CommittedEdges` say what a commit does to table and edges, whichever
statements led to it; the other steps leave both alone (`QuietWriter`, `QuietPurge`).

### BatchEngine

`BatchEngineProofs`, for any dumps of good, poison and malformed records, any batch size, number
of places, hold, stall limit and retries, and any number of faults, lost channels and restarts:

| Theorem | Statement |
|---|---|
| `EngineInvariant` | `Spec => []EngineInv` |
| `EngineTypeCorrect`, `SettlementsEarned`, `ObserverAccurate`, `PoolClosed` | `TypeOK`, `SettlementsAreEarned`, `ObserverIsAccurate` and `PoolClosesUnused` |

The assumptions are `BoundsAssumption` and `StallAssumption` (the stall limit is below the hold, as
`validate_stall_s` demands). `EngineInv` is the conjunction of:

- `Typed` and `OnePlace`: every record is at the broker, acked, dead-lettered or in hand, and in
  one of these only;
- `LineInv`: everything in hand is one line, from the batch through the queue to those that wait in
  `submit`, in order of arrival; the observer's entries stand beside it;
- `FlushInv`: each delivery of a batch is rejected, committed, or in a part still to be written.
  This is the loop invariant of `_isolate`, and makes an ack safe after any sequence of halves,
  retries and outages;
- `StageInv`: from the drain on nothing is unsettled, and once the pool is closed no flush runs and no
  given-up write is left;
- `SettlementsAreEarned`;
- `WaitInv`: a kept wait is as old as waits get, a live delivery is no older than its record's
  wait, and what the observer knows of a wait is in its entry, in the kept wait, or ended by a
  settlement.

The observer is the hard part. A settlement takes a delivery out of the middle of the line and the
oldest entry out of the observer, so entry and delivery drift apart. What is inductive is that
entries are never older than the deliveries beside them (a stall that is reported is real) and equal
where the channel is alive or the delivery waits in `submit` (a stall is not missed, and what
a cancelled `submit` withdraws is its own entry). When a transport closes, all that wait in `submit`
withdraw at once (`WithdrawAll`, a recursive function). `WithdrawAllParts` shows that this leaves
the entries of those that have a place, without induction over data: the
number of withdrawals at which this first failed would have a predecessor at which it held.

### Only model-checked

- Everything under fairness: `NewestCompleteIsPublished`, `ImplementsFairContract`,
  `MarkerSettles`, `QueuedWorkIsDelivered`, `EveryRecordSettles`. The prover has no rules for
  fairness.

All other properties of the passing runs are theorems, some under the conditions named above.

## Where the properties stop

The run `consumers_double_start` records a disagreement between the code and what the
repository says of it.

- `consumers_double_start`. `attempt_durable_recovery` and the checker (`_recover_consumers`,
  `recover_parked_markers`) each test that a type has no tag and then await its subscription.
  In the run the process starts without the durable schema. The recovery loop opens the gate and begins
  to subscribe; the checker, which saw no consumer, closes the transport under it; the resume fails and
  closes the gate, but the checker is past its test of the gate and reconnects; the recovery loop opens
  the gate again and now both are inside `_start_consumer` (`TB:684`, `TB:1203`). The first tag is
  overwritten and its subscription stays live, while `docs/consumer-cancellation.md:35` says a type
  stays in `consumer_tags` until its cancellation is confirmed. A failed commit leads there too, by the
  probe of parked markers (`TB:935-939`). `consumers_broker` therefore has no pause, and
  `ConsumersAreTracked` speaks of the time before the first.

The passing runs are bounded by conditions of the same kind, or their properties name what they
except; each was found by lifting the bound:

- `forgotten` stands for three ways in which the purge does delete a record of its own dump.
  - A delivery that outstays `POSTGRES_BATCH_MAX_HOLD_S`, or that an operator replays, is queued behind the
    marker, and only memory knows of it until it returns. After a restart in between, the new process drains
    nothing and purges the row, while `docs/shared-delivery-runtime.md:8` says such deliveries "now
    count as pending until they are back".
  - The channel is lost while the marker's handler drains; the engine refuses the copy it still holds
    and reports it as `delivery_lost`, since there is no channel to nack it on. No flag is set, the
    engine is drained and the dead-letter queue is empty, so the purge deletes the record's row
    although the record is queued again. `settled` names this danger
    (`batch_processor.py:261`: "a rejection that missed the veto below would let the purge delete a
    record still current"). Whether the engine reports such a copy as rejected or as lost is up to
    `common.AsyncBatchEngine`, which is not in the repository, hence the choice.
  - With two dumps in flight, a vetoed marker of the first resets `_had_dlq_nacks` (`TB:1641`) when
    that flag alone covers a refused copy of the second dump that is queued behind its marker.
- A process that did not find the latch purges what an earlier process vetoed on it, and acks a vetoed
  marker with no record of the veto. `docs/operations.md:181-184` says so; the properties except it.
- In inline mode the same process acks markers without a signal. An extraction one of whose markers was
  acked that way never completes on the latch and has no pass, also when the relation is found
  again at the next start; `SettledDumpIsRefreshed` speaks of extractions settled on the latch. A
  single failed probe is enough for it (`extraction_latch.py:389-394`).
- `SettledDumpIsRefreshed` accepts a dump as superseded when any row was created later. With
  the markers of two dumps in flight on one queue, the newer dump's handler may insert its row
  first; the older dump's row then supersedes it (`extraction_latch.py:206`), and in inline
  mode the newer dump has no pass.
- `record_writes`, and the theorems about it but `RecordTypes`, need one dump at a time (`Overlap = FALSE`). With the next dump already
  arriving, `_process_batch` (`batch_writer.py:198`) may refresh by `UPDATE` a row that
  the purge has removed since its hash was read; the record is acked without a row. A row that is
  refreshed between the sweep of its edges and the delete of stale rows stays and has lost its
  edges. In single mode the older of two deliveries of a document may commit last.
- `EdgesMatchDocument` speaks of batch mode. In non-batch mode nothing drains
  before the purge (`TB:1464`): a record whose hash is unchanged can have its row inserted
  again after the purge deleted row and edges, and the gate skips the edges.
- `NoStrandedWork` speaks of the first extraction without broker faults, and `NothingIsStranded`
  of a process that found its schema and of the time before a commit fails. When the next
  extraction starts while one type's consumer is in its grace period and another's is
  cancelled, the stuck check sees a consumer, the idle check sees a tag, and the cancelled
  type waits until the other finishes its file (`TB:1021`). With a broker fault, a marker whose
  ack is lost after `extraction_signalled` has gained the type (`TB:1630`) is skipped by
  the fast probe and waits for the idle check. After a failed commit, `attempt_durable_recovery`
  may undo the checker's full recovery half-way: the checker has given a finished type its consumer
  and taken it out of `completed_files`, the recovery loop cancels that consumer with its own failed
  resubscription, and its next attempt restarts `durable_refresh_resume_types` only. The type is then
  neither awaiting its marker nor, while another type has a consumer, seen by the stuck check.
- `PassIsExact` excepts edges that a document committed beside the pass asserts or asserted. Such
  an edge may be missing or left over until the pass of that extraction, which
  `SettledGraphIsReconciled` shows to repair it. A table that is emptied or filled between the count and
  the pages is excepted with its edges in the same way.
- `StallIsReported` measures a record's wait as the observer does: a lost channel starts it anew
  (`batch_processor.py:278`), and the ack or reject of any record of the type ends the wait of one
  that is back at the broker (`batch_processor.py:283`), while `docs/operations.md:83` speaks of
  the oldest unwritten record's wait, requeues included.
- Health reports a version that the inline writer completed before the cutover as waiting
  for signals, because it looks at job rows only (`durable_refresh.py:535`).
- `docs/operations.md:219` gives 24 hours as the age limit of pending work;
  `_STALE_SECONDS` (`durable_refresh.py:36`) is 300.

## What is not modelled

- Markers without a version (`TB:1473-1486`), and record counts of an extraction that
  resumed part-way.
- Clock skew between loader and database: `_owns_lease` compares with the loader's clock.
  The model has one clock. The proofs rest on epoch and row lock, which skew does not touch.
- In Consumers: a pause that pops the tag of a consumer restarted while it was waiting.
  Shutdown is in BatchEngine, for one type; the other background tasks it cancels are not.
- In RecordWrites: aliases, the media and identity columns, and the order of lock acquisition
  within one statement. Two loader processes writing one table, whose unsorted `UPDATE` and
  sorted upsert can lock rows in opposite orders.
- In GraphRows: the arithmetic of the counters, only what they count.
- In BatchEngine: the semaphore and batch-size adaptation inside the shared engine, and more
  than one type. Types share nothing there but the places.
- Field-by-field parsing of documents, native identity, configuration, telemetry and scripts:
  data without concurrency of its own.

## Plan

Done: the refresh protocol with its contract, its health report, the purge, the inline latch,
the consumers, the record writes, the shared graph rows and derived pass, and the batch engine with
bisection, stall observer and shutdown, all with proofs of their safety properties.

Next, in this order:

1. The age limits behind the health report's status.
2. Native identity: `attach_alias_targets` inside the record transaction.
