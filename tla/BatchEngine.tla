---------------------------- MODULE BatchEngine ----------------------------
(***************************************************************************)
(* Batch mode of one data type: the deliveries of a queue are accepted     *)
(* (add_message), wait for a place, are written in batches by              *)
(* PostgreSQLBatchSink, which bisects a batch with a poison record, and    *)
(* are settled; PostgreSQLBatchObserver keeps the times from which         *)
(* stalled() reports a queue that makes no progress; and the teardown of   *)
(* main() ends all of it before it closes the connection pool.             *)
(*                                                                         *)
(* common.AsyncBatchEngine is not part of the repository.  What is assumed *)
(* of it: places are given in order of arrival; flushes of a type are      *)
(* serialized; a failed or cancelled flush puts its batch back in order; a *)
(* settlement on a lost channel is reported as delivery_lost, after those  *)
(* that reached the broker; a delivery that has waited max_hold_s outside  *)
(* a write is returned, or rejected once it was returned max_requeues      *)
(* times; a single record that fails deterministically is rejected after   *)
(* max_poison_retries attempts.                                            *)
(*                                                                         *)
(* Time passes in ticks, and ages stop at MaxAge, which is past every      *)
(* bound.                                                                  *)
(***************************************************************************)
EXTENDS Integers, FiniteSets, SequencesExt

CONSTANTS
    Cases,          \* the dumps considered, and what may go wrong while they are loaded
    BatchSize,      \* POSTGRES_BATCH_SIZE
    MaxPending,     \* places in the engine
    MaxHold,        \* POSTGRES_BATCH_MAX_HOLD_S, in ticks
    MaxRequeues,    \* POSTGRES_BATCH_MAX_REQUEUES
    MaxPoisonRetries,
    MaxFlushRetries,
    StallS          \* POSTGRES_BATCH_STALL_S, in ticks

ASSUME BoundsAssumption ==
    /\ MaxRequeues \in Nat /\ {BatchSize, MaxPending, MaxPoisonRetries, MaxFlushRetries} \subseteq Nat \ {0}
    /\ \A c \in Cases : /\ c.kinds \in Seq({"good", "poison", "malformed"})
                       /\ c.budget \in [faults : Nat, losses : Nat, restarts : Nat, time : BOOLEAN]
\* validate_stall_s
ASSUME StallAssumption == MaxHold \in Nat /\ StallS \in 1..(MaxHold - 1)

MaxAge == MaxHold
None == -1
Ages == 0..MaxAge

VARIABLES
    kinds,      \* what normalize_record and PostgreSQL make of each record
    queue,      \* records at the broker, ready
    returns,    \* times the broker got each of them back
    acked, dead,
    stored,     \* records committed to PostgreSQL
    waiting,    \* deliveries in submit, waiting for a place
    pending,    \* deliveries in the engine
    flush,      \* the batch that is being written or settled
    attempts,   \* deterministic failures of the batch at the head
    lingering,  \* the writes that were given up and have not ended, each as its records
    obs,        \* PostgreSQLBatchObserver
    stage, tries,            \* main()'s teardown, and the attempts flush_queue has left
    budget,     \* bounds: failures, lost channels and restarts to come, and whether time passes
    waited,     \* history: the time since this process first accepted each unsettled record
    kept        \* history: the part of it that its returns to the broker keep

Records == DOMAIN kinds

broker == <<queue, returns, acked, dead>>
engine == <<waiting, pending, flush, attempts>>
history == <<waited, kept>>
vars == <<kinds, broker, stored, engine, lingering, obs, stage, tries, budget, history>>

NoFlush == [pc |-> "idle", batch |-> <<>>, parts |-> <<>>, rejected |-> {}]
Observer == [accepted |-> <<>>, held |-> None, settled |-> 0, veto |-> FALSE]

Init ==
    /\ \E c \in Cases : kinds = c.kinds /\ budget = c.budget
    /\ queue = Records /\ returns = [r \in Records |-> 0] /\ acked = {} /\ dead = {}
    /\ stored = {}
    /\ waiting = <<>> /\ pending = <<>> /\ flush = NoFlush /\ attempts = 0
    /\ lingering = {}
    /\ obs = Observer
    /\ stage = "running" /\ tries = MaxFlushRetries
    /\ waited = [r \in Records |-> None] /\ kept = waited

Spend(fault) == budget[fault] > 0 /\ budget' = [budget EXCEPT ![fault] = @ - 1]

Older(age) == IF age = None \/ age = MaxAge THEN age ELSE age + 1
Aged(s) == [i \in DOMAIN s |-> [s[i] EXCEPT !.age = Older(@)]]

Tick ==
    /\ budget.time
    /\ waiting' = Aged(waiting) /\ pending' = Aged(pending)
    /\ flush' = [flush EXCEPT !.batch = Aged(@)]
    /\ obs' = [obs EXCEPT !.accepted = [i \in DOMAIN @ |-> Older(@[i])],
                          !.held = Older(@), !.settled = Older(@)]
    /\ waited' = [r \in Records |-> Older(waited[r])] /\ kept' = [r \in Records |-> Older(kept[r])]
    /\ UNCHANGED <<kinds, broker, stored, attempts, lingering, stage, tries, budget>>

-----------------------------------------------------------------------------
(* PostgreSQLBatchObserver                                                 *)

Accepted(o) == [o EXCEPT !.accepted = Append(@, 0)]

\* Takes the entry back by its time; one that a settlement took already is not there.
Withdrawn(o, age) ==
    LET at == {i \in DOMAIN o.accepted : o.accepted[i] = age}
    IN  IF at = {} THEN o ELSE [o EXCEPT !.accepted = RemoveAt(@, CHOOSE i \in at : \A j \in at : i <= j)]

\* Mutant: a lost delivery starts a wait, as a returned one does.
BrokenStartsAWait(result) == result \in {"held_timeout", "delivery_lost"}

StartsAWait(result) == result = "held_timeout"

\* One settlement takes the oldest entry.  A requeue keeps the wait, and dates it from that
\* entry; an ack or a reject ends it.
Settled(o, result) ==
    LET took == [o EXCEPT !.accepted = IF @ = <<>> THEN @ ELSE Tail(@)]
        since == IF o.accepted = <<>> THEN 0 ELSE Head(o.accepted)
    IN  IF result \in {"ack", "reject"}
        THEN [took EXCEPT !.settled = 0, !.held = None, !.veto = @ \/ result = "reject"]
        ELSE [took EXCEPT !.held = IF StartsAWait(result) /\ @ = None THEN since ELSE @]

QueuedAge == LET ages == {pending[i].age : i \in DOMAIN pending} IN IF ages = {} THEN 0 ELSE Max(ages)
OldestUnsettledAge == IF obs.accepted = <<>> THEN 0 ELSE Head(obs.accepted)

\* Mutant: the age of what is still queued is the age of the type.
BrokenStalled == QueuedAge > StallS /\ obs.settled > StallS

Stalled == Max({QueuedAge, OldestUnsettledAge, obs.held}) > StallS /\ obs.settled > StallS

-----------------------------------------------------------------------------
(* add_message                                                             *)

Delivery(r) == [rec |-> r, live |-> TRUE, age |-> 0]
Places == Len(pending) + Len(flush.batch)

\* Mutant: the delivery is entered with the observer only once the engine has taken it.
BrokenAccept(r) == obs' = IF Places < MaxPending /\ waiting = <<>> THEN Accepted(obs) ELSE obs

\* Entered before submit, which may settle it.
Accept(r) == obs' = Accepted(obs)

\* submit: a place in the engine, or a wait for one.
Submit(r) ==
    IF Places < MaxPending /\ waiting = <<>>
    THEN pending' = Append(pending, Delivery(r)) /\ UNCHANGED waiting
    ELSE waiting' = Append(waiting, Delivery(r)) /\ UNCHANGED pending

Deliver(r) ==
    /\ stage = "running" /\ r \in queue /\ kinds[r] # "malformed"
    /\ queue' = queue \ {r}
    /\ Accept(r) /\ Submit(r)
    /\ waited' = [waited EXCEPT ![r] = IF @ = None THEN 0 ELSE @]
    /\ kept' = [kept EXCEPT ![r] = IF @ = None THEN 0 ELSE @]
    /\ UNCHANGED <<kinds, returns, acked, dead, stored, flush, attempts, lingering, stage, tries, budget>>

\* It does not normalize: rejected here, and the purge vetoed.
RejectMalformed(r) ==
    /\ stage = "running" /\ r \in queue /\ kinds[r] = "malformed"
    /\ queue' = queue \ {r} /\ dead' = dead \cup {r}
    /\ obs' = [obs EXCEPT !.veto = TRUE]
    /\ UNCHANGED <<kinds, returns, acked, stored, engine, lingering, stage, tries, budget, history>>

\* A place is free, and the first that waits in submit gets it.
Admit ==
    /\ waiting # <<>> /\ Places < MaxPending
    /\ pending' = Append(pending, Head(waiting)) /\ waiting' = Tail(waiting)
    /\ UNCHANGED <<kinds, broker, stored, flush, attempts, lingering, obs, stage, tries, budget, history>>

\* An ack or a reject ends the wait of its record, and what is kept for those at the broker.
Finish(r) == /\ waited' = [waited EXCEPT ![r] = None]
             /\ kept' = [x \in Records |-> IF x \in queue \cup {r} THEN None ELSE kept[x]]

Return(R) == /\ queue' = queue \cup R
             /\ returns' = [r \in Records |-> IF r \in R /\ returns[r] < MaxRequeues THEN returns[r] + 1 ELSE returns[r]]

\* A delivery that has waited max_hold_s goes back, or to the dead letters once it has spent
\* its returns.
Release(d) ==
    \/ /\ d.live /\ returns[d.rec] < MaxRequeues
       /\ Return({d.rec}) /\ obs' = Settled(obs, "held_timeout")
       /\ UNCHANGED <<acked, dead, history>>
    \/ /\ d.live /\ returns[d.rec] >= MaxRequeues
       /\ dead' = dead \cup {d.rec} /\ obs' = Settled(obs, "reject")
       /\ Finish(d.rec)
       /\ UNCHANGED <<queue, returns, acked>>
    \/ /\ ~d.live
       /\ obs' = Settled(obs, "delivery_lost")
       /\ UNCHANGED <<broker, history>>

ReleaseHeld ==
    /\ \/ /\ pending # <<>> /\ Head(pending).age >= MaxHold
          /\ Release(Head(pending)) /\ pending' = Tail(pending) /\ UNCHANGED waiting
       \/ /\ waiting # <<>> /\ Head(waiting).age >= MaxHold
          /\ Release(Head(waiting)) /\ waiting' = Tail(waiting) /\ UNCHANGED pending
    /\ UNCHANGED <<kinds, stored, flush, attempts, lingering, stage, tries, budget>>

-----------------------------------------------------------------------------
(* A flush: write, _isolate, settlement                                    *)

MayFlush == stage \in {"running", "stopping"} \/ (stage = "flushing" /\ tries > 0)

BeginFlush ==
    /\ MayFlush /\ flush.pc = "idle" /\ pending # <<>>
    /\ \E n \in 1..Min({BatchSize, Len(pending)}) :
         /\ flush' = [pc |-> "write", batch |-> SubSeq(pending, 1, n), parts |-> <<[lo |-> 1, hi |-> n]>>,
                      rejected |-> {}]
         /\ pending' = SubSeq(pending, n + 1, Len(pending))
    /\ UNCHANGED <<kinds, broker, stored, waiting, attempts, lingering, obs, stage, tries, budget, history>>

\* add_message once its delivery has a place: the handler flushes at the threshold, also when
\* flush_queue has given up.
HandlerFlushes ==
    /\ stage \in {"flushing", "closing"} /\ flush.pc = "idle"
    /\ waiting # <<>> /\ Places < MaxPending /\ Len(pending) + 1 >= Min({BatchSize, MaxPending})
    /\ LET queued == Append(pending, Head(waiting))
       IN  \E n \in 1..Min({BatchSize, Len(queued)}) :
             /\ flush' = [pc |-> "write", batch |-> SubSeq(queued, 1, n), parts |-> <<[lo |-> 1, hi |-> n]>>,
                          rejected |-> {}]
             /\ pending' = SubSeq(queued, n + 1, Len(queued))
    /\ waiting' = Tail(waiting)
    /\ UNCHANGED <<kinds, broker, stored, attempts, lingering, obs, stage, tries, budget, history>>

Part == Head(flush.parts)
RecordsOf(part) == {flush.batch[i].rec : i \in part.lo..part.hi}
Poisoned(part) == \E r \in RecordsOf(part) : kinds[r] = "poison"
Whole(part) == part = [lo |-> 1, hi |-> Len(flush.batch)]

Halves(part) ==
    LET middle == (part.hi - part.lo + 1) \div 2
    IN  <<[lo |-> part.lo, hi |-> part.lo + middle - 1], [lo |-> part.lo + middle, hi |-> part.hi]>>

\* What is left to write after the part at the head; then the batch is settled.
NextPart(rest, rejected) ==
    flush' = [flush EXCEPT !.parts = rest, !.rejected = rejected, !.pc = IF rest = <<>> THEN "settle" ELSE "write"]

\* One transaction per part.
WritePart ==
    /\ flush.pc = "write" /\ ~Poisoned(Part)
    /\ stored' = stored \cup RecordsOf(Part)
    /\ NextPart(Tail(flush.parts), flush.rejected)
    /\ attempts' = IF Tail(flush.parts) = <<>> THEN 0 ELSE attempts
    /\ UNCHANGED <<kinds, broker, waiting, pending, lingering, obs, stage, tries, budget, history>>

\* Mutant: a part that fails is rejected whole.
BrokenSplitPart ==
    /\ flush.pc = "write" /\ Poisoned(Part) /\ Part.lo < Part.hi
    /\ NextPart(Tail(flush.parts), flush.rejected \cup (Part.lo..Part.hi))
    /\ UNCHANGED <<kinds, broker, stored, waiting, pending, attempts, lingering, obs, stage, tries, budget, history>>

\* The transaction failed deterministically, and its part is halved ...
SplitPart ==
    /\ flush.pc = "write" /\ Poisoned(Part) /\ Part.lo < Part.hi
    /\ NextPart(Halves(Part) \o Tail(flush.parts), flush.rejected)
    /\ UNCHANGED <<kinds, broker, stored, waiting, pending, attempts, lingering, obs, stage, tries, budget, history>>

\* ... down to the record that fails alone.
RejectPart ==
    /\ flush.pc = "write" /\ Poisoned(Part) /\ Part.lo = Part.hi /\ ~Whole(Part)
    /\ NextPart(Tail(flush.parts), flush.rejected \cup {Part.lo})
    /\ attempts' = IF Tail(flush.parts) = <<>> THEN 0 ELSE attempts
    /\ UNCHANGED <<kinds, broker, stored, waiting, pending, lingering, obs, stage, tries, budget, history>>

\* Mutant: the batch goes back to the end of the queue.
BrokenRestore == pending' = pending \o flush.batch /\ flush' = NoFlush

\* The batch goes back to the head of the queue, whatever parts of it were written.
Restore == pending' = flush.batch \o pending /\ flush' = NoFlush
SpendTry == tries' = IF stage = "flushing" /\ tries > 0 THEN tries - 1 ELSE tries

\* Mutant: the attempts on a record that always fails are not counted.
BrokenRetryPoison ==
    /\ flush.pc = "write" /\ Poisoned(Part) /\ Part.lo = Part.hi /\ Whole(Part)
    /\ Restore /\ SpendTry
    /\ UNCHANGED <<kinds, broker, stored, waiting, attempts, lingering, obs, stage, budget, history>>

\* A batch of one record raises, and the engine retries it a bounded number of times.
RetryPoison ==
    /\ flush.pc = "write" /\ Poisoned(Part) /\ Part.lo = Part.hi /\ Whole(Part)
    /\ IF attempts + 1 < MaxPoisonRetries
       THEN Restore /\ attempts' = attempts + 1 /\ SpendTry
       ELSE NextPart(<<>>, {1}) /\ attempts' = 0 /\ UNCHANGED <<pending, tries>>
    /\ UNCHANGED <<kinds, broker, stored, waiting, lingering, obs, stage, budget, history>>

\* Mutant: a transient failure during isolation is taken for a verdict on the rest.
BrokenWriteFails ==
    /\ flush.pc = "write"
    /\ Spend("faults")
    /\ IF Whole(Part) THEN Restore ELSE NextPart(<<>>, flush.rejected) /\ UNCHANGED pending
    /\ SpendTry
    /\ UNCHANGED <<kinds, broker, stored, waiting, attempts, lingering, obs, stage, history>>

\* A transient failure, of the batch or of any part of it.
WriteFails ==
    /\ flush.pc = "write"
    /\ Spend("faults")
    /\ Restore /\ SpendTry
    /\ UNCHANGED <<kinds, broker, stored, waiting, attempts, lingering, obs, stage, history>>

\* max_write_s and its grace are over: the write counts as failed, and still has its connection.
WriteTimesOut ==
    /\ flush.pc = "write" /\ ~Poisoned(Part)
    /\ Spend("faults")
    /\ lingering' = lingering \cup {RecordsOf(Part)}
    /\ Restore /\ SpendTry
    /\ UNCHANGED <<kinds, broker, stored, waiting, attempts, obs, stage, history>>

LingeringEnds ==
    /\ \E W \in lingering :
         /\ stored' \in {stored, stored \cup W}
         /\ lingering' = lingering \ {W}
    /\ UNCHANGED <<kinds, broker, engine, obs, stage, tries, budget, history>>

\* The deliveries whose channel is alive are settled first, in order.
NextToSettle ==
    LET alive == {i \in DOMAIN flush.batch : flush.batch[i].live}
    IN  IF alive = {} THEN 1 ELSE Min(alive)

SettleOne ==
    /\ flush.pc = "settle"
    /\ LET i == NextToSettle
           d == flush.batch[i]
           rejected == i \in flush.rejected
       IN  /\ flush' = IF Len(flush.batch) = 1 THEN NoFlush
                       ELSE [flush EXCEPT !.batch = RemoveAt(@, i),
                                          !.rejected = {IF j > i THEN j - 1 ELSE j : j \in @ \ {i}}]
           /\ IF d.live
              THEN /\ acked' = IF rejected THEN acked ELSE acked \cup {d.rec}
                   /\ dead' = IF rejected THEN dead \cup {d.rec} ELSE dead
                   /\ obs' = Settled(obs, IF rejected THEN "reject" ELSE "ack")
                   /\ Finish(d.rec)
              ELSE /\ obs' = Settled(obs, "delivery_lost")
                   /\ UNCHANGED <<acked, dead, history>>
    /\ UNCHANGED <<kinds, queue, returns, stored, waiting, pending, attempts, lingering, stage, tries, budget>>

-----------------------------------------------------------------------------
(* The channel                                                             *)

InHand == Range(waiting) \cup Range(pending) \cup Range(flush.batch)
Lost(s) == [i \in DOMAIN s |-> [s[i] EXCEPT !.live = FALSE]]
Unsettled == {d.rec : d \in {e \in InHand : e.live}}

\* The broker gets back everything unsettled.
LoseChannel ==
    /\ Return(Unsettled)
    /\ kept' = [r \in Records |-> IF r \in Unsettled THEN None ELSE kept[r]]
    /\ UNCHANGED waited

\* The broker closes the channel; handlers in submit go on waiting.
ChannelLost ==
    /\ Spend("losses")
    /\ LoseChannel
    /\ waiting' = Lost(waiting) /\ pending' = Lost(pending) /\ flush' = [flush EXCEPT !.batch = Lost(@)]
    /\ UNCHANGED <<kinds, acked, dead, stored, attempts, lingering, obs, stage, tries>>

WithdrawAll(o) ==
    LET after[n \in 0..Len(waiting)] == IF n = 0 THEN o ELSE Withdrawn(after[n - 1], waiting[n].age)
    IN  after[Len(waiting)]

\* The loader closes its transport: handlers are cancelled and joined.  One that is in submit
\* withdraws its delivery, one that runs the flush puts the batch back.
CloseTransport ==
    /\ LoseChannel
    /\ waiting' = <<>> /\ obs' = WithdrawAll(obs)
    /\ \/ pending' = Lost(pending) /\ flush' = [flush EXCEPT !.batch = Lost(@)]
       \/ pending' = Lost(flush.batch \o pending) /\ flush' = NoFlush /\ flush.pc = "write"
    /\ UNCHANGED <<acked, dead>>

ResetBroker ==
    /\ stage = "running" /\ Spend("losses")
    /\ CloseTransport
    /\ UNCHANGED <<kinds, stored, attempts, lingering, stage, tries>>

-----------------------------------------------------------------------------
(* The teardown of main()                                                  *)

\* cancel_all_consumers: no delivery is accepted any more.
StopConsumers ==
    /\ stage = "running" /\ Spend("restarts")
    /\ stage' = "stopping"
    /\ \/ UNCHANGED <<broker, waiting, pending, flush, obs, history>>
       \/ CloseTransport
    /\ UNCHANGED <<kinds, stored, attempts, lingering, tries>>

\* The periodic flush is cancelled, and shutdown() leaves only flush_all.
StopPeriodic ==
    /\ stage = "stopping"
    /\ stage' = "flushing" /\ tries' = MaxFlushRetries
    /\ \/ UNCHANGED <<pending, flush>>
       \/ flush.pc = "write" /\ Restore
    /\ UNCHANGED <<kinds, broker, stored, waiting, attempts, lingering, obs, budget, history>>

\* flush_all returns: nothing is queued, or flush_queue has no attempt left and a flush that
\* still runs is a handler's.
EndFlushAll ==
    /\ stage = "flushing"
    /\ (flush.pc = "idle" /\ pending = <<>>) \/ tries = 0
    /\ stage' = "closing"
    /\ UNCHANGED <<kinds, broker, stored, engine, lingering, obs, tries, budget, history>>

CloseBroker ==
    /\ stage = "closing"
    /\ CloseTransport /\ stage' = "draining"
    /\ UNCHANGED <<kinds, stored, attempts, lingering, tries, budget>>

\* Mutant: the drain waits for the writes that were given up, and not for handlers.
BrokenDrained == lingering = {}

\* admission.drain: no handler, and nobody with a connection.
Drained == waiting = <<>> /\ flush.pc = "idle" /\ lingering = {}

CloseDatabase ==
    /\ stage = "draining" /\ Drained
    /\ stage' = "pool_closed"
    /\ UNCHANGED <<kinds, broker, stored, engine, lingering, obs, tries, budget, history>>

\* The transport did not close, or the drain timed out: the pool is left open.
KeepPool ==
    /\ stage \in {"closing", "draining"}
    /\ stage' = "pool_kept"
    /\ UNCHANGED <<kinds, broker, stored, engine, lingering, obs, tries, budget, history>>

\* The process is gone, the broker and PostgreSQL have noticed, and another one starts.
NewProcess ==
    /\ Return(Unsettled)
    /\ waited' = [r \in Records |-> None] /\ kept' = waited'
    /\ waiting' = <<>> /\ pending' = <<>> /\ flush' = NoFlush /\ attempts' = 0
    /\ \E L \in SUBSET lingering : stored' = stored \cup UNION L
    /\ lingering' = {}
    /\ obs' = Observer
    /\ stage' = "running" /\ tries' = MaxFlushRetries
    /\ UNCHANGED <<kinds, acked, dead>>

Restart == stage \in {"pool_closed", "pool_kept"} /\ NewProcess /\ UNCHANGED budget
Crash == Spend("restarts") /\ NewProcess

-----------------------------------------------------------------------------
\* What goes on as long as it can: deliveries, handlers, the flushes and the teardown.
Progress ==
    \/ \E r \in Records : Deliver(r) \/ RejectMalformed(r)
    \/ Admit \/ BeginFlush \/ HandlerFlushes \/ WritePart \/ SplitPart \/ RejectPart \/ RetryPoison \/ SettleOne
    \/ StopPeriodic \/ EndFlushAll \/ CloseBroker \/ CloseDatabase \/ KeepPool \/ Restart

Next ==
    \/ Progress
    \/ ReleaseHeld \/ WriteFails \/ WriteTimesOut \/ LingeringEnds
    \/ ChannelLost \/ ResetBroker \/ StopConsumers \/ Crash
    \/ Tick

Spec == Init /\ [][Next]_vars /\ WF_vars(Progress)

-----------------------------------------------------------------------------
(* Properties *)

Deliveries == [rec : Records, live : BOOLEAN, age : Ages]

\* The state is well-typed; the batch, what is queued and what waits are in order of arrival;
\* and no record has two live deliveries or one beside its place at the broker.
TypeOK ==
    /\ kinds \in {c.kinds : c \in Cases}
    /\ \A S \in {queue, acked, dead, stored} \cup lingering : S \subseteq Records
    /\ returns \in [Records -> 0..MaxRequeues] /\ {waited, kept} \subseteq [Records -> Ages \cup {None}]
    /\ LET all == flush.batch \o pending \o waiting
       IN  /\ Range(all) \subseteq Deliveries
           /\ \A i, j \in DOMAIN all : i < j => all[i].age >= all[j].age
           /\ \A i, j \in DOMAIN all : i # j /\ all[i].live /\ all[j].live => all[i].rec # all[j].rec
    /\ Records \subseteq queue \cup acked \cup dead \cup Unsettled
    /\ \A S, T \in {queue, acked, dead, Unsettled} : S # T => S \cap T = {}
    /\ Places <= MaxPending
    /\ flush.pc \in {"idle", "write", "settle"} /\ flush.rejected \subseteq DOMAIN flush.batch
    /\ attempts \in 0..(MaxPoisonRetries - 1) /\ tries \in 0..MaxFlushRetries
    /\ Range(obs.accepted) \subseteq Ages /\ obs.held \in Ages \cup {None}
    /\ obs.settled \in Ages /\ obs.veto \in BOOLEAN
    /\ stage \in {"running", "stopping", "flushing", "closing", "draining", "pool_closed", "pool_kept"}

\* A delivery is acked only for a record that is committed, whatever halves of its batch were
\* written, rejected or retried before, and on whichever of its deliveries.
AckedIsStored == acked \subseteq stored

\* A record is dead-lettered because it fails on its own, or because it has spent its returns:
\* never because of its neighbours in a batch, an outage during isolation or a lost channel.
DeadLettersAreEarned == \A r \in dead : kinds[r] # "good" \/ returns[r] = MaxRequeues

\* Each settlement is deserved, an ack by a commit and a dead letter by the record itself.
SettlementsAreEarned == AckedIsStored /\ DeadLettersAreEarned

\* outstanding_accepted: the observer has one entry for every delivery the loader holds, and
\* none is left over when the engine is drained.
EntriesMatchDeliveries == Len(obs.accepted) = Len(waiting) + Len(pending) + Len(flush.batch)

\* /health: a type is reported stalled only while a record has really waited that long.
StallIsReal ==
    Stalled => (\E d \in InHand : d.age > StallS) \/ (\E r \in Records : waited[r] > StallS)

\* /health: when nothing has been acked or rejected for stall_s and a record has waited as long,
\* in a queue, in a write that does not return, or through returns to the broker, it is reported;
\* a lost channel starts the wait anew.
StallIsReported ==
    obs.settled > StallS /\ (\E r \in Records : kept[r] > StallS) => Stalled

\* What the observer says is so: one entry per delivery, and a stall exactly when there is one.
ObserverIsAccurate == EntriesMatchDeliveries /\ StallIsReal /\ StallIsReported

\* close_database_after_broker_drain: when the pool is closed nobody has a connection of it, and what
\* the engine has not settled is back at the broker.
PoolClosesUnused == stage = "pool_closed" => lingering = {} /\ flush.pc # "write" /\ Unsettled = {}

\* Every record is acked or dead-lettered in the end, through outages, lost channels, cancelled
\* flushes and restarts, as long as these come to an end.
EveryRecordSettles == <>(acked \cup dead = Records)
=============================================================================
