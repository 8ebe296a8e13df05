----------------------------- MODULE PurgeSafety -----------------------------
(***************************************************************************)
(* The stale-row purge of one data type: what lets extraction_complete     *)
(* delete the rows that a dump did not refresh, and what stops it.         *)
(*                                                                         *)
(* Record deliveries are held unacked by the batch engine until PostgreSQL *)
(* has them; the extraction_complete handler (tableinator.py,              *)
(* _process_data_message) drains the engine, asks three sources for a veto *)
(* (this process's rejections, the broker's dead-letter queue, the latch), *)
(* purges or records the veto, records the signal and acks.  Connections   *)
(* drop, the process restarts, with or without finding the latch, and      *)
(* deliveries outstay their hold; an operator empties the dead-letter      *)
(* queue.                                                                  *)
(*                                                                         *)
(* Time is the number of the newest started dump: a row's updated_at is    *)
(* the dump that was newest when the row was written, and a dump's         *)
(* started_at is its own number.                                           *)
(***************************************************************************)
EXTENDS Naturals, FiniteSets

CONSTANTS
    Records,      \* the data ids of this type
    Dumps,        \* 1 .. number of extractions
    Handlers,     \* extraction_complete handlers that may run at once
    CapNum, CapDen,   \* PURGE_MAX_DELETE_FRACTION
    Limits        \* the bounds a behaviour may have, see limits

\* "hold" when a database outage may outlast POSTGRES_BATCH_MAX_HOLD_S, "restart" when the process
\* may restart, "unnoted" when the engine may report a refused copy as delivery_lost, "nolatch" when
\* a process may start without the latch relation.
OutageKinds == {"hold", "restart", "unnoted", "nolatch"}

ASSUME DumpsAssumption == Dumps = 1..Cardinality(Dumps) /\ IsFiniteSet(Dumps)
ASSUME RecordsAssumption == IsFiniteSet(Records)
ASSUME CapAssumption == CapNum \in Nat /\ CapDen \in Nat \ {0}
ASSUME LimitsAssumption ==
    Limits \subseteq [dumps : Dumps, handlers : Nat, faults : Nat, outage : SUBSET OutageKinds]

VARIABLES
    started,    \* dumps the extractor has started and published
    dump,       \* the records of each dump
    invalid,    \* deliveries the handler cannot parse, identify or normalize
    row,        \* each row's updated_at; 0 before the first dump, Absent without a row
    msg,        \* where the delivery of each record of each dump is
    behind,     \* deliveries that a requeue moved behind the marker of their dump
    ghosts,     \* copies the engine still holds of deliveries lost with their channel
    owed,       \* deliveries the engine returned and has not seen again
    dlqNacks,   \* _had_dlq_nacks of this type
    flagged,    \* history: deliveries refused in a lost copy, which only dlqNacks remembers
    forgotten,  \* history: deliveries left unwritten of which nothing is remembered any more
    marker,     \* where each dump's extraction_complete is
    handler,    \* the running handlers
    declared,   \* whether this process's probe_latch_relation found the latch
    latchVeto,  \* dumps with this type in loader_extraction_latch.purge_vetoed
    latchSignal,\* dumps with this type in loader_extraction_latch.signals
    limits,     \* chosen once: how many dumps start, how many handlers run at once, how many
                \* lost connections, restarts, failed statements, expired holds and replays there
                \* are, and which kinds of outage
    faults

recordVars == <<msg, behind, ghosts, owed>>
fixed      == <<dump, invalid, limits>>   \* chosen in the initial state
known      == <<fixed, declared>>
notes      == <<dlqNacks, flagged, forgotten>>
latchVars  == <<latchVeto, latchSignal>>
vars == <<started, known, row, recordVars, notes, marker, handler, latchVars, faults>>

Absent    == Cardinality(Dumps) + 1
MsgStates == {"unsent", "ready", "held", "dlq", "cleared", "done"}
\* An acked marker is "done", or "unlatched" when the process that acked it has no latch.
MarkerStates == {"unsent", "ready", "back", "out", "done", "unlatched"}
Phases    == {"free", "flushing", "vetting", "checking", "vetoing", "purging", "recording", "acking"}
Deliveries == Dumps \X Records
Free == [phase |-> "free", dump |-> 0, vetoed |-> FALSE, alive |-> FALSE]
HandlerStates == [phase : Phases, dump : Dumps \cup {0}, vetoed : BOOLEAN, alive : BOOLEAN]

Held == {m \in Deliveries : msg[m] = "held"}
Dead == {m \in Deliveries : msg[m] = "dlq"}
\* Ready deliveries that the broker still hands out ahead of the marker of dump d.
Ahead(d) == {m \in Deliveries \ behind : msg[m] = "ready" /\ m[1] <= d}

Fault == faults < limits.faults /\ faults' = faults + 1

-----------------------------------------------------------------------------
(* The extractor and the records.                                          *)

\* probe_latch_relation, at every start: a relation that is not there, or cannot be read, is not
\* found.
Probe(found) == found \in (IF "nolatch" \in limits.outage THEN BOOLEAN ELSE {TRUE})

Init ==
    /\ started = 0
    /\ limits \in Limits
    /\ dump \in {f \in [Dumps -> SUBSET Records] : \A d \in Dumps : d > limits.dumps => f[d] = {}}
    /\ invalid \in SUBSET {m \in Deliveries : m[2] \in dump[m[1]]}
    /\ row \in [Records -> {0, Absent}]
    /\ msg = [m \in Deliveries |-> "unsent"]
    /\ behind = {} /\ ghosts = {} /\ owed = {}
    /\ dlqNacks = FALSE /\ flagged = {} /\ forgotten = {}
    /\ marker = [d \in Dumps |-> "unsent"]
    /\ handler = [h \in Handlers |-> Free]
    /\ latchVeto = {} /\ latchSignal = {}
    /\ Probe(declared)
    /\ faults = 0

\* An extraction publishes its records and, behind them, its extraction_complete.
StartDump ==
    LET d == started + 1
    IN  /\ d <= limits.dumps
        /\ started' = d
        /\ msg' = [m \in Deliveries |-> IF m[1] = d /\ m[2] \in dump[d] THEN "ready" ELSE msg[m]]
        /\ marker' = [marker EXCEPT ![d] = "ready"]
        /\ UNCHANGED <<known, row, behind, ghosts, owed, notes, handler, latchVars, faults>>

\* The queue is first in, first out, except for deliveries that were put back.
InTurn(m) == \/ m \in behind
             \/ Ahead(m[1] - 1) = {} /\ \A d \in Dumps : d < m[1] => marker[d] # "ready"

BrokenDeliver(m) ==
    /\ msg[m] = "ready" /\ InTurn(m) /\ m \notin invalid
    /\ msg' = [msg EXCEPT ![m] = "held"]
    /\ UNCHANGED <<started, known, row, behind, ghosts, owed, notes, marker, handler,
                   latchVars, faults>>

\* add_message: the delivery joins the engine, or waits in submit, and is no longer owed.
Deliver(m) ==
    /\ msg[m] = "ready" /\ InTurn(m) /\ m \notin invalid
    /\ msg' = [msg EXCEPT ![m] = "held"]
    /\ owed' = owed \ {m}
    /\ UNCHANGED <<started, known, row, behind, ghosts, notes, marker, handler, latchVars,
                   faults>>

\* Unparsable bodies and missing ids are nacked without a note; add_message's reject notes it
\* first.  Either way the broker dead-letters the delivery.
RejectInput(m) ==
    /\ msg[m] = "ready" /\ InTurn(m) /\ m \in invalid
    /\ msg' = [msg EXCEPT ![m] = "dlq"]
    /\ dlqNacks' \in {dlqNacks, TRUE}
    /\ UNCHANGED <<started, known, row, behind, ghosts, owed, flagged, forgotten, marker, handler,
                   latchVars, faults>>

BrokenWriteRecord(m) ==
    /\ msg[m] = "held"
    /\ msg' = [msg EXCEPT ![m] = "done"]
    /\ UNCHANGED <<started, known, row, behind, ghosts, owed, notes, marker, handler, latchVars,
                   faults>>

\* The batch that holds the delivery commits, and settled acks it.  An unchanged row has its
\* updated_at refreshed all the same.
WriteRecord(m) ==
    /\ msg[m] = "held"
    /\ row' = [row EXCEPT ![m[2]] = started]
    /\ msg' = [msg EXCEPT ![m] = "done"]
    /\ UNCHANGED <<started, known, behind, ghosts, owed, notes, marker, handler, latchVars,
                   faults>>

\* _isolate found the record that PostgreSQL refuses: settled notes the rejection.
DeadLetter(m) ==
    /\ msg[m] = "held"
    /\ msg' = [msg EXCEPT ![m] = "dlq"]
    /\ dlqNacks' = TRUE
    /\ UNCHANGED <<started, known, row, behind, ghosts, owed, flagged, forgotten, marker, handler,
                   latchVars, faults>>

\* max_hold_s: the engine hands the delivery back to the broker and counts it as pending until
\* it is back.
HoldTimesOut(m) ==
    /\ "hold" \in limits.outage /\ msg[m] = "held"
    /\ msg' = [msg EXCEPT ![m] = "ready"]
    /\ behind' = behind \cup {m}
    /\ owed' = owed \cup {m}
    /\ Fault
    /\ UNCHANGED <<started, known, row, ghosts, notes, marker, handler, latchVars>>

\* A copy whose channel is gone is still written, or refused, by the batch it is in.  The engine
\* reports the copy that it cannot ack as delivery_lost.  The copy that it cannot nack is either
\* reported as the rejection it is, or as delivery_lost, which settled does not note.
SettleGhost(m) ==
    /\ m \in ghosts
    /\ ghosts' = ghosts \ {m}
    /\ \/ row' = [row EXCEPT ![m[2]] = started] /\ UNCHANGED notes
       \/ dlqNacks' = TRUE /\ flagged' = flagged \cup {m} /\ UNCHANGED <<row, forgotten>>
       \/ /\ "unnoted" \in limits.outage
          /\ forgotten' = IF msg[m] = "ready" THEN forgotten \cup {m} ELSE forgotten
          /\ UNCHANGED <<row, dlqNacks, flagged>>
    /\ UNCHANGED <<started, known, msg, behind, owed, marker, handler, latchVars, faults>>

-----------------------------------------------------------------------------
(* The extraction_complete handler.                                        *)

Step(h, p) == handler' = [handler EXCEPT ![h].phase = p]

BrokenNackMarker(h) ==
    /\ marker' = marker
    /\ handler' = [handler EXCEPT ![h] = Free]

\* nack(requeue=True) of the marker; on a dead channel the nack fails and changes nothing.
NackMarker(h) ==
    /\ marker' = IF handler[h].alive THEN [marker EXCEPT ![handler[h].dump] = "back"] ELSE marker
    /\ handler' = [handler EXCEPT ![h] = Free]

DeliverMarker(h, d) ==
    /\ handler[h] = Free
    /\ Cardinality({g \in Handlers : handler[g] # Free}) < limits.handlers
    /\ Ahead(d) = {}
    /\ \/ marker[d] = "back"
       \/ marker[d] = "ready" /\ \A e \in Dumps : e < d => marker[e] # "ready"
    /\ marker' = [marker EXCEPT ![d] = "out"]
    /\ handler' = [handler EXCEPT ![h] = [phase |-> "flushing", dump |-> d, vetoed |-> FALSE,
                                          alive |-> TRUE]]
    /\ UNCHANGED <<started, known, row, recordVars, notes, latchVars, faults>>

BrokenDrained == Held \cup ghosts = {}

\* What AsyncBatchEngine reports as pending: queued, in a write, or returned and not back.
Drained == Held \cup ghosts \cup owed = {}

BrokenFlushQueue(h) ==
    /\ handler[h].phase = "flushing"
    /\ Step(h, "vetting") /\ UNCHANGED marker
    /\ UNCHANGED <<started, known, row, recordVars, notes, latchVars, faults>>

\* flush_queue: drained within its retries, or the marker goes back.
FlushQueue(h) ==
    /\ handler[h].phase = "flushing"
    /\ \/ Drained /\ Step(h, "vetting") /\ UNCHANGED marker
       \/ ~Drained /\ NackMarker(h)
    /\ UNCHANGED <<started, known, row, recordVars, notes, latchVars, faults>>

Veto(h) == handler' = [handler EXCEPT ![h].phase = "vetoing", ![h].vetoed = TRUE]

BrokenReadDeadLetters(h) ==
    /\ handler[h].phase = "vetting"
    /\ IF dlqNacks THEN Veto(h) ELSE Step(h, "checking")
    /\ UNCHANGED <<started, known, row, recordVars, notes, marker, latchVars, faults>>

\* purge_veto_reason, first part: this process's flag, then the depth of the dead-letter queue;
\* a queue that cannot be read vetoes too.
ReadDeadLetters(h) ==
    /\ handler[h].phase = "vetting"
    /\ \/ (dlqNacks \/ Dead # {}) /\ Veto(h) /\ UNCHANGED faults
       \/ ~(dlqNacks \/ Dead # {}) /\ Step(h, "checking") /\ UNCHANGED faults
       \/ ~dlqNacks /\ Fault /\ Veto(h)
    /\ UNCHANGED <<started, known, row, recordVars, notes, marker, latchVars>>

BrokenReadLatch(h) ==
    /\ handler[h].phase = "checking"
    /\ Step(h, "purging")
    /\ UNCHANGED <<started, known, row, recordVars, notes, marker, latchVars, faults>>

\* purge_veto_reason, second part: a veto that an earlier delivery of this signal recorded; a
\* latch that cannot be read vetoes too, one that was not found at the start does not.
ReadLatch(h) ==
    /\ handler[h].phase = "checking"
    /\ \/ /\ IF declared /\ handler[h].dump \in latchVeto THEN Veto(h) ELSE Step(h, "purging")
          /\ UNCHANGED faults
       \/ declared /\ Fault /\ Veto(h)
    /\ UNCHANGED <<started, known, row, recordVars, notes, marker, latchVars>>

\* persist_purge_veto: the signal goes back when the veto cannot be recorded, and goes on without
\* a record when there is no latch.
PersistVeto(h) ==
    /\ handler[h].phase = "vetoing"
    /\ \/ /\ latchVeto' = IF declared THEN latchVeto \cup {handler[h].dump} ELSE latchVeto
          /\ Step(h, "recording")
          /\ UNCHANGED <<marker, faults>>
       \/ declared /\ Fault /\ NackMarker(h) /\ UNCHANGED latchVeto
    /\ UNCHANGED <<started, known, row, recordVars, notes, latchSignal>>

\* purge_stale_rows: nothing for an extraction that reports no records, and nothing when the
\* stale rows reach the cap's fraction of the table.
Rows     == {r \in Records : row[r] # Absent}
Stale(d) == {r \in Rows : row[r] < d}
Purges(d) == /\ dump[d] # {}
             /\ Stale(d) # {}
             /\ Cardinality(Stale(d)) * CapDen < CapNum * Cardinality(Rows)
Purged(d) == IF Purges(d) THEN [r \in Records |-> IF r \in Stale(d) THEN Absent ELSE row[r]]
                          ELSE row

\* The purge commits, or fails before or after its commit and the signal goes back.
PurgeStaleRows(h) ==
    /\ handler[h].phase = "purging"
    /\ \/ row' = Purged(handler[h].dump) /\ Step(h, "recording") /\ UNCHANGED <<marker, faults>>
       \/ row' \in {row, Purged(handler[h].dump)} /\ Fault /\ NackMarker(h)
    /\ UNCHANGED <<started, known, recordVars, notes, latchVars>>

\* The latch transaction: record_durable_signal, or record_extraction_signal in inline mode, where
\* a process without the latch records nothing.
RecordSignal(h) ==
    /\ handler[h].phase = "recording"
    /\ \/ /\ latchSignal' = latchSignal \cup {handler[h].dump}
          /\ Step(h, "acking")
          /\ UNCHANGED <<marker, faults>>
       \/ ~declared /\ Step(h, "acking") /\ UNCHANGED <<latchSignal, marker, faults>>
       \/ Fault /\ NackMarker(h) /\ UNCHANGED latchSignal
    /\ UNCHANGED <<started, known, row, recordVars, notes, latchVeto>>

\* message.ack(), then, after a veto, reset_dlq_nacks: what the flag remembered of dumps without a
\* veto on the latch is forgotten.  On a dead channel the ack raises and the flag stays.
AckMarker(h) ==
    /\ handler[h].phase = "acking"
    /\ IF handler[h].alive
       THEN marker' = [marker EXCEPT ![handler[h].dump] = IF declared THEN "done" ELSE "unlatched"]
       ELSE UNCHANGED marker
    /\ IF handler[h].alive /\ handler[h].vetoed
       THEN /\ dlqNacks' = FALSE /\ flagged' = {}
            /\ forgotten' = forgotten \cup {m \in flagged : m[1] \notin latchVeto}
       ELSE UNCHANGED notes
    /\ handler' = [handler EXCEPT ![h] = Free]
    /\ UNCHANGED <<started, known, row, recordVars, latchVars, faults>>

-----------------------------------------------------------------------------
(* The environment.                                                        *)

\* What the broker does with unacked deliveries when their channel closes: it dead-letters the
\* ones that reached x-delivery-limit and returns the others to their places.
Returned(limit) ==
    [m \in Deliveries |-> IF msg[m] # "held" THEN msg[m]
                          ELSE IF m \in limit THEN "dlq" ELSE "ready"]
MarkersBack == [d \in Dumps |-> IF marker[d] = "out" THEN "back" ELSE marker[d]]

\* The connection drops: handlers run on and the engine keeps its copies.
ConnectionLost ==
    /\ \E limit \in SUBSET Held : msg' = Returned(limit)
    /\ marker' = MarkersBack
    /\ ghosts' = ghosts \cup Held
    /\ handler' = [h \in Handlers |-> [handler[h] EXCEPT !.alive = FALSE]]
    /\ Fault
    /\ UNCHANGED <<started, known, row, behind, owed, notes, latchVars>>

\* The process stops and starts again: everything in memory is gone, with it the trace of what is
\* behind its marker, and the latch is probed for.
Restart ==
    /\ "restart" \in limits.outage
    /\ \E limit \in SUBSET Held : msg' = Returned(limit)
    /\ marker' = MarkersBack
    /\ ghosts' = {} /\ owed' = {}
    /\ dlqNacks' = FALSE /\ flagged' = {}
    /\ forgotten' = forgotten \cup {m \in behind : msg'[m] = "ready" /\ m[1] \notin latchVeto}
    /\ handler' = [h \in Handlers |-> Free]
    /\ Probe(declared')
    /\ Fault
    /\ UNCHANGED <<started, fixed, row, behind, latchVars>>

\* docs/operations.md: an operator clears or replays a run's dead letters once its signal has
\* recorded the veto on the latch.
OperatorClears(m) ==
    /\ msg[m] = "dlq" /\ m[1] \in latchVeto
    /\ \/ msg' = [msg EXCEPT ![m] = "cleared"] /\ UNCHANGED <<behind, faults>>
       \/ msg' = [msg EXCEPT ![m] = "ready"] /\ behind' = behind \cup {m} /\ Fault
    /\ UNCHANGED <<started, known, row, ghosts, owed, notes, marker, handler,
                   latchVars>>

-----------------------------------------------------------------------------

RecordStep(m) == \/ Deliver(m) \/ RejectInput(m) \/ WriteRecord(m) \/ DeadLetter(m)
                 \/ HoldTimesOut(m) \/ SettleGhost(m) \/ OperatorClears(m)

HandlerStep(h) == \/ FlushQueue(h) \/ ReadDeadLetters(h) \/ ReadLatch(h) \/ PersistVeto(h)
                  \/ PurgeStaleRows(h) \/ RecordSignal(h) \/ AckMarker(h)

Next == \/ StartDump
        \/ \E m \in Deliveries : RecordStep(m)
        \/ \E h \in Handlers : HandlerStep(h) \/ \E d \in Dumps : DeliverMarker(h, d)
        \/ ConnectionLost \/ Restart

Spec == Init /\ [][Next]_vars

\* The broker redelivers, batches are flushed, and handlers run on.  The hold, the faults and
\* the operator are under no obligation.
FairSpec ==
    /\ Spec
    /\ \A m \in Deliveries : /\ WF_vars(Deliver(m) \/ RejectInput(m))
                             /\ WF_vars(WriteRecord(m) \/ DeadLetter(m))
                             /\ WF_vars(SettleGhost(m))
    /\ \A h \in Handlers : WF_vars(HandlerStep(h))
    /\ \A d \in Dumps : WF_vars(\E h \in Handlers : DeliverMarker(h, d))

-----------------------------------------------------------------------------
(* Properties.                                                             *)

\* Every variable keeps its type, and a delivery's marker is out only while a live handler
\* has it.
TypeOK ==
    /\ started \in Dumps \cup {0}
    /\ dump \in [Dumps -> SUBSET Records]
    /\ invalid \subseteq Deliveries
    /\ row \in [Records -> Dumps \cup {0, Absent}]
    /\ msg \in [Deliveries -> MsgStates]
    /\ behind \subseteq Deliveries /\ ghosts \subseteq Deliveries /\ owed \subseteq Deliveries
    /\ dlqNacks \in BOOLEAN /\ flagged \subseteq Deliveries /\ forgotten \subseteq Deliveries
    /\ declared \in BOOLEAN
    /\ marker \in [Dumps -> MarkerStates]
    /\ handler \in [Handlers -> HandlerStates]
    /\ latchVeto \subseteq Dumps /\ latchSignal \subseteq Dumps
    /\ limits \in Limits /\ faults \in 0..limits.faults
    /\ \A d \in Dumps : marker[d] = "out"
            <=> \E h \in Handlers : handler[h].dump = d /\ handler[h].alive

Deletes(r) == row[r] # Absent /\ row'[r] = Absent

\* The purge of a dump deletes the row of a record that this dump contains only when nothing was
\* left to stop it: a restart, an unreported refusal or a flag spent on another dump has forgotten
\* the record, or the process has no latch to read a recorded veto from.  It does so for nothing
\* else that was rejected, dead-lettered by the broker, redelivered or in flight.
PurgeSparesTheDump ==
    [][\A h \in Handlers, r \in Records :
        LET d == handler[h].dump
        IN  handler[h].phase = "purging" /\ handler'[h] # handler[h] /\ Deletes(r) /\ r \in dump[d]
                => <<d, r>> \in forgotten \/ (~declared /\ d \in latchVeto)]_vars

\* An acked record has its row, refreshed in its own dump or later, unless a later dump's purge
\* took it.
AckedRecordIsWritten ==
    \A m \in Deliveries :
        msg[m] = "done" => \/ row[m[2]] # Absent /\ row[m[2]] >= m[1]
                           \/ row[m[2]] = Absent /\ \E e \in Dumps : e > m[1] /\ e <= started

\* A dead letter whose row was not refreshed never goes unnoticed: the marker of its dump is
\* unsettled, or the veto is on the latch, unless the record was forgotten before it was dead-
\* lettered or the marker was acked by a process without a latch.
SettledMarkerAccountsForDeadLetters ==
    \A m \in Dead \ forgotten :
        marker[m[1]] = "done" /\ row[m[2]] < m[1] => m[1] \in latchVeto

\* Every extraction_complete is acked in the end.
MarkerSettles == \A d \in Dumps : (marker[d] # "unsent") ~> (marker[d] \in {"done", "unlatched"})

=============================================================================
