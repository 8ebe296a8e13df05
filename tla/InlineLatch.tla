----------------------------- MODULE InlineLatch -----------------------------
(***************************************************************************)
(* DERIVED_REFRESH_MODE=inline, the rollback mode: the extraction_complete *)
(* handlers record their signals in loader_extraction_latch and the one    *)
(* that completes an extraction runs the derived pass before it acks.      *)
(*                                                                         *)
(* A dump is the number of an extraction, in the order of its versions.    *)
(* The drain and the purge before the signal belong to PurgeSafety; here   *)
(* they are a choice between vetoed, clean and failed.  Handlers of one    *)
(* process overlap, keep running when their connection is lost, and        *)
(* serialize recording and pass by an asyncio lock.  created_at is the     *)
(* rank of a row among the rows inserted.                                  *)
(***************************************************************************)
EXTENDS Naturals, Sequences, FiniteSets

CONSTANTS
    Dumps,      \* 1 .. number of extractions
    Types,      \* DATA_TYPES
    Handlers,   \* extraction_complete handlers that may run at once
    NoHandler,  \* holder of the lock when it is free
    MaxFaults   \* bound on lost connections, restarts and failed statements

ASSUME DumpsAssumption == Dumps = 1..Cardinality(Dumps) /\ IsFiniteSet(Dumps)
ASSUME NamesAssumption == Types # {} /\ NoHandler \notin Handlers /\ MaxFaults \in Nat

VARIABLES
    started,    \* extractions that have started
    named,      \* dumps whose messages carry a version or a started_at
    declared,   \* whether this process's probe_latch_relation found the relation
    msg,        \* where each dump's extraction_complete of each type is; "acked" after its signal
                \* was recorded, "skipped" when it was acked without one
    handler,    \* the running handlers
    lock,       \* who holds derived_refresh_lock
    created,    \* created_at of each dump's latch row, 0 without a row
    signals,    \* latch.signals
    vetoed,     \* latch.purge_vetoed
    refreshed,  \* dumps whose latch.refreshed_at is set
    passes,     \* the derived passes that committed, in order
    streak,     \* the gauge of consecutive vetoes per type, as last reported
    faults

known     == <<named, declared>>    \* what a process finds when it starts
latchVars == <<created, signals, vetoed, refreshed>>
vars == <<started, known, msg, handler, lock, latchVars, passes, streak, faults>>

Phases == {"free", "vetting", "signalling", "passing", "acking", "reporting"}
Places == {"unsent", "ready", "out", "acked", "skipped"}
HandlerStates == [phase : Phases, dump : Dumps \cup {0}, type : Types, clean : BOOLEAN,
                  alive : BOOLEAN]
Free == [phase |-> "free", dump |-> 0, type |-> CHOOSE t \in Types : TRUE, clean |-> FALSE,
         alive |-> FALSE]

Fault == faults < MaxFaults /\ faults' = faults + 1

-----------------------------------------------------------------------------
(* The latch relation.                                                     *)

\* extraction_latch_key is None for a message without version and started_at, and without the
\* relation nothing is read or written.
Latched(d) == declared /\ d \in named

\* The row that an INSERT ... ON CONFLICT leaves, with its created_at.
WithRow(d) ==
    IF created[d] # 0 THEN created
    ELSE [created EXCEPT ![d] = 1 + Cardinality({e \in Dumps : created[e] # 0})]

Superseded(d) == \E e \in Dumps : WithRow(d)[e] > WithRow(d)[d]

\* record_extraction_signal: one statement inserts or merges the row.
RecordExtractionSignal(d, t) ==
    /\ created' = WithRow(d)
    /\ signals' = [signals EXCEPT ![d] = @ \cup {t}]

BrokenShouldRefresh(d, t) ==
    Types \subseteq signals[d] \cup {t} /\ d \notin refreshed /\ ~Superseded(d) /\ t \notin signals[d]

BrokenStragglerShouldRefresh(d, t) == Types \subseteq signals[d] \cup {t} /\ d \notin refreshed

BrokenUnkeyedShouldRefresh(d, t) ==
    /\ Types \subseteq UNION {signals[e] : e \in Dumps} \cup {t}
    /\ d \notin refreshed /\ ~Superseded(d)

\* Complete with this signal, not stamped, and no row was created later.  A repeated signal is no
\* reason to decline.
ShouldRefresh(d, t) ==
    Types \subseteq signals[d] \cup {t} /\ d \notin refreshed /\ ~Superseded(d)

BrokenConsecutivePurgeVetoes(t) == Cardinality({d \in Dumps : t \in vetoed[d]})

\* Newest dump first: vetoes are counted up to the first dump that signalled without one.
ConsecutivePurgeVetoes(t) ==
    Cardinality({d \in Dumps :
        /\ t \in vetoed[d]
        /\ \A e \in Dumps : e > d => t \in vetoed[e] \/ t \notin signals[e]})

-----------------------------------------------------------------------------
(* The extractor and the handlers.                                         *)

Init ==
    /\ started = 0
    /\ named \in SUBSET Dumps
    /\ declared \in BOOLEAN
    /\ msg = [d \in Dumps |-> [t \in Types |-> "unsent"]]
    /\ handler = [h \in Handlers |-> Free]
    /\ lock = NoHandler
    /\ created = [d \in Dumps |-> 0]
    /\ signals = [d \in Dumps |-> {}] /\ vetoed = [d \in Dumps |-> {}]
    /\ refreshed = {}
    /\ passes = <<>>
    /\ streak = [t \in Types |-> 0]
    /\ faults = 0

StartDump ==
    LET d == started + 1
    IN  /\ d \in Dumps
        /\ started' = d
        /\ msg' = [msg EXCEPT ![d] = [t \in Types |-> "ready"]]
        /\ UNCHANGED <<known, handler, lock, latchVars, passes, streak, faults>>

Step(h, p) == handler' = [handler EXCEPT ![h].phase = p]

\* nack(requeue=True); on a dead channel it fails and changes nothing.
Nack(h) ==
    LET m == handler[h]
    IN  /\ msg' = IF m.alive THEN [msg EXCEPT ![m.dump][m.type] = "ready"] ELSE msg
        /\ handler' = [handler EXCEPT ![h] = Free]

\* Each type has its own queue, first in, first out.
Deliver(h, d, t) ==
    /\ handler[h].phase = "free"
    /\ msg[d][t] = "ready"
    /\ \A e \in Dumps : e < d => msg[e][t] # "ready"
    /\ msg' = [msg EXCEPT ![d][t] = "out"]
    /\ handler' = [handler EXCEPT ![h] = [phase |-> "vetting", dump |-> d, type |-> t,
                                          clean |-> FALSE, alive |-> TRUE]]
    /\ UNCHANGED <<started, known, lock, latchVars, passes, streak, faults>>

\* The purge is vetoed, and the veto goes to the latch if there is one, or it succeeds, which a
\* veto on the latch forbids, or one of them fails and the marker goes back.
Vet(h) ==
    LET d == handler[h].dump
        t == handler[h].type
    IN  /\ handler[h].phase = "vetting"
        /\ \/ /\ Step(h, "signalling")
              /\ IF Latched(d) THEN /\ created' = WithRow(d)
                                    /\ vetoed' = [vetoed EXCEPT ![d] = @ \cup {t}]
                               ELSE UNCHANGED <<created, vetoed>>
              /\ UNCHANGED <<msg, faults>>
           \/ /\ Latched(d) => t \notin vetoed[d]
              /\ handler' = [handler EXCEPT ![h].phase = "signalling", ![h].clean = TRUE]
              /\ UNCHANGED <<msg, created, vetoed, faults>>
           \/ Fault /\ Nack(h) /\ UNCHANGED <<created, vetoed>>
        /\ UNCHANGED <<started, known, lock, signals, refreshed, passes, streak>>

\* No relation, or a message that names no extraction: nothing is recorded and the marker is
\* acked all the same.
SkipSignal(h) ==
    /\ handler[h].phase = "signalling" /\ ~Latched(handler[h].dump)
    /\ declared => lock = NoHandler
    /\ Step(h, "acking")
    /\ UNCHANGED <<started, known, msg, lock, latchVars, passes, streak, faults>>

\* Under derived_refresh_lock: the signal is committed and, when it is the one that should
\* refresh, the lock is kept for the pass.
Signal(h) ==
    LET d == handler[h].dump
        t == handler[h].type
    IN  /\ handler[h].phase = "signalling" /\ Latched(d)
        /\ lock = NoHandler
        /\ RecordExtractionSignal(d, t)
        /\ IF ShouldRefresh(d, t) THEN Step(h, "passing") /\ lock' = h
                                  ELSE Step(h, "acking") /\ UNCHANGED lock
        /\ UNCHANGED <<started, known, msg, vetoed, refreshed, passes, streak, faults>>

\* The statement fails, before or after its commit.
SignalFails(h) ==
    LET d == handler[h].dump
    IN  /\ handler[h].phase = "signalling" /\ Latched(d)
        /\ lock = NoHandler
        /\ \/ RecordExtractionSignal(d, handler[h].type)
           \/ UNCHANGED <<created, signals>>
        /\ Fault /\ Nack(h)
        /\ UNCHANGED <<started, known, lock, vetoed, refreshed, passes, streak>>

\* refresh_derived_relations: the relations and the stamp commit together.
CommitPass(d) ==
    /\ refreshed' = refreshed \cup {d}
    /\ passes' = Append(passes, d)

Pass(h) ==
    /\ handler[h].phase = "passing"
    /\ CommitPass(handler[h].dump)
    /\ lock' = NoHandler
    /\ Step(h, "acking")
    /\ UNCHANGED <<started, known, msg, created, signals, vetoed, streak, faults>>

BrokenPassFails(h) ==
    /\ handler[h].phase = "passing"
    /\ Fault /\ Nack(h)
    /\ UNCHANGED <<started, known, lock, latchVars, passes, streak>>

\* The pass rolls back, or commits and its reply is lost; either way the marker goes back.
PassFails(h) ==
    /\ handler[h].phase = "passing"
    /\ CommitPass(handler[h].dump) \/ UNCHANGED <<refreshed, passes>>
    /\ lock' = NoHandler
    /\ Fault /\ Nack(h)
    /\ UNCHANGED <<started, known, created, signals, vetoed, streak>>

\* message.ack().  On a dead channel it raises and nothing is reported.
Ack(h) ==
    LET m == handler[h]
    IN  /\ m.phase = "acking"
        /\ IF m.alive
           THEN /\ msg' = [msg EXCEPT ![m.dump][m.type] = IF Latched(m.dump) THEN "acked" ELSE "skipped"]
                /\ Step(h, "reporting")
           ELSE handler' = [handler EXCEPT ![h] = Free] /\ UNCHANGED msg
        /\ UNCHANGED <<started, known, lock, latchVars, passes, streak, faults>>

\* report_purge_vetoes, after the ack: the vetoes are counted and the gauge is set.
Report(h) ==
    /\ handler[h].phase = "reporting" /\ declared
    /\ streak' = [streak EXCEPT ![handler[h].type] = ConsecutivePurgeVetoes(handler[h].type)]
    /\ handler' = [handler EXCEPT ![h] = Free]
    /\ UNCHANGED <<started, known, msg, lock, latchVars, passes, faults>>

\* Without the relation there is nothing to count; a failed count is logged and the gauge keeps
\* what it had.
SkipReport(h) ==
    /\ handler[h].phase = "reporting"
    /\ (~declared /\ UNCHANGED faults) \/ (declared /\ Fault)
    /\ handler' = [handler EXCEPT ![h] = Free]
    /\ UNCHANGED <<started, known, msg, lock, latchVars, passes, streak>>

-----------------------------------------------------------------------------
(* The environment.                                                        *)

MarkersBack ==
    [d \in Dumps |-> [t \in Types |-> IF msg[d][t] = "out" THEN "ready" ELSE msg[d][t]]]

\* The broker takes unacked markers back; their handlers run on.
ConnectionLost ==
    /\ msg' = MarkersBack
    /\ handler' = [h \in Handlers |-> [handler[h] EXCEPT !.alive = FALSE]]
    /\ Fault
    /\ UNCHANGED <<started, known, lock, latchVars, passes, streak>>

\* The process stops, its open transaction rolls back, and it starts again: it probes for the
\* relation, which a failed probe does not find, and reads the vetoes of every type back; a type
\* whose count fails has no gauge yet.
Restart ==
    /\ msg' = MarkersBack
    /\ handler' = [h \in Handlers |-> Free]
    /\ lock' = NoHandler
    /\ declared' \in BOOLEAN
    /\ \E read \in SUBSET Types :
         streak' = [t \in Types |-> IF declared' /\ t \in read THEN ConsecutivePurgeVetoes(t) ELSE 0]
    /\ Fault
    /\ UNCHANGED <<started, named, latchVars, passes>>

HandlerStep(h) == \/ Vet(h) \/ SkipSignal(h) \/ Signal(h) \/ SignalFails(h)
                  \/ Pass(h) \/ PassFails(h) \/ Ack(h) \/ Report(h) \/ SkipReport(h)

Next == \/ StartDump \/ ConnectionLost \/ Restart
        \/ \E h \in Handlers : HandlerStep(h) \/ \E d \in Dumps, t \in Types : Deliver(h, d, t)

Spec == Init /\ [][Next]_vars

-----------------------------------------------------------------------------
(* Properties.                                                             *)

\* Every variable keeps its type, and derived_refresh_lock is held exactly while a pass runs.
TypeOK ==
    /\ started \in Dumps \cup {0} /\ named \subseteq Dumps /\ declared \in BOOLEAN
    /\ msg \in [Dumps -> [Types -> Places]]
    /\ handler \in [Handlers -> HandlerStates]
    /\ created \in [Dumps -> Dumps \cup {0}]
    /\ signals \in [Dumps -> SUBSET Types] /\ vetoed \in [Dumps -> SUBSET Types]
    /\ refreshed \subseteq Dumps
    /\ passes \in Seq(Dumps)
    /\ streak \in [Types -> 0..Cardinality(Dumps)]
    /\ faults \in 0..MaxFaults
    /\ \A h \in Handlers : lock = h <=> handler[h].phase = "passing"

\* An extraction is settled on the latch once all of its markers are acked by processes that had
\* found the relation, under a name that it can be recorded by.
SettledOnLatch(d) == \A t \in Types : msg[d][t] = "acked"

\* The four acks never outrun the pass: an extraction settled on the latch is stamped, or another
\* extraction's row was created later, whatever handlers overlapped, failed, lost their
\* connection or were restarted, with or without the relation, between recording a signal and
\* the pass it owes.
SettledDumpIsRefreshed ==
    \A d \in Dumps : SettledOnLatch(d) /\ d \notin refreshed
        => \E e \in Dumps : created[e] > created[d]

\* Passes follow the order in which extractions first reached the latch, and each extraction has
\* at most one: neither a straggler nor a redelivered marker whose first handler is still in
\* its pass publishes over it.
PassesFollowExtractions ==
    \A i, j \in 1..Len(passes) : i < j => created[passes[i]] < created[passes[j]]

\* What the durable mode finds after a switch is what DurableRefresh starts from: rows without
\* generation, stamped only when every type has signalled, and no signals without a row.
LegacyRowsAreComplete ==
    /\ \A d \in refreshed : Types \subseteq signals[d] /\ created[d] # 0
    /\ \A d \in Dumps : signals[d] # {} => created[d] # 0

\* A clean purge ends the run of vetoes: when its handler sets the gauge, no veto of this dump or
\* of an older one is counted, whatever other handlers and earlier processes recorded, and
\* although the count is a statement of its own after the ack.
CleanPurgeEndsStreak ==
    [][\A h \in Handlers :
        LET m == handler[h]
        IN  Report(h) /\ m.clean /\ Latched(m.dump)
                => m.type \in vetoed[m.dump]
                   \/ streak'[m.type] <= Cardinality({e \in Dumps : e > m.dump /\ m.type \in vetoed[e]})]_vars

=============================================================================
