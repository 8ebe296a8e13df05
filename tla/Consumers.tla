------------------------------ MODULE Consumers ------------------------------
(***************************************************************************)
(* The broker subscriptions of tableinator/tableinator.py, durable refresh *)
(* switched on.                                                            *)
(*                                                                         *)
(* Each data type has one queue and, most of the time, one consumer.  Four *)
(* kinds of asyncio task change the subscriptions, and each may be         *)
(* suspended at an await while the others run: delivery handlers (which    *)
(* pause everything when a durable commit fails), grace timers (which      *)
(* cancel the consumer of a finished file), the periodic checker (which    *)
(* resubscribes) and the durable recovery loop (which reopens the gate).   *)
(*                                                                         *)
(* One action is what a task does between two awaits, except that closing  *)
(* a transport and the tidying after it are one action.  A dump is one     *)
(* record, its file_complete and its extraction_complete per type.         *)
(* Record contents, purges and the durable rows belong to PurgeSafety and  *)
(* DurableRefresh; shutdown is not part of this module.                    *)
(***************************************************************************)
EXTENDS Naturals, FiniteSets

CONSTANTS
    Types,       \* DATA_TYPES
    NoType,      \* stands for None
    MaxRounds,   \* bound on extractions
    MaxPauses,   \* bound on durable pauses: failed commits, and a start without the schema
    MaxFaults    \* bound on broker faults: failed RPCs, dead channels, lost connections

ASSUME TypesAssumption  == Types # {} /\ IsFiniteSet(Types) /\ Types \cap {NoType, "free", "durable"} = {}
ASSUME BoundsAssumption == MaxRounds \in Nat /\ MaxPauses \in Nat /\ MaxFaults \in Nat

VARIABLES
    msg,           \* msg[t][k]: where the dump's message of kind k for type t is
    round,         \* extractions started
    transport,     \* active_connection and its channels
    sub,           \* consumer_tags[t], and what has become of that subscription
    orphan,        \* types with a live subscription that no tag in consumer_tags names
    cut,           \* tasks that have lost the transport they were subscribing on
    completed,     \* completed_files
    signalled,     \* extraction_signalled
    timer,         \* consumer_cancel_tasks[t], with the tag it was armed for
    cancelFailed,  \* consumer_cancellation_failed
    gateClosed,    \* durable_refresh_paused or not durable_refresh_ready
    resetPending,  \* durable_refresh_broker_reset_pending
    resumeTypes,   \* durable_refresh_resume_types
    lock,          \* who holds durable_refresh_pause_lock
    pausing,       \* the consumers that the holder's pause still has to cancel
    task,          \* where the checker and the durable recovery loop stand
    pauses, faults \* bounds

brokerVars == <<msg, round>>
flagVars   == <<completed, signalled>>
gateVars   == <<gateClosed, resetPending, resumeTypes, lock, pausing>>
vars == <<brokerVars, transport, sub, orphan, cut, flagVars, timer, cancelFailed, gateVars, task,
          pauses, faults>>

Kinds == {"record", "file_complete", "extraction_complete"}

\* A message waits on its queue, is in a handler before or after the handler's flags are set,
\* is left unsettled by a handler that gave up, or is acked.
Unacked  == {"running", "marked", "unsettled"}
MsgStates == {"unpublished", "ready", "acked"} \cup Unacked

\* A consumer_tags entry whose subscription works, which the broker cancelled ("missing"), or
\* whose channel is closed.
SubStates == {"none", "live", "missing", "closed"}
Tags      == {t \in Types : sub[t] # "none"}
TapOpen(t) == sub[t] = "live" \/ t \in orphan

\* "bare": the connection could not be closed but all of its channels could; "undeclared": it was
\* opened to look for work, and neither used nor closed.
Transports == {"none", "bare", "undeclared", "open"}

\* "doomed": the timer is inside its cancel RPC and the tag or channel it names is gone.
TimerStates == {"none", "armed", "cancelling", "doomed"}

Tasks == {"checker", "durable"}
\* close, connect, recover: inside _recover_consumers.  parked: inside recover_parked_markers.
\* lost: inside _recover_data_type.  resume: resubscribing in attempt_durable_recovery.
TaskPCs == {"idle", "close", "connect", "recover", "parked", "lost", "resume"}
Subscribing == {"recover", "parked", "lost", "resume"}
\* todo: types still to start; cur: the type whose _start_consumer is in progress; backlog:
\* the types whose queue held messages when it was probed.
TaskRecords == [pc : TaskPCs, todo : SUBSET Types, cur : Types \cup {NoType},
                backlog : SUBSET Types]
IdleTask == [pc |-> "idle", todo |-> {}, cur |-> NoType, backlog |-> {}]

Ready(t) == \E k \in Kinds : msg[t][k] = "ready"
Fault    == faults < MaxFaults /\ faults' = faults + 1
NoFault  == UNCHANGED faults

-----------------------------------------------------------------------------
(* Pieces of actions.  A definition named Broken... is the one after it    *)
(* with one plausible mistake; no specification uses it.                   *)

\* What a closed transport takes with it: subscriptions and the starts in progress, deliveries
\* (the broker takes them back, the client cancels and joins their callbacks) and what a timer's
\* RPC waits for (the timer of own is the one that closes the transport, past its RPC).
DropConsumers(own) ==
    /\ sub' = [t \in Types |-> "none"]
    /\ orphan' = {}
    /\ cut' = {p \in Tasks : task[p].pc \in Subscribing}
    /\ msg' = [t \in Types |-> [k \in Kinds |->
                  IF msg[t][k] \in Unacked THEN "ready" ELSE msg[t][k]]]
    /\ timer' = [t \in Types |->
                  CASE timer[t] = "armed" -> "none"
                    [] timer[t] = "cancelling" -> IF t = own THEN "none" ELSE "doomed"
                    [] OTHER -> timer[t]]

BrokenDropPause == UNCHANGED <<lock, pausing>>

\* The handler that holds the pause lock is one of the cancelled callbacks.
DropPause ==
    /\ lock' = IF lock \in Types THEN "free" ELSE lock
    /\ pausing' = {}

BrokenCloseRefused ==
    /\ transport # "none"
    /\ Fault
    /\ transport' = "none"
    /\ cancelFailed' = TRUE
    /\ sub' = [t \in Types |-> "none"]
    /\ orphan' = {t \in Types : TapOpen(t)}
    /\ UNCHANGED <<cut, msg, timer, lock, pausing>>

\* A transport whose closure is not confirmed keeps its tags, and keeps being retried.
CloseRefused ==
    /\ transport # "none"
    /\ Fault
    /\ cancelFailed' = TRUE
    /\ UNCHANGED <<msg, transport, sub, orphan, cut, timer, lock, pausing>>

Closed(own) ==
    /\ transport' = "none"
    /\ cancelFailed' = (cancelFailed /\ transport = "none")
    /\ DropConsumers(own) /\ DropPause

CloseConfirmed == Closed(NoType) /\ NoFault

\* _reset_durable_broker, whose outcome also decides durable_refresh_broker_reset_pending.
ResetConfirmed ==
    /\ \/ transport' = "none" /\ NoFault
       \/ transport # "none" /\ transport' = "bare" /\ Fault
    /\ DropConsumers(NoType)
    /\ cancelFailed' = FALSE
    /\ resetPending' = FALSE

ResetRefused ==
    /\ transport # "none"
    /\ Fault
    /\ resetPending' = resetPending
    /\ UNCHANGED <<msg, transport, sub, orphan, cut, timer, cancelFailed>>

\* schedule_consumer_cancellation replaces the type's timer.  The old one, if it had already
\* sent its cancel, reports that the outcome is unknown.  Without a tag the timer does nothing.
ScheduleCancellation(t) ==
    /\ timer' = [timer EXCEPT ![t] = IF t \in Tags THEN "armed" ELSE "none"]
    /\ cancelFailed' = (cancelFailed \/ timer[t] \in {"cancelling", "doomed"})

Step(p, r) == task' = [task EXCEPT ![p] = r]

-----------------------------------------------------------------------------
(* The extractor, the broker and the delivery handlers.                    *)

\* extraction_complete is published only after every file of the dump.
Publish(t, k) ==
    /\ msg[t][k] = "unpublished"
    /\ k = "file_complete" => msg[t]["record"] # "unpublished"
    /\ k = "extraction_complete" => \A u \in Types : msg[u]["file_complete"] # "unpublished"
    /\ msg' = [msg EXCEPT ![t][k] = "ready"]
    /\ UNCHANGED <<round, transport, sub, orphan, cut, flagVars, timer, cancelFailed, gateVars,
                   task, pauses, faults>>

\* The next extraction.
NextRound ==
    /\ round < MaxRounds
    /\ \A t \in Types, k \in Kinds : msg[t][k] = "acked"
    /\ round' = round + 1
    /\ msg' = [t \in Types |-> [k \in Kinds |-> "unpublished"]]
    /\ UNCHANGED <<transport, sub, orphan, cut, flagVars, timer, cancelFailed, gateVars, task,
                   pauses, faults>>

Earlier(k) == CASE k = "record" -> {}
                [] k = "file_complete" -> {"record"}
                [] k = "extraction_complete" -> {"record", "file_complete"}

\* A delivery starts its handler; a record re-arms the type and stops the old grace timer.
Deliver(t, k) ==
    /\ TapOpen(t)
    /\ msg[t][k] = "ready"
    /\ \A j \in Earlier(k) : msg[t][j] # "ready"
    /\ msg' = [msg EXCEPT ![t][k] = "running"]
    /\ IF k = "record"
       THEN /\ completed' = completed \ {t}
            /\ signalled' = signalled \ {t}
            /\ timer' = [timer EXCEPT ![t] = "none"]
            /\ cancelFailed' = (cancelFailed \/ timer[t] \in {"cancelling", "doomed"})
       ELSE UNCHANGED <<flagVars, timer, cancelFailed>>
    /\ UNCHANGED <<round, transport, sub, orphan, cut, gateVars, task, pauses, faults>>

\* The drain behind a file_complete or an extraction_complete waits for the records.
MarkFileComplete(t) ==
    /\ msg[t]["file_complete"] = "running" /\ msg[t]["record"] \notin Unacked
    /\ msg' = [msg EXCEPT ![t]["file_complete"] = "marked"]
    /\ completed' = completed \cup {t}
    /\ ScheduleCancellation(t)
    /\ UNCHANGED <<round, transport, sub, orphan, cut, signalled, gateVars, task, pauses, faults>>

\* Purge and durable commit have succeeded; the ack is a later await.
MarkExtractionComplete(t) ==
    /\ msg[t]["extraction_complete"] = "running" /\ msg[t]["record"] \notin Unacked
    /\ lock # t
    /\ msg' = [msg EXCEPT ![t]["extraction_complete"] = "marked"]
    /\ completed' = completed \cup {t}
    /\ signalled' = signalled \cup {t}
    /\ ScheduleCancellation(t)
    /\ UNCHANGED <<round, transport, sub, orphan, cut, gateVars, task, pauses, faults>>

\* A record is acked by the batch that wrote it, a marker at the end of its handler.
Ack(t, k) ==
    /\ msg[t][k] = IF k = "record" THEN "running" ELSE "marked"
    /\ msg' = [msg EXCEPT ![t][k] = "acked"]
    /\ UNCHANGED <<round, transport, sub, orphan, cut, flagVars, timer, cancelFailed, gateVars,
                   task, pauses, faults>>

\* The drain gives up: the marker goes back to its queue.
FlushIncomplete(t, k) ==
    /\ k # "record"
    /\ msg[t][k] = "running" /\ lock # t
    /\ Fault
    /\ msg' = [msg EXCEPT ![t][k] = "ready"]
    /\ UNCHANGED <<round, transport, sub, orphan, cut, flagVars, timer, cancelFailed, gateVars,
                   task, pauses>>

\* The broker cancels a consumer, a channel closes, or the connection drops and aio-pika
\* restores it with the same tags: deliveries on it go back to the queue.
ConsumerLost(t, how) ==
    /\ sub[t] = "live"
    /\ Fault
    /\ sub' = [sub EXCEPT ![t] = how]
    /\ msg' = [msg EXCEPT ![t] = [k \in Kinds |->
                  IF how = "closed" /\ @[k] \in Unacked THEN "ready" ELSE @[k]]]
    /\ lock' = IF how = "closed" /\ lock = t THEN "free" ELSE lock
    /\ pausing' = IF how = "closed" /\ lock = t THEN {} ELSE pausing
    /\ UNCHANGED <<round, transport, orphan, cut, flagVars, timer, cancelFailed, gateClosed,
                   resetPending, resumeTypes, task, pauses>>

ConnectionBlip ==
    /\ transport # "none"
    /\ Fault
    /\ msg' = [t \in Types |-> [k \in Kinds |->
                  IF msg[t][k] \in Unacked THEN "ready" ELSE msg[t][k]]]
    /\ timer' = [t \in Types |-> IF timer[t] = "cancelling" THEN "doomed" ELSE timer[t]]
    /\ DropPause
    /\ UNCHANGED <<round, transport, sub, orphan, cut, flagVars, cancelFailed, gateClosed,
                   resetPending, resumeTypes, task, pauses>>

\* aio-pika subscribes a cancelled tag again by itself.
Heal(t) ==
    /\ sub[t] = "missing"
    /\ sub' = [sub EXCEPT ![t] = "live"]
    /\ UNCHANGED <<brokerVars, transport, orphan, cut, flagVars, timer, cancelFailed, gateVars,
                   task, pauses, faults>>

-----------------------------------------------------------------------------
(* schedule_consumer_cancellation's timer.                                 *)

\* The grace period, counted from the last marker, is minutes long: by its end what was ready
\* for an open subscription has been delivered and what only awaited its ack is acked.  (A
\* message published at that very moment is one published right after the cancel.)
GracePeriodOver(t) ==
    /\ \A k \in Kinds : msg[t][k] # "marked"
    /\ ~(TapOpen(t) /\ Ready(t))

TimerFires(t) ==
    /\ timer[t] = "armed" /\ t \in Tags
    /\ GracePeriodOver(t)
    /\ timer' = [timer EXCEPT ![t] = "cancelling"]
    /\ UNCHANGED <<brokerVars, transport, sub, orphan, cut, flagVars, cancelFailed, gateVars,
                   task, pauses, faults>>

AllIdle(tags) == tags = {} /\ completed = Types

\* cancel-ok; the last consumer of a finished extraction also closes the transport.
TimerCancelled(t) ==
    /\ timer[t] = "cancelling" /\ sub[t] \in {"live", "missing"}
    /\ IF AllIdle(Tags \ {t})
       THEN \/ Closed(t) /\ NoFault
            \/ /\ sub' = [sub EXCEPT ![t] = "none"]
               /\ timer' = [timer EXCEPT ![t] = "none"]
               /\ cancelFailed' = TRUE
               /\ Fault
               /\ UNCHANGED <<msg, transport, orphan, cut, lock, pausing>>
       ELSE /\ sub' = [sub EXCEPT ![t] = "none"]
            /\ timer' = [timer EXCEPT ![t] = "none"]
            /\ NoFault
            /\ UNCHANGED <<msg, transport, orphan, cut, cancelFailed, lock, pausing>>
    /\ UNCHANGED <<round, flagVars, gateClosed, resetPending, resumeTypes, task, pauses>>

BrokenTimerUnconfirmed(t) ==
    /\ timer[t] = "cancelling" /\ Fault
    /\ timer' = [timer EXCEPT ![t] = "none"]
    /\ sub' = [sub EXCEPT ![t] = "none"]
    /\ orphan' = IF sub[t] = "live" THEN orphan \cup {t} ELSE orphan
    /\ UNCHANGED <<brokerVars, transport, cut, flagVars, cancelFailed, gateVars, task, pauses>>

\* No cancel-ok: a timeout, or a channel that closed under the RPC.  The tag stays.
TimerUnconfirmed(t) ==
    /\ \/ timer[t] = "cancelling" /\ sub[t] # "closed" /\ Fault
       \/ (timer[t] = "doomed" \/ (timer[t] = "cancelling" /\ sub[t] = "closed")) /\ NoFault
    /\ timer' = [timer EXCEPT ![t] = "none"]
    /\ cancelFailed' = TRUE
    /\ UNCHANGED <<brokerVars, transport, sub, orphan, cut, flagVars, gateVars, task, pauses>>

-----------------------------------------------------------------------------
(* pause_durable_consumers, inside an extraction_complete handler.         *)

\* The durable commit of t's signal failed.
PauseBegins(t) ==
    /\ msg[t]["extraction_complete"] = "running" /\ msg[t]["record"] \notin Unacked
    /\ lock = "free"
    /\ pauses < MaxPauses /\ pauses' = pauses + 1
    /\ lock' = t
    /\ gateClosed' = TRUE
    /\ resumeTypes' = resumeTypes \cup Tags
    /\ pausing' = Tags
    /\ UNCHANGED <<brokerVars, transport, sub, orphan, cut, flagVars, timer, cancelFailed,
                   resetPending, task, faults>>

\* cancel-ok for one of the tags the pause found.
PauseCancels(t, u) ==
    /\ lock = t /\ u \in pausing /\ sub[u] # "closed"
    /\ pausing' = pausing \ {u}
    /\ sub' = [sub EXCEPT ![u] = "none"]
    /\ timer' = [timer EXCEPT ![u] =
                    CASE @ = "armed" -> "none" [] @ = "cancelling" -> "doomed" [] OTHER -> @]
    /\ UNCHANGED <<brokerVars, transport, orphan, cut, flagVars, cancelFailed, gateClosed,
                   resetPending, resumeTypes, lock, task, pauses, faults>>

BrokenPauseCancelFails(t) ==
    /\ lock = t /\ pausing # {}
    /\ Fault
    /\ pausing' = {}
    /\ lock' = "free"
    /\ msg' = [msg EXCEPT ![t]["extraction_complete"] = "unsettled"]
    /\ UNCHANGED <<round, transport, sub, orphan, cut, timer, cancelFailed, flagVars, gateClosed,
                   resetPending, resumeTypes, task, pauses>>

\* An uncertain cancel: reset the transport; if that is refused as well the message stays
\* unsettled and the recovery loop keeps resetting.
PauseCancelFails(t) ==
    /\ lock = t /\ pausing # {}
    /\ pausing' = {} /\ lock' = "free"
    /\ Fault \/ (NoFault /\ \E u \in pausing : sub[u] = "closed")
    /\ \/ /\ transport' \in {"none", "bare"}
          /\ DropConsumers(NoType)
          /\ cancelFailed' = FALSE /\ resetPending' = FALSE
       \/ /\ resetPending' = TRUE
          /\ msg' = [msg EXCEPT ![t]["extraction_complete"] = "unsettled"]
          /\ UNCHANGED <<transport, sub, orphan, cut, timer, cancelFailed>>
    /\ UNCHANGED <<round, flagVars, gateClosed, resumeTypes, task, pauses>>

\* Every tap the pause found is closed: requeue the failed terminal.
PauseNacks(t) ==
    /\ lock = t /\ pausing = {}
    /\ lock' = "free"
    /\ msg' = [msg EXCEPT ![t]["extraction_complete"] = "ready"]
    /\ UNCHANGED <<round, transport, sub, orphan, cut, flagVars, timer, cancelFailed, gateClosed,
                   resetPending, resumeTypes, pausing, task, pauses, faults>>

-----------------------------------------------------------------------------
(* _recover_consumers, run by the checker or by the durable recovery loop. *)

Finish(p) ==
    Step(p, IF p = "checker" THEN IdleTask ELSE [IdleTask EXCEPT !.pc = "resume"])

\* The gate, then the old transport: no replacement while its closure is unconfirmed.
RecoverClose(p) ==
    /\ task[p].pc = "close"
    /\ IF gateClosed
       THEN /\ Finish(p)
            /\ UNCHANGED <<msg, transport, sub, orphan, cut, timer, cancelFailed, lock, pausing,
                           faults>>
       ELSE \/ CloseConfirmed /\ Step(p, [task[p] EXCEPT !.pc = "connect"])
            \/ CloseRefused /\ Finish(p)
    /\ UNCHANGED <<round, flagVars, gateClosed, resetPending, resumeTypes, pauses>>

\* Connect and probe every queue; subscribe if there is work or a file is incomplete.
Backlog == {t \in Types : Ready(t)}
RecoverConnect(p) ==
    /\ task[p].pc = "connect"
    /\ \/ /\ Backlog # {} \/ completed # Types
          /\ transport' = "open"
          /\ Step(p, [IdleTask EXCEPT !.pc = "recover", !.todo = Types, !.backlog = Backlog])
          /\ cut' = cut \ {p}
          /\ NoFault
          /\ UNCHANGED <<msg, sub, orphan, timer, cancelFailed, lock, pausing>>
       \/ /\ Backlog = {} /\ completed = Types
          /\ CloseConfirmed
          /\ Finish(p)
       \/ /\ transport = "none"      \* the connection or its channel cannot be opened
          /\ Fault
          /\ Finish(p)
          /\ UNCHANGED <<msg, transport, sub, orphan, cut, timer, cancelFailed, lock, pausing>>
       \/ /\ Backlog = {} /\ completed = Types
          /\ transport' = IF transport = "none" THEN "undeclared" ELSE transport
          /\ cancelFailed' = TRUE
          /\ Fault
          /\ Finish(p)
          /\ UNCHANGED <<msg, sub, orphan, cut, timer, lock, pausing>>
    /\ UNCHANGED <<round, flagVars, gateClosed, resetPending, resumeTypes, pauses>>

\* The loops skip a type that has a consumer or no declared queue, and await _start_consumer
\* for the others.
StartBegins(p, t) ==
    /\ task[p].pc \in {"recover", "resume"} /\ task[p].cur = NoType /\ t \in task[p].todo
    /\ Step(p, IF t \in Tags \/ transport = "undeclared"
               THEN [task[p] EXCEPT !.todo = @ \ {t}]
               ELSE [task[p] EXCEPT !.cur = t])
    /\ UNCHANGED <<brokerVars, transport, sub, orphan, cut, flagVars, timer, cancelFailed, gateVars,
                   pauses, faults>>

BrokenStartDone(p, t) ==
    /\ task[p].pc # "lost" /\ task[p].cur = t /\ transport # "none" /\ p \notin cut
    /\ sub' = [sub EXCEPT ![t] = "live"]
    /\ orphan' = IF sub[t] = "live" THEN orphan \cup {t} ELSE orphan
    /\ timer' = [timer EXCEPT ![t] = IF @ = "armed" THEN "none" ELSE @]
    /\ Step(p, IF task[p].pc = "parked" THEN IdleTask
               ELSE [task[p] EXCEPT !.cur = NoType, !.todo = {}])
    /\ UNCHANGED <<brokerVars, transport, cut, flagVars, cancelFailed, gateVars, pauses, faults>>

\* Between its first and its last _start_consumer a task is always inside one, which raises when
\* its transport is closed: nothing more is subscribed then.
StartLost(p) == transport = "none" \/ p \in cut

\* consumer_tags[t] = await _start_consumer(t), without another look at consumer_tags.
StartDone(p, t) ==
    /\ task[p].cur = t /\ ~StartLost(p)
    /\ sub' = [sub EXCEPT ![t] = "live"]
    /\ orphan' = IF sub[t] = "live" THEN orphan \cup {t} ELSE orphan
    /\ timer' = [timer EXCEPT ![t] = IF @ = "armed" THEN "none" ELSE @]
    /\ completed' = IF task[p].pc = "recover" /\ t \in task[p].backlog
                    THEN completed \ {t} ELSE completed
    /\ Step(p, IF task[p].pc \in {"parked", "lost"} THEN IdleTask
               ELSE [task[p] EXCEPT !.cur = NoType, !.todo = @ \ {t}])
    /\ UNCHANGED <<brokerVars, transport, cut, signalled, cancelFailed, gateVars, pauses, faults>>

\* _start_consumer raises.  The parked probe moves on, the lost type falls back to a full
\* recovery, and a full recovery closes what it opened.
StartFails(p, t) ==
    /\ task[p].cur = t /\ task[p].pc \in {"parked", "lost", "recover"}
    /\ \/ /\ task[p].pc # "recover"
          /\ Fault \/ (StartLost(p) /\ NoFault)
          /\ Step(p, IF task[p].pc = "parked" THEN IdleTask ELSE [IdleTask EXCEPT !.pc = "close"])
          /\ UNCHANGED <<msg, transport, sub, orphan, cut, timer, cancelFailed, lock, pausing>>
       \/ /\ task[p].pc = "recover"
          /\ \/ Closed(NoType) /\ (Fault \/ (StartLost(p) /\ NoFault))
             \/ CloseRefused
          /\ Finish(p)
    /\ UNCHANGED <<round, flagVars, gateClosed, resetPending, resumeTypes, pauses>>

RecoverEnds(p) ==
    /\ task[p].pc = "recover" /\ task[p].cur = NoType /\ task[p].todo = {}
    /\ Finish(p)
    /\ UNCHANGED <<brokerVars, transport, sub, orphan, cut, flagVars, timer, cancelFailed,
                   gateVars, pauses, faults>>

-----------------------------------------------------------------------------
(* periodic_queue_checker.                                                 *)

Tick == task["checker"] = IdleTask /\ ~gateClosed

\* consumer_cancellation_failed: the uncertain transport is closed, then rebuilt.
CheckerResets ==
    /\ Tick /\ cancelFailed
    /\ \/ ResetConfirmed /\ Step("checker", [IdleTask EXCEPT !.pc = "close"])
       \/ ResetRefused /\ UNCHANGED task
    /\ UNCHANGED <<round, flagVars, gateClosed, resumeTypes, lock, pausing, pauses>>

TypesAwaitingMarker == {t \in completed : t \notin Tags /\ t \notin signalled}

\* recover_parked_markers: the gate and the queue depth are read before the awaits of
\* _start_consumer.
RecoverParkedMarkers(t) ==
    /\ Tick /\ ~cancelFailed
    /\ t \in TypesAwaitingMarker
    /\ \/ transport = "none" /\ Step("checker", [IdleTask EXCEPT !.pc = "close"])
       \/ /\ transport # "none" /\ Ready(t)
          /\ Step("checker", [IdleTask EXCEPT !.pc = "parked", !.cur = t])
    /\ cut' = cut \ {"checker"}
    /\ UNCHANGED <<brokerVars, transport, sub, orphan, flagVars, timer, cancelFailed, gateVars,
                   pauses, faults>>

\* A closed channel is seen at once; a tag that stays missing only if its file is not done.
LostTypes == {t \in Types : sub[t] = "closed" \/ (sub[t] = "missing" /\ t \notin completed)}

\* _recover_data_type up to _start_consumer: close the old channel, forget its tag.
RecoverDataType(t) ==
    /\ Tick /\ ~cancelFailed
    /\ t \in LostTypes
    /\ cut' = cut \ {"checker"}
    /\ \/ /\ sub' = [sub EXCEPT ![t] = "none"]
          /\ msg' = [msg EXCEPT ![t] = [k \in Kinds |-> IF @[k] \in Unacked THEN "ready" ELSE @[k]]]
          /\ timer' = [timer EXCEPT ![t] =
                          CASE @ = "armed" -> "none" [] @ = "cancelling" -> "doomed" [] OTHER -> @]
          /\ orphan' = orphan \ {t}
          /\ Step("checker", [IdleTask EXCEPT !.pc = "lost", !.cur = t])
          /\ NoFault
       \/ /\ sub[t] = "missing" /\ Fault
          /\ Step("checker", [IdleTask EXCEPT !.pc = "close"])
          /\ UNCHANGED <<sub, msg, timer, orphan>>
    /\ UNCHANGED <<round, transport, flagVars, cancelFailed, gateVars, pauses>>

BrokenStuckOrIdle == Tags = {} /\ transport = "none" /\ completed = Types

\* check_consumers_unexpectedly_dead, or the hourly look of a disconnected loader.
StuckOrIdle == Tags = {} /\ (completed # Types \/ transport = "none")

CheckerRecovers ==
    /\ Tick /\ ~cancelFailed
    /\ StuckOrIdle
    /\ Step("checker", [IdleTask EXCEPT !.pc = "close"])
    /\ UNCHANGED <<brokerVars, transport, sub, orphan, cut, flagVars, timer, cancelFailed,
                   gateVars, pauses, faults>>

-----------------------------------------------------------------------------
(* durable_recovery_loop and attempt_durable_recovery.                     *)

DurableIdle == task["durable"] = IdleTask /\ gateClosed /\ lock = "free"

DurableResets ==
    /\ DurableIdle /\ resetPending
    /\ ResetConfirmed \/ ResetRefused
    /\ UNCHANGED <<round, flagVars, gateClosed, resumeTypes, lock, pausing, task, pauses>>

\* Schema and failed signals are committed: open the gate, then subscribe, holding the lock.
DurableOpens ==
    /\ DurableIdle /\ ~resetPending
    /\ gateClosed' = FALSE
    /\ lock' = "durable"
    /\ Step("durable", IF transport \in {"open", "undeclared"}
                       THEN [IdleTask EXCEPT !.pc = "resume", !.todo = resumeTypes]
                       ELSE [IdleTask EXCEPT !.pc = "close"])
    /\ cut' = cut \ {"durable"}
    /\ UNCHANGED <<brokerVars, transport, sub, orphan, flagVars, timer, cancelFailed,
                   resetPending, resumeTypes, pausing, pauses, faults>>

ResumeSucceeds ==
    /\ task["durable"].pc = "resume" /\ task["durable"].cur = NoType /\ task["durable"].todo = {}
    /\ resumeTypes \subseteq Tags
    /\ resumeTypes' = {}
    /\ lock' = "free"
    /\ Step("durable", IdleTask)
    /\ UNCHANGED <<brokerVars, transport, sub, orphan, cut, flagVars, timer, cancelFailed,
                   gateClosed, resetPending, pausing, pauses, faults>>

BrokenResumeFails ==
    /\ task["durable"].pc = "resume" /\ task["durable"].todo = {} /\ ~(resumeTypes \subseteq Tags)
    /\ lock' = "free"
    /\ Step("durable", IdleTask)
    /\ sub' = [t \in Types |-> "none"]
    /\ UNCHANGED <<brokerVars, transport, orphan, cut, flagVars, timer, cancelFailed, gateClosed,
                   resetPending, resumeTypes, pausing, pauses, faults>>

\* A type did not come back, or _start_consumer raised: close the gate again and cancel the
\* partial resubscription, resetting the transport if a cancel is uncertain.
ResumeFails ==
    /\ task["durable"].pc = "resume"
    /\ \/ task["durable"].todo = {} /\ ~(resumeTypes \subseteq Tags)
       \/ task["durable"].cur # NoType /\ (StartLost("durable") \/ faults < MaxFaults)
    /\ gateClosed' = TRUE
    /\ lock' = "free"
    /\ Step("durable", IdleTask)
    /\ \/ /\ \A t \in Tags : sub[t] # "closed"
          /\ sub' = [t \in Types |-> "none"]
          /\ timer' = [t \in Types |->
                CASE timer[t] = "armed" -> "none" [] timer[t] = "cancelling" -> "doomed"
                  [] OTHER -> timer[t]]
          /\ IF task["durable"].cur = NoType \/ StartLost("durable") THEN NoFault ELSE Fault
          /\ UNCHANGED <<msg, transport, orphan, cut, cancelFailed, resetPending>>
       \/ /\ \E t \in Tags : sub[t] = "closed" \/ faults < MaxFaults
          /\ ResetConfirmed
       \/ /\ \E t \in Tags : sub[t] = "closed" \/ faults < MaxFaults
          /\ Fault
          /\ resetPending' = TRUE
          /\ UNCHANGED <<msg, transport, sub, orphan, cut, timer, cancelFailed>>
    /\ UNCHANGED <<round, flagVars, resumeTypes, pausing, pauses>>

-----------------------------------------------------------------------------

\* Without the durable schema main closes the gate before it subscribes anything, and every
\* type is one that the recovery loop has to resume.
StartsPaused ==
    /\ gateClosed \in BOOLEAN
    /\ pauses = IF gateClosed THEN 1 ELSE 0
    /\ pauses <= MaxPauses
    /\ resumeTypes = IF gateClosed THEN Types ELSE {}

\* Otherwise main subscribes every type.
Init ==
    /\ msg = [t \in Types |-> [k \in Kinds |-> "unpublished"]]
    /\ round = 1
    /\ transport = "open"
    /\ StartsPaused
    /\ sub = [t \in Types |-> IF gateClosed THEN "none" ELSE "live"]
    /\ orphan = {} /\ cut = {}
    /\ completed = {} /\ signalled = {}
    /\ timer = [t \in Types |-> "none"]
    /\ cancelFailed = FALSE /\ resetPending = FALSE
    /\ lock = "free" /\ pausing = {}
    /\ task = [p \in Tasks |-> IdleTask]
    /\ faults = 0

Marks(t) == MarkFileComplete(t) \/ MarkExtractionComplete(t)

Handler(t) == Marks(t) \/ \E k \in Kinds : Deliver(t, k) \/ Ack(t, k)

Pause(t) == (\E u \in Types : PauseCancels(t, u)) \/ PauseCancelFails(t) \/ PauseNacks(t)

TimerTask(t) == TimerFires(t) \/ TimerCancelled(t) \/ TimerUnconfirmed(t)

Starting(p) ==
    \/ RecoverClose(p) \/ RecoverConnect(p) \/ RecoverEnds(p)
    \/ \E t \in Types : StartBegins(p, t) \/ StartDone(p, t) \/ StartFails(p, t)

Checker ==
    \/ CheckerResets \/ CheckerRecovers
    \/ \E t \in Types : RecoverParkedMarkers(t) \/ RecoverDataType(t)

Durable == DurableResets \/ DurableOpens \/ ResumeSucceeds \/ ResumeFails

Broker ==
    \/ NextRound \/ ConnectionBlip
    \/ \E t \in Types : ConsumerLost(t, "missing") \/ ConsumerLost(t, "closed")
    \/ \E t \in Types, k \in Kinds : Publish(t, k) \/ FlushIncomplete(t, k)

Loader ==
    \/ Checker \/ Durable
    \/ \E t \in Types : Handler(t) \/ Pause(t) \/ TimerTask(t) \/ Heal(t)
    \/ \E p \in Tasks : Starting(p)

Next == Broker \/ Loader \/ \E t \in Types : PauseBegins(t)

Spec == Init /\ [][Next]_vars

\* The broker delivers to a subscription that keeps being open, handlers and RPCs finish, every
\* tick of the checker makes each of its checks and the recovery loop keeps trying.  Strong
\* fairness stands for the time scales: a delivery, an ack or a commit takes far less than the
\* seconds between two ticks or the minutes of a grace period, so that other tasks cannot
\* interrupt it for ever.  The extractor, the broker's faults and failing commits are under no
\* obligation.
Fairness ==
    /\ \A t \in Types :
        /\ SF_vars(\E k \in Kinds : Deliver(t, k))
        /\ SF_vars(Marks(t)) /\ SF_vars(\E k \in Kinds : Ack(t, k))
        /\ WF_vars(Pause(t)) /\ WF_vars(TimerTask(t)) /\ WF_vars(Heal(t))
        /\ SF_vars(RecoverParkedMarkers(t) \/ RecoverDataType(t))
    /\ \A p \in Tasks : WF_vars(Starting(p))
    /\ SF_vars(CheckerResets \/ CheckerRecovers)
    /\ SF_vars(DurableResets \/ DurableOpens) /\ WF_vars(ResumeSucceeds \/ ResumeFails)

FairSpec == Spec /\ Fairness

-----------------------------------------------------------------------------
(* Properties.                                                             *)

\* Every variable keeps its type, and the pause lock is never left with a handler that is gone.
TypeOK ==
    /\ msg \in [Types -> [Kinds -> MsgStates]]
    /\ round \in 1..(MaxRounds + 1)
    /\ transport \in Transports
    /\ sub \in [Types -> SubStates]
    /\ orphan \subseteq Types /\ cut \subseteq Tasks
    /\ completed \subseteq Types /\ signalled \subseteq Types
    /\ timer \in [Types -> TimerStates]
    /\ {cancelFailed, gateClosed, resetPending} \subseteq BOOLEAN
    /\ resumeTypes \subseteq Types
    /\ lock \in Types \cup {"free", "durable"}
    /\ lock \in Types => msg[lock]["extraction_complete"] = "running"
    /\ pausing \subseteq Types
    /\ task \in [Tasks -> TaskRecords]
    /\ pauses \in 0..MaxPauses /\ faults \in 0..MaxFaults

\* The code forgets a transport only once its closure is confirmed: a subscription that may
\* still deliver is always on the transport the process can still close.
LiveConsumersHaveATransport ==
    \A t \in Types : TapOpen(t) => transport # "none"

\* consumer_tags names every live subscription, whatever cancels time out and whichever tasks
\* cancel, lose and restart consumers: a tag stays until cancel-ok or closure is confirmed, and
\* is not written over.  It holds as long as no durable pause lets the recovery loop subscribe.
EveryConsumerIsTracked == orphan = {}

\* A failed terminal whose handler gave up without settling it is never forgotten: a reset of
\* the transport, which makes the broker requeue it, is still owed.
UnsettledTerminalHasReset ==
    \A t \in Types : msg[t]["extraction_complete"] = "unsettled" => resetPending

\* The gate is open only when every consumer that a pause took down has been restarted, or
\* while attempt_durable_recovery is restarting them.
OpenGateOwesNoConsumer == ~gateClosed /\ lock # "durable" => resumeTypes = {}

\* Who will see to a queued message of t: its consumer; a full recovery that has not come to t
\* yet; or the checker, whose next tick finds t among the parked markers or finds the loader
\* stuck or disconnected.  Other types' timers do not count.
Attended(t) ==
    \/ TapOpen(t)
    \/ task["checker"].pc \in {"close", "connect"} \/ t \in task["checker"].todo
    \/ t \in TypesAwaitingMarker
    \/ StuckOrIdle

\* No type is left behind in the first extraction: before a durable pause or a broker fault, a
\* type with something queued has a consumer or a task that will give it one, without waiting for
\* another type to finish (the starvation that _recover_consumers starts all types for).
NoStrandedWork ==
    round = 1 /\ pauses = 0 /\ faults = 0 => \A t \in Types : Ready(t) => Attended(t)

\* No starvation: whatever is queued is delivered in the end, with finitely many faults, unless a
\* durable pause comes in between.  (After one the checker and the recovery loop may keep closing
\* each other's transport.)
QueuedWorkIsDelivered ==
    \A t \in Types, k \in Kinds :
        msg[t][k] = "ready" /\ pauses = 0 ~> msg[t][k] # "ready" \/ pauses > 0

=============================================================================
