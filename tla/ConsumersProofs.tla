-------------------------- MODULE ConsumersProofs --------------------------
(***************************************************************************)
(* Proofs about Consumers for any number of data types, extractions,       *)
(* failed commits and broker faults.                                       *)
(*                                                                         *)
(* ConsumersInv is inductive as it stands; one lemma per task shows that   *)
(* its steps keep it.  BeforeAnyPause is inductive next to it: in a loader *)
(* that found its schema, and until a commit fails, the recovery loop      *)
(* rests, so that no two tasks await _start_consumer for one type.         *)
(***************************************************************************)
EXTENDS ConsumersInv, TLAPS

USE TypesAssumption, BoundsAssumption

-----------------------------------------------------------------------------
(* Pieces of steps                                                         *)

\* The records that tasks move between.
LEMMA TaskTypes ==
    /\ IdleTask \in TaskRecords
    /\ \A p \in TaskPCs : [IdleTask EXCEPT !.pc = p] \in TaskRecords
    /\ \A p \in TaskPCs, t \in Types : [IdleTask EXCEPT !.pc = p, !.cur = t] \in TaskRecords
    /\ \A p \in TaskPCs, s \in SUBSET Types, b \in SUBSET Types :
          [IdleTask EXCEPT !.pc = p, !.todo = s, !.backlog = b] \in TaskRecords
    /\ \A p \in TaskPCs, s \in SUBSET Types : [IdleTask EXCEPT !.pc = p, !.todo = s] \in TaskRecords
    /\ \A r \in TaskRecords : /\ \A p \in TaskPCs : [r EXCEPT !.pc = p] \in TaskRecords
                              /\ \A t \in Types : /\ [r EXCEPT !.cur = t] \in TaskRecords
                                                  /\ [r EXCEPT !.todo = @ \ {t}] \in TaskRecords
                                                  /\ [r EXCEPT !.cur = NoType, !.todo = @ \ {t}] \in TaskRecords
  BY DEF IdleTask, TaskRecords, TaskPCs

\* A step of one task that moves it to another record.
LEMMA StepTypes ==
    ASSUME task \in [Tasks -> TaskRecords], NEW p \in Tasks, NEW r \in TaskRecords, Step(p, r)
    PROVE  task' \in [Tasks -> TaskRecords]
  BY DEF Step

\* The end of _recover_consumers.
LEMMA FinishTypes ==
    ASSUME task \in [Tasks -> TaskRecords], NEW p \in Tasks, Finish(p)
    PROVE  task' \in [Tasks -> TaskRecords]
  BY TaskTypes, StepTypes DEF Finish, TaskPCs

\* The Boolean flags of TypeOK, kept apart from the rest.
Flags == {cancelFailed, gateClosed, resetPending} \subseteq BOOLEAN

Rest ==
    /\ msg \in [Types -> [Kinds -> MsgStates]]
    /\ round \in 1..(MaxRounds + 1)
    /\ transport \in Transports
    /\ sub \in [Types -> SubStates]
    /\ orphan \subseteq Types /\ cut \subseteq Tasks
    /\ completed \subseteq Types /\ signalled \subseteq Types
    /\ timer \in [Types -> TimerStates]
    /\ resumeTypes \subseteq Types
    /\ lock \in Types \cup {"free", "durable"}
    /\ lock \in Types => msg[lock]["extraction_complete"] = "running"
    /\ pausing \subseteq Types
    /\ task \in [Tasks -> TaskRecords]
    /\ pauses \in 0..MaxPauses /\ faults \in 0..MaxFaults
    /\ PausesCloseTheGate /\ TagsHaveATransport
    /\ UnsettledTerminalHasReset /\ OpenGateOwesNoConsumer

LEMMA InvParts == ConsumersInv <=> Flags /\ Rest
  BY DEF ConsumersInv, TypeOK, Flags, Rest

\* What a closed transport leaves behind.
LEMMA DropTypes ==
    ASSUME Rest, NEW own, DropConsumers(own)
    PROVE  /\ msg' \in [Types -> [Kinds -> MsgStates]] /\ sub' \in [Types -> SubStates]
           /\ timer' \in [Types -> TimerStates] /\ orphan' = {} /\ cut' \subseteq Tasks
           /\ \A t \in Types : sub'[t] = "none" /\ msg'[t]["extraction_complete"] # "unsettled"
  BY DEF DropConsumers, Rest, Kinds, MsgStates, Unacked, SubStates, TimerStates

-----------------------------------------------------------------------------
(* The invariant                                                           *)

\* The state the process starts in.
LEMMA ConsumersStart == Init => ConsumersInv /\ BeforeAnyPause
<1> SUFFICES ASSUME Init PROVE ConsumersInv /\ BeforeAnyPause
  OBVIOUS
<1>1. TypeOK
  <2>1. Flags
    BY DEF Init, StartsPaused, Flags
  <2>2. task \in [Tasks -> TaskRecords]
    BY TaskTypes DEF Init, StartsPaused
  <2>3. msg \in [Types -> [Kinds -> MsgStates]] /\ sub \in [Types -> SubStates] /\ timer \in [Types -> TimerStates]
    BY DEF Init, StartsPaused, Kinds, MsgStates, SubStates, TimerStates
  <2> QED
    BY <2>1, <2>2, <2>3 DEF Init, StartsPaused, TypeOK, Flags, Transports
<1>2. PausesCloseTheGate /\ TagsHaveATransport /\ UnsettledTerminalHasReset /\ OpenGateOwesNoConsumer
  BY DEF Init, StartsPaused, PausesCloseTheGate, TagsHaveATransport, UnsettledTerminalHasReset,
         OpenGateOwesNoConsumer, Kinds
<1>3. BeforeAnyPause
  BY DEF Init, StartsPaused, BeforeAnyPause, OneStarter, IdleTask, Tasks
<1> QED
  BY <1>1, <1>2, <1>3 DEF ConsumersInv

\* The extractor and the broker's faults.
LEMMA BrokerStep == Rest /\ Broker => Rest'
<1> SUFFICES ASSUME Rest, Broker PROVE Rest'
  OBVIOUS
<1> USE DEF Rest, PausesCloseTheGate, TagsHaveATransport, UnsettledTerminalHasReset,
            OpenGateOwesNoConsumer, gateVars, flagVars, Kinds, MsgStates, Unacked
<1>1. ASSUME NextRound PROVE Rest'
  BY <1>1 DEF NextRound
<1>2. ASSUME ConnectionBlip PROVE Rest'
  BY <1>2 DEF ConnectionBlip, DropPause, Fault, TimerStates
<1>3. ASSUME NEW t \in Types, NEW how \in {"missing", "closed"}, ConsumerLost(t, how) PROVE Rest'
  BY <1>3 DEF ConsumerLost, Fault, SubStates
<1>4. ASSUME NEW t \in Types, NEW k \in Kinds, Publish(t, k) PROVE Rest'
  BY <1>4 DEF Publish
<1>5. ASSUME NEW t \in Types, NEW k \in Kinds, FlushIncomplete(t, k) PROVE Rest'
  BY <1>5 DEF FlushIncomplete, Fault
<1> QED
  BY <1>1, <1>2, <1>3, <1>4, <1>5 DEF Broker

\* The delivery handlers, up to a failed commit.
LEMMA HandlerStep == \A t \in Types : Rest /\ (Handler(t) \/ Heal(t)) => Rest'
<1> SUFFICES ASSUME NEW t \in Types, Rest, Handler(t) \/ Heal(t) PROVE Rest'
  OBVIOUS
<1> USE DEF Rest, PausesCloseTheGate, TagsHaveATransport, UnsettledTerminalHasReset,
            OpenGateOwesNoConsumer, gateVars, flagVars, brokerVars, Kinds, MsgStates, Unacked
<1>1. ASSUME NEW k \in Kinds, Deliver(t, k) PROVE Rest'
  BY <1>1, SMTT(30) DEF Deliver, TimerStates
<1>2. ASSUME MarkFileComplete(t) PROVE Rest'
  BY <1>2 DEF MarkFileComplete, ScheduleCancellation, TimerStates
<1>3. ASSUME MarkExtractionComplete(t) PROVE Rest'
  BY <1>3 DEF MarkExtractionComplete, ScheduleCancellation, TimerStates
<1>4. ASSUME NEW k \in Kinds, Ack(t, k) PROVE Rest'
  BY <1>4 DEF Ack
<1>5. ASSUME Heal(t) PROVE Rest'
  BY <1>5 DEF Heal, SubStates
<1> QED
  BY <1>1, <1>2, <1>3, <1>4, <1>5 DEF Handler, Marks

\* The grace timers.
LEMMA TimerStep == \A t \in Types : Rest /\ TimerTask(t) => Rest'
<1> SUFFICES ASSUME NEW t \in Types, Rest, TimerTask(t) PROVE Rest'
  OBVIOUS
<1> USE DEF Rest, PausesCloseTheGate, TagsHaveATransport, UnsettledTerminalHasReset,
            OpenGateOwesNoConsumer, gateVars, flagVars, brokerVars, NoFault
<1>1. ASSUME TimerFires(t) PROVE Rest'
  BY <1>1 DEF TimerFires, TimerStates
<1>2. ASSUME TimerCancelled(t) PROVE Rest'
  <2>1. CASE Closed(t) /\ NoFault
    BY <1>2, <2>1, DropTypes DEF TimerCancelled, Closed, DropPause, Transports
  <2>2. CASE ~(Closed(t) /\ NoFault)
    <3>1. sub' = [sub EXCEPT ![t] = "none"] /\ timer' = [timer EXCEPT ![t] = "none"]
      BY <1>2, <2>2 DEF TimerCancelled
    <3>2. faults' \in 0..MaxFaults
      BY <1>2, <2>2 DEF TimerCancelled, Fault
    <3>3. UNCHANGED <<msg, transport, orphan, cut, lock, pausing>>
      BY <1>2, <2>2 DEF TimerCancelled
    <3> QED
      BY <1>2, <3>1, <3>2, <3>3 DEF TimerCancelled, SubStates, TimerStates
  <2> QED
    BY <2>1, <2>2
<1>3. ASSUME TimerUnconfirmed(t) PROVE Rest'
  BY <1>3 DEF TimerUnconfirmed, Fault, TimerStates
<1> QED
  BY <1>1, <1>2, <1>3 DEF TimerTask

\* A failed commit and the pause behind it.
LEMMA PauseStep == \A t \in Types : Rest /\ (PauseBegins(t) \/ Pause(t)) => Rest'
<1> SUFFICES ASSUME NEW t \in Types, Rest, PauseBegins(t) \/ Pause(t) PROVE Rest'
  OBVIOUS
<1> USE DEF Rest, PausesCloseTheGate, TagsHaveATransport, UnsettledTerminalHasReset,
            OpenGateOwesNoConsumer, gateVars, flagVars, brokerVars, Kinds, MsgStates, Unacked
<1>1. ASSUME PauseBegins(t) PROVE Rest'
  <2>1. pauses' \in 0..MaxPauses
    BY <1>1 DEF PauseBegins
  <2>2. resumeTypes' \subseteq Types /\ pausing' \subseteq Types
    BY <1>1 DEF PauseBegins, Tags
  <2>3. lock' \in Types => msg'[lock']["extraction_complete"] = "running"
    BY <1>1 DEF PauseBegins
  <2>4. UnsettledTerminalHasReset' /\ OpenGateOwesNoConsumer' /\ PausesCloseTheGate'
    BY <1>1 DEF PauseBegins
  <2> QED
    BY <1>1, <2>1, <2>2, <2>3, <2>4 DEF PauseBegins
<1>2. ASSUME NEW u \in Types, PauseCancels(t, u) PROVE Rest'
  BY <1>2 DEF PauseCancels, SubStates, TimerStates
<1>3. ASSUME PauseCancelFails(t) PROVE Rest'
  <2>1. CASE transport' \in {"none", "bare"} /\ DropConsumers(NoType)
    <3>1. faults' \in 0..MaxFaults
      BY <1>3 DEF PauseCancelFails, Fault, NoFault
    <3> QED
      BY <1>3, <2>1, <3>1, DropTypes DEF PauseCancelFails, Transports
  <2>2. CASE ~(transport' \in {"none", "bare"} /\ DropConsumers(NoType))
    <3>1. faults' \in 0..MaxFaults
      BY <1>3 DEF PauseCancelFails, Fault, NoFault
    <3>2. /\ lock = t /\ lock' = "free" /\ pausing' = {} /\ resetPending' = TRUE
          /\ msg' = [msg EXCEPT ![t]["extraction_complete"] = "unsettled"]
          /\ UNCHANGED <<transport, sub, orphan, cut, timer, cancelFailed, round, completed, signalled,
                         gateClosed, resumeTypes, task, pauses>>
      BY <1>3, <2>2 DEF PauseCancelFails
    <3>3. msg' \in [Types -> [Kinds -> MsgStates]]
      BY <3>2
    <3>4. UnsettledTerminalHasReset' /\ OpenGateOwesNoConsumer' /\ TagsHaveATransport' /\ PausesCloseTheGate'
      BY <3>2
    <3>5. lock' \in Types \cup {"free", "durable"} /\ lock' \notin Types
      BY <3>2
    <3> QED
      BY <3>1, <3>2, <3>3, <3>4, <3>5
  <2> QED
    BY <2>1, <2>2
<1>4. ASSUME PauseNacks(t) PROVE Rest'
  BY <1>4 DEF PauseNacks
<1> QED
  BY <1>1, <1>2, <1>3, <1>4 DEF Pause

\* What a closed transport, a pending reset that is done or a refused closure leave of the
\* invariant; each needs the lock to be kept or dropped with the handler that held it.
LEMMA ClosedKeeps ==
    ASSUME Rest, NEW own, Closed(own), faults' \in 0..MaxFaults,
           UNCHANGED <<round, completed, signalled, gateClosed, resetPending, resumeTypes, pauses>>,
           task' \in [Tasks -> TaskRecords]
    PROVE  Rest'
  BY DropTypes DEF Closed, DropPause, Rest, PausesCloseTheGate, TagsHaveATransport,
                   UnsettledTerminalHasReset, OpenGateOwesNoConsumer, Transports

LEMMA ResetKeeps ==
    ASSUME Rest, ResetConfirmed, lock' \notin Types, lock' \in {"free", "durable"},
           UNCHANGED <<round, completed, signalled, resumeTypes, pausing, pauses>>,
           task' \in [Tasks -> TaskRecords], OpenGateOwesNoConsumer'
    PROVE  Rest'
<1>1. faults' \in 0..MaxFaults /\ transport' \in Transports
  BY DEF ResetConfirmed, Fault, NoFault, Rest, Transports
<1> QED
  BY <1>1, DropTypes DEF ResetConfirmed, Rest, PausesCloseTheGate, TagsHaveATransport,
                         UnsettledTerminalHasReset

\* _recover_consumers and _start_consumer.
LEMMA StartingStep == \A p \in Tasks : Rest /\ Starting(p) => Rest'
<1> SUFFICES ASSUME NEW p \in Tasks, Rest, Starting(p) PROVE Rest'
  OBVIOUS
<1>0. task \in [Tasks -> TaskRecords]
  BY DEF Rest
<1> USE DEF PausesCloseTheGate, TagsHaveATransport, UnsettledTerminalHasReset,
            OpenGateOwesNoConsumer, gateVars, flagVars, brokerVars
<1>1. ASSUME RecoverClose(p) PROVE Rest'
  <2>1. task' \in [Tasks -> TaskRecords]
    BY <1>0, <1>1, FinishTypes, StepTypes, TaskTypes DEF RecoverClose, TaskPCs
  <2>2. CASE CloseConfirmed
    BY <1>1, <2>1, <2>2, ClosedKeeps DEF RecoverClose, CloseConfirmed, NoFault, Rest
  <2>3. CASE ~CloseConfirmed
    BY <1>1, <2>1, <2>3 DEF RecoverClose, CloseRefused, Fault, Rest
  <2> QED
    BY <2>2, <2>3
<1>2. ASSUME RecoverConnect(p) PROVE Rest'
  <2>1. task' \in [Tasks -> TaskRecords]
    BY <1>0, <1>2, FinishTypes, StepTypes, TaskTypes DEF RecoverConnect, TaskPCs, Backlog
  <2>2. CASE CloseConfirmed
    BY <1>2, <2>1, <2>2, ClosedKeeps DEF RecoverConnect, CloseConfirmed, NoFault, Rest
  <2>3. CASE ~CloseConfirmed
    BY <1>2, <2>1, <2>3 DEF RecoverConnect, Fault, NoFault, Rest, Transports
  <2> QED
    BY <2>2, <2>3
<1>3. ASSUME RecoverEnds(p) PROVE Rest'
  BY <1>0, <1>3, FinishTypes DEF RecoverEnds, Rest
<1>4. ASSUME NEW t \in Types, StartBegins(p, t) PROVE Rest'
  <2>1. task' \in [Tasks -> TaskRecords]
    BY <1>0, <1>4, StepTypes, TaskTypes DEF StartBegins
  <2> QED
    BY <1>4, <2>1 DEF StartBegins, Rest
<1>5. ASSUME NEW t \in Types, StartDone(p, t) PROVE Rest'
  <2>1. task' \in [Tasks -> TaskRecords]
    BY <1>0, <1>5, StepTypes, TaskTypes DEF StartDone
  <2> QED
    BY <1>5, <2>1 DEF StartDone, StartLost, Rest, SubStates, TimerStates
<1>6. ASSUME NEW t \in Types, StartFails(p, t) PROVE Rest'
  <2>1. task' \in [Tasks -> TaskRecords]
    BY <1>0, <1>6, FinishTypes, StepTypes, TaskTypes DEF StartFails, TaskPCs
  <2>2. faults' \in 0..MaxFaults
    BY <1>6 DEF StartFails, CloseRefused, Fault, NoFault, Rest
  <2>3. CASE Closed(NoType)
    BY <1>6, <2>1, <2>2, <2>3, ClosedKeeps DEF StartFails
  <2>4. CASE ~Closed(NoType)
    BY <1>6, <2>1, <2>2, <2>4 DEF StartFails, CloseRefused, Rest
  <2> QED
    BY <2>3, <2>4
<1> QED
  BY <1>1, <1>2, <1>3, <1>4, <1>5, <1>6 DEF Starting

\* The periodic checker.
LEMMA CheckerStep == Rest /\ Checker => Rest'
<1> SUFFICES ASSUME Rest, Checker PROVE Rest'
  OBVIOUS
<1>0. task \in [Tasks -> TaskRecords] /\ "checker" \in Tasks
  BY DEF Rest, Tasks
<1> USE DEF PausesCloseTheGate, TagsHaveATransport, UnsettledTerminalHasReset,
            OpenGateOwesNoConsumer, gateVars, flagVars, brokerVars
<1>1. ASSUME CheckerResets PROVE Rest'
  <2>1. task' \in [Tasks -> TaskRecords]
    BY <1>0, <1>1, StepTypes, TaskTypes DEF CheckerResets, TaskPCs
  <2>2. CASE ResetConfirmed
    BY <1>1, <2>1, <2>2, ResetKeeps DEF CheckerResets, Tick, Rest
  <2>3. CASE ResetRefused
    BY <1>1, <2>1, <2>3 DEF CheckerResets, ResetRefused, Fault, Rest
  <2> QED
    BY <1>1, <2>2, <2>3 DEF CheckerResets
<1>2. ASSUME CheckerRecovers PROVE Rest'
  <2>1. task' \in [Tasks -> TaskRecords]
    BY <1>0, <1>2, StepTypes, TaskTypes DEF CheckerRecovers, TaskPCs
  <2> QED
    BY <1>2, <2>1 DEF CheckerRecovers, Rest
<1>3. ASSUME NEW t \in Types, RecoverParkedMarkers(t) PROVE Rest'
  <2>1. task' \in [Tasks -> TaskRecords]
    BY <1>0, <1>3, StepTypes, TaskTypes DEF RecoverParkedMarkers, TaskPCs
  <2> QED
    BY <1>3, <2>1 DEF RecoverParkedMarkers, Rest
<1>4. ASSUME NEW t \in Types, RecoverDataType(t) PROVE Rest'
  <2>1. task' \in [Tasks -> TaskRecords]
    BY <1>0, <1>4, StepTypes, TaskTypes DEF RecoverDataType, TaskPCs
  <2>2. lock \notin Types /\ UNCHANGED <<lock, resetPending>>
    BY <1>4 DEF RecoverDataType, Tick, Rest
  <2>3. faults' \in 0..MaxFaults
    BY <1>4 DEF RecoverDataType, Fault, NoFault, Rest
  <2>4. msg' \in [Types -> [Kinds -> MsgStates]] /\ UnsettledTerminalHasReset'
    BY <1>4, <2>2, SMTT(30) DEF RecoverDataType, Rest, Kinds, MsgStates, Unacked
  <2>5. sub' \in [Types -> SubStates] /\ timer' \in [Types -> TimerStates]
    BY <1>4, ZenonT(30) DEF RecoverDataType, Rest, SubStates, TimerStates
  <2>6. orphan' \subseteq Types /\ TagsHaveATransport'
    BY <1>4 DEF RecoverDataType, Rest
  <2> QED
    BY <1>4, <2>1, <2>2, <2>3, <2>4, <2>5, <2>6 DEF RecoverDataType, Rest
<1> QED
  BY <1>1, <1>2, <1>3, <1>4 DEF Checker

\* The durable recovery loop.
LEMMA DurableStep == Rest /\ Durable => Rest'
<1> SUFFICES ASSUME Rest, Durable PROVE Rest'
  OBVIOUS
<1>0. task \in [Tasks -> TaskRecords] /\ "durable" \in Tasks
  BY DEF Rest, Tasks
<1> USE DEF PausesCloseTheGate, TagsHaveATransport, UnsettledTerminalHasReset,
            OpenGateOwesNoConsumer, gateVars, flagVars, brokerVars
<1>1. ASSUME DurableResets PROVE Rest'
  <2>1. CASE ResetConfirmed
    BY <1>1, <2>1, ResetKeeps DEF DurableResets, DurableIdle, Rest
  <2>2. CASE ResetRefused
    BY <1>1, <2>2 DEF DurableResets, ResetRefused, Fault, Rest
  <2> QED
    BY <1>1, <2>1, <2>2 DEF DurableResets
<1>2. ASSUME DurableOpens PROVE Rest'
  <2>1. task' \in [Tasks -> TaskRecords]
    BY <1>0, <1>2, StepTypes, TaskTypes DEF DurableOpens, TaskPCs, Rest
  <2> QED
    BY <1>2, <2>1 DEF DurableOpens, Rest
<1>3. ASSUME ResumeSucceeds PROVE Rest'
  <2>1. task' \in [Tasks -> TaskRecords]
    BY <1>0, <1>3, StepTypes, TaskTypes DEF ResumeSucceeds
  <2> QED
    BY <1>3, <2>1 DEF ResumeSucceeds, Rest
<1>4. ASSUME ResumeFails PROVE Rest'
  <2>1. task' \in [Tasks -> TaskRecords]
    BY <1>0, <1>4, StepTypes, TaskTypes DEF ResumeFails
  <2>2. gateClosed' /\ lock' = "free"
    BY <1>4 DEF ResumeFails
  <2>3. CASE ResetConfirmed
    BY <1>4, <2>1, <2>2, <2>3, ResetKeeps DEF ResumeFails
  <2>4. CASE ~ResetConfirmed
    <3>1. faults' \in 0..MaxFaults
      BY <1>4, <2>4 DEF ResumeFails, Fault, NoFault, Rest
    <3> QED
      BY <1>4, <2>1, <2>2, <2>4, <3>1 DEF ResumeFails, Rest, SubStates, TimerStates
  <2> QED
    BY <2>3, <2>4
<1> QED
  BY <1>1, <1>2, <1>3, <1>4 DEF Durable

\* No step leaves a flag without a Boolean value.
LEMMA FlagsStep == Flags /\ Next => Flags'
<1> SUFFICES ASSUME Flags, Next PROVE Flags'
  OBVIOUS
<1> USE DEF Flags, gateVars
<1>1. ASSUME Broker PROVE Flags'
  BY <1>1, Zenon DEF Broker, NextRound, ConnectionBlip, ConsumerLost, Publish, FlushIncomplete
<1>2. ASSUME NEW t \in Types, Handler(t) PROVE Flags'
  <2>1. ASSUME NEW k \in Kinds, Deliver(t, k) PROVE Flags'
    BY <2>1, Zenon DEF Deliver
  <2>2. ASSUME NEW k \in Kinds, Ack(t, k) PROVE Flags'
    BY <2>2, Zenon DEF Ack
  <2>3. ASSUME Marks(t) PROVE Flags'
    BY <2>3, Zenon DEF Marks, MarkFileComplete, MarkExtractionComplete, ScheduleCancellation
  <2> QED
    BY <1>2, <2>1, <2>2, <2>3 DEF Handler
<1>3. ASSUME NEW t \in Types, Heal(t) PROVE Flags'
  BY <1>3, Zenon DEF Heal
<1>4. ASSUME NEW t \in Types, TimerTask(t) PROVE Flags'
  BY <1>4, Zenon DEF TimerTask, TimerFires, TimerCancelled, TimerUnconfirmed, Closed
<1>5. ASSUME NEW t \in Types, PauseBegins(t) \/ Pause(t) PROVE Flags'
  BY <1>5, Zenon DEF PauseBegins, Pause, PauseCancels, PauseCancelFails, PauseNacks
<1>6. ASSUME NEW p \in Tasks, Starting(p) PROVE Flags'
  BY <1>6, Zenon DEF Starting, RecoverClose, RecoverConnect, RecoverEnds, StartBegins, StartDone,
                     StartFails, CloseConfirmed, CloseRefused, Closed
<1>7. ASSUME Checker PROVE Flags'
  BY <1>7, Zenon DEF Checker, CheckerResets, CheckerRecovers, RecoverParkedMarkers, RecoverDataType,
                     ResetConfirmed, ResetRefused
<1>8. ASSUME Durable PROVE Flags'
  BY <1>8, Zenon DEF Durable, DurableResets, DurableOpens, ResumeSucceeds, ResumeFails,
                     ResetConfirmed, ResetRefused
<1> QED
  BY <1>1, <1>2, <1>3, <1>4, <1>5, <1>6, <1>7, <1>8 DEF Next, Loader

\* The invariant is inductive.
LEMMA ConsumersStep == ConsumersInv /\ [Next]_vars => ConsumersInv'
<1> SUFFICES ASSUME ConsumersInv, [Next]_vars PROVE ConsumersInv'
  OBVIOUS
<1>0. Flags /\ Rest
  BY InvParts
<1>1. CASE UNCHANGED vars
  BY <1>1 DEF vars, brokerVars, flagVars, gateVars, ConsumersInv, TypeOK, PausesCloseTheGate,
              TagsHaveATransport, UnsettledTerminalHasReset, OpenGateOwesNoConsumer
<1>2. CASE Next
  <2>1. ASSUME Broker \/ Checker \/ Durable PROVE Rest'
    BY <1>0, <2>1, BrokerStep, CheckerStep, DurableStep
  <2>2. ASSUME NEW t \in Types, Handler(t) \/ Heal(t) \/ TimerTask(t) PROVE Rest'
    BY <1>0, <2>2, HandlerStep, TimerStep
  <2>3. ASSUME NEW t \in Types, PauseBegins(t) \/ Pause(t) PROVE Rest'
    BY <1>0, <2>3, PauseStep
  <2>4. ASSUME NEW p \in Tasks, Starting(p) PROVE Rest'
    BY <1>0, <2>4, StartingStep
  <2>5. Rest'
    BY <1>2, <2>1, <2>2, <2>3, <2>4 DEF Next, Loader
  <2>6. Flags'
    BY <1>0, <1>2, FlagsStep
  <2> QED
    BY <2>5, <2>6 DEF ConsumersInv, TypeOK, Flags, Rest
<1> QED
  BY <1>1, <1>2

\* The inductive invariant holds in every behaviour.
THEOREM ConsumersInvariant == Spec => []ConsumersInv
<1>1. Init => ConsumersInv
  BY ConsumersStart
<1>2. ConsumersInv /\ [Next]_vars => ConsumersInv'
  BY ConsumersStep
<1> QED
  BY <1>1, <1>2, PTL DEF Spec

\* Every variable of the subscriptions keeps its type, and durable_refresh_pause_lock is never
\* left with a handler whose message went back to the queue: whatever closes the channel of a
\* pausing handler releases the lock, and nothing else takes its message while it pauses.
THEOREM ConsumerTypes == Spec => []TypeOK
<1>1. ConsumersInv => TypeOK
  BY DEF ConsumersInv
<1> QED
  BY <1>1, ConsumersInvariant, PTL

\* A terminal that pause_durable_consumers left unsettled is never forgotten: until the broker
\* has it back durable_refresh_broker_reset_pending stays set.
THEOREM UnsettledTerminalsAreReset == Spec => []UnsettledTerminalHasReset
<1>1. ConsumersInv => UnsettledTerminalHasReset
  BY DEF ConsumersInv
<1> QED
  BY <1>1, ConsumersInvariant, PTL

\* Outside attempt_durable_recovery the gate is open only when every consumer that a pause took
\* down is back.
THEOREM GateWaitsForConsumers == Spec => []OpenGateOwesNoConsumer
<1>1. ConsumersInv => OpenGateOwesNoConsumer
  BY DEF ConsumersInv
<1> QED
  BY <1>1, ConsumersInvariant, PTL

\* No subscription that may still deliver is on a transport the process has forgotten, whichever
\* tasks cancel, lose, heal, reset and restart consumers.
THEOREM NoConsumerOutlivesItsTransport == Spec => []LiveConsumersHaveATransport
<1>1. ConsumersInv => LiveConsumersHaveATransport
  BY DEF ConsumersInv, TagsHaveATransport, LiveConsumersHaveATransport, TapOpen
<1> QED
  BY <1>1, ConsumersInvariant, PTL

-----------------------------------------------------------------------------
(* Before the first durable pause                                          *)

\* The tasks are different.
LEMMA TaskNames == Tasks = {"checker", "durable"} /\ IdleTask.pc = "idle" /\ IdleTask.todo = {} /\ IdleTask.cur = NoType
  BY DEF Tasks, IdleTask

\* A step of the checker changes its own record only.
LEMMA CheckerMoves ==
    ASSUME task \in [Tasks -> TaskRecords], NEW r \in TaskRecords, Step("checker", r)
    PROVE  task'["durable"] = task["durable"] /\ task'["checker"] = r
  BY TaskNames DEF Step

LEMMA CheckerRecords ==
    /\ \A q \in TaskPCs : [IdleTask EXCEPT !.pc = q].cur = NoType
    /\ \A q \in TaskPCs, t \in Types : [IdleTask EXCEPT !.pc = q, !.cur = t].cur = t
    /\ \A q \in TaskPCs, S \in SUBSET Types, B \in SUBSET Types :
          [IdleTask EXCEPT !.pc = q, !.todo = S, !.backlog = B].cur = NoType
    /\ \A r \in TaskRecords, q \in TaskPCs : [r EXCEPT !.pc = q].cur = r.cur
  BY DEF IdleTask, TaskRecords

\* A closed transport takes every tag with it.
LEMMA DropKeepsStarter ==
    ASSUME OneStarter, NEW own, DropConsumers(own),
           task'["durable"] = task["durable"], UNCHANGED <<gateClosed, resumeTypes>>,
           ~resetPending', lock' \in {lock, "free"}
    PROVE  OneStarter'
  BY DEF OneStarter, DropConsumers

\* Handlers, timers and the broker leave the starters alone.
LEMMA OthersKeepStarter ==
    ASSUME ConsumersInv, OneStarter,
           Broker \/ \E t \in Types : Handler(t) \/ TimerTask(t) \/ Heal(t)
    PROVE  OneStarter'
<1>0. sub \in [Types -> SubStates] /\ timer \in [Types -> TimerStates]
  BY DEF ConsumersInv, TypeOK
<1> USE <1>0 DEF OneStarter, gateVars, flagVars, brokerVars
<1>1. ASSUME Broker PROVE OneStarter'
  BY <1>1 DEF Broker, NextRound, ConnectionBlip, ConsumerLost, Publish, FlushIncomplete, DropPause
<1>2. ASSUME NEW t \in Types, Handler(t) PROVE OneStarter'
  BY <1>2 DEF Handler, Marks, Deliver, Ack, MarkFileComplete, MarkExtractionComplete,
              ScheduleCancellation, Tags
<1>3. ASSUME NEW t \in Types, Heal(t) PROVE OneStarter'
  BY <1>3 DEF Heal
<1>4. ASSUME NEW t \in Types, TimerTask(t) PROVE OneStarter'
  BY <1>4 DEF TimerTask, TimerFires, TimerCancelled, TimerUnconfirmed, Closed, DropConsumers, DropPause
<1> QED
  BY <1>1, <1>2, <1>3, <1>4

\* The checker starts a consumer only for a type that has none.
LEMMA CheckerKeepsStarter ==
    ASSUME ConsumersInv, OneStarter, Checker \/ Starting("checker")
    PROVE  OneStarter'
<1>0. sub \in [Types -> SubStates] /\ timer \in [Types -> TimerStates] /\ task \in [Tasks -> TaskRecords]
  BY DEF ConsumersInv, TypeOK
<1>1. ASSUME CheckerResets PROVE OneStarter'
  <2>1. CASE ResetConfirmed
    <3>1. task'["durable"] = task["durable"]
      BY <1>0, <1>1, TaskTypes, CheckerMoves DEF CheckerResets, TaskPCs
    <3> QED
      BY <1>1, <2>1, <3>1, DropKeepsStarter DEF CheckerResets, ResetConfirmed, Tick
  <2>2. CASE ResetRefused /\ UNCHANGED task
    BY <1>1, <2>2 DEF CheckerResets, ResetRefused, OneStarter
  <2> QED
    BY <1>1, <2>1, <2>2 DEF CheckerResets
<1>2. ASSUME NEW r \in TaskRecords, Step("checker", r), r.cur = NoType \/ sub'[r.cur] = "none",
             UNCHANGED <<gateClosed, resetPending, resumeTypes>>, orphan' = {},
             lock' \in {lock, "free"}
      PROVE  OneStarter'
  BY <1>0, <1>2, CheckerMoves DEF OneStarter
<1>3. ~gateClosed
  BY DEF OneStarter
<1>4. IdleTask \in TaskRecords /\ \A q \in TaskPCs : [IdleTask EXCEPT !.pc = q] \in TaskRecords
  BY TaskTypes
<1>5. ASSUME Finish("checker"), orphan' = {}, lock' \in {lock, "free"},
             UNCHANGED <<gateClosed, resetPending, resumeTypes>>
      PROVE  OneStarter'
  BY <1>2, <1>4, <1>5, TaskNames DEF Finish
<1> USE DEF gateVars, flagVars, brokerVars
<1>6. ASSUME CheckerRecovers PROVE OneStarter'
  BY <1>2, <1>4, <1>6, CheckerRecords DEF CheckerRecovers, Tick, TaskPCs, OneStarter
<1>7. ASSUME NEW t \in Types, RecoverParkedMarkers(t) PROVE OneStarter'
  <2>1. sub'[t] = "none"
    BY <1>7 DEF RecoverParkedMarkers, TypesAwaitingMarker, Tags
  <2>2. CASE Step("checker", [IdleTask EXCEPT !.pc = "close"])
    BY <1>2, <1>4, <1>7, <2>2, CheckerRecords DEF RecoverParkedMarkers, Tick, TaskPCs, OneStarter
  <2>3. CASE Step("checker", [IdleTask EXCEPT !.pc = "parked", !.cur = t])
    BY <1>2, <1>7, <2>1, <2>3, TaskTypes, CheckerRecords DEF RecoverParkedMarkers, Tick, TaskPCs, OneStarter
  <2> QED
    BY <1>7, <2>2, <2>3 DEF RecoverParkedMarkers
<1>8. ASSUME NEW t \in Types, RecoverDataType(t) PROVE OneStarter'
  <2>1. CASE Step("checker", [IdleTask EXCEPT !.pc = "close"]) /\ UNCHANGED <<sub, orphan>>
    BY <1>2, <1>4, <1>8, <2>1, CheckerRecords DEF RecoverDataType, Tick, TaskPCs, OneStarter
  <2>2. CASE /\ Step("checker", [IdleTask EXCEPT !.pc = "lost", !.cur = t])
             /\ sub' = [sub EXCEPT ![t] = "none"] /\ orphan' = orphan \ {t}
    <3> DEFINE r == [IdleTask EXCEPT !.pc = "lost", !.cur = t]
    <3>1. r \in TaskRecords /\ r.cur = t
      BY TaskTypes, CheckerRecords DEF TaskPCs
    <3>2. sub'[t] = "none" /\ orphan' = {}
      BY <1>0, <2>2 DEF OneStarter
    <3>3. UNCHANGED <<gateClosed, resetPending, resumeTypes, lock>>
      BY <1>8 DEF RecoverDataType, Tick
    <3>4. Step("checker", r)
      BY <2>2
    <3> HIDE DEF r
    <3> QED
      BY <1>2, <3>1, <3>2, <3>3, <3>4
  <2> QED
    BY <1>8, <2>1, <2>2 DEF RecoverDataType
<1>9. ASSUME RecoverClose("checker") PROVE OneStarter'
  <2>1. ~gateClosed
    BY <1>3
  <2>2. CASE CloseConfirmed
    <3>1. task'["durable"] = task["durable"]
      BY <1>0, <1>9, <2>1, TaskNames DEF RecoverClose, Step, Finish
    <3> QED
      BY <1>9, <2>1, <2>2, <3>1, DropKeepsStarter
         DEF RecoverClose, CloseConfirmed, Closed, DropPause, OneStarter
  <2>3. CASE CloseRefused /\ Finish("checker")
    BY <1>5, <1>9, <2>1, <2>3 DEF RecoverClose, CloseRefused, OneStarter
  <2> QED
    BY <1>9, <2>1, <2>2, <2>3 DEF RecoverClose
<1>10. ASSUME RecoverConnect("checker") PROVE OneStarter'
  <2>2. CASE CloseConfirmed /\ Finish("checker")
    BY <1>5, <1>10, <2>2 DEF RecoverConnect, CloseConfirmed, Closed, DropConsumers, DropPause
  <2>3. CASE /\ Step("checker", [IdleTask EXCEPT !.pc = "recover", !.todo = Types, !.backlog = Backlog])
             /\ UNCHANGED <<sub, orphan, lock>>
    <3> DEFINE r == [IdleTask EXCEPT !.pc = "recover", !.todo = Types, !.backlog = Backlog]
    <3>1. Backlog \in SUBSET Types /\ Types \in SUBSET Types
      BY DEF Backlog
    <3>2. r \in TaskRecords /\ r.cur = NoType
      BY <3>1 DEF TaskRecords, TaskPCs, IdleTask
    <3>3. orphan' = {} /\ UNCHANGED <<gateClosed, resetPending, resumeTypes, lock>>
      BY <1>10, <2>3 DEF RecoverConnect, OneStarter
    <3>4. Step("checker", r)
      BY <2>3
    <3> HIDE DEF r
    <3> QED
      BY <1>2, <3>2, <3>3, <3>4
  <2>4. CASE Finish("checker") /\ UNCHANGED <<sub, orphan, lock>>
    BY <1>5, <1>10, <2>4 DEF RecoverConnect, OneStarter
  <2> QED
    BY <1>10, <2>2, <2>3, <2>4 DEF RecoverConnect
<1>11. ASSUME RecoverEnds("checker") PROVE OneStarter'
  BY <1>3, <1>5, <1>11 DEF RecoverEnds, OneStarter
<1>12. ASSUME NEW t \in Types, StartBegins("checker", t) PROVE OneStarter'
  BY <1>0, <1>3, <1>12, TaskNames DEF StartBegins, Step, Tags, OneStarter, TaskRecords
<1>13. ASSUME NEW t \in Types, StartDone("checker", t) PROVE OneStarter'
  BY <1>0, <1>3, <1>13, TaskNames DEF StartDone, Step, OneStarter, TaskRecords
<1>14. ASSUME NEW t \in Types, StartFails("checker", t) PROVE OneStarter'
  <2>2. CASE Closed(NoType) /\ Finish("checker")
    BY <1>5, <1>14, <2>2 DEF StartFails, Closed, DropConsumers, DropPause
  <2>3. CASE Finish("checker") /\ UNCHANGED <<sub, orphan, lock>>
    BY <1>5, <1>14, <2>3 DEF StartFails, OneStarter
  <2>4. CASE /\ \/ Step("checker", IdleTask)
                \/ Step("checker", [IdleTask EXCEPT !.pc = "close"])
             /\ UNCHANGED <<sub, orphan, lock>>
    BY <1>2, <1>4, <1>14, <2>4, TaskNames, CheckerRecords DEF StartFails, TaskPCs, OneStarter
  <2> QED
    BY <1>14, <2>2, <2>3, <2>4 DEF StartFails, CloseRefused
<1> QED
  BY <1>1, <1>6, <1>7, <1>8, <1>9, <1>10, <1>11, <1>12, <1>13, <1>14 DEF Checker, Starting

\* Before the first durable pause the recovery loop and the pausing handlers have nothing to do.
LEMMA RecoveryLoopRests ==
    ASSUME OneStarter
    PROVE  ~(Durable \/ Starting("durable") \/ \E t \in Types : Pause(t))
<1>1. /\ task["durable"].pc = "idle" /\ task["durable"].cur = NoType
      /\ "free" \notin Types /\ NoType \notin Types
  BY TaskNames DEF OneStarter
<1>2. ~Durable
  BY <1>1 DEF OneStarter, Durable, DurableResets, DurableOpens, DurableIdle, ResumeSucceeds, ResumeFails
<1>3. ~Starting("durable")
  BY <1>1 DEF Starting, RecoverClose, RecoverConnect, RecoverEnds, StartBegins, StartDone, StartFails
<1>4. ~\E t \in Types : Pause(t)
  BY <1>1 DEF OneStarter, Pause, PauseCancels, PauseCancelFails, PauseNacks
<1> QED
  BY <1>2, <1>3, <1>4

\* Only the next extraction changes the round, and only a failed commit adds a pause.
LEMMA RoundsAndPauses ==
    ASSUME Broker \/ Loader
    PROVE  pauses' = pauses /\ (NextRound \/ round' = round)
  BY ZenonT(60) DEF Broker, Loader, Checker, Durable, Handler, Marks, Pause, TimerTask, Starting,
        NextRound, ConnectionBlip, ConsumerLost, Publish, FlushIncomplete, Deliver, Ack,
        MarkFileComplete, MarkExtractionComplete, PauseCancels, PauseCancelFails, PauseNacks,
        TimerFires, TimerCancelled, TimerUnconfirmed, Heal, RecoverClose, RecoverConnect,
        RecoverEnds, StartBegins, StartDone, StartFails, CheckerResets, CheckerRecovers,
        RecoverParkedMarkers, RecoverDataType, DurableResets, DurableOpens, ResumeSucceeds,
        ResumeFails, brokerVars

\* Faults are only ever added.
LEMMA FaultsAdd ==
    ASSUME Broker \/ Loader
    PROVE  faults' \in {faults, faults + 1}
<1> USE DEF Fault, NoFault
<1>1. ASSUME Broker PROVE faults' \in {faults, faults + 1}
  BY <1>1, ZenonT(30) DEF Broker, NextRound, ConnectionBlip, ConsumerLost, Publish, FlushIncomplete
<1>2. ASSUME Checker PROVE faults' \in {faults, faults + 1}
  BY <1>2, ZenonT(30) DEF Checker, CheckerResets, CheckerRecovers, RecoverParkedMarkers, RecoverDataType,
     ResetConfirmed, ResetRefused
<1>3. ASSUME Durable PROVE faults' \in {faults, faults + 1}
  <2>1. ASSUME ResumeFails PROVE faults' \in {faults, faults + 1}
    BY <2>1, ZenonT(30) DEF ResumeFails, ResetConfirmed
  <2> QED
    BY <1>3, <2>1, ZenonT(30) DEF Durable, DurableResets, DurableOpens, ResumeSucceeds, ResetConfirmed, ResetRefused
<1>4. ASSUME NEW t \in Types, Handler(t) \/ Pause(t) \/ TimerTask(t) \/ Heal(t) PROVE faults' \in {faults, faults + 1}
  BY <1>4, ZenonT(30) DEF Handler, Marks, Pause, TimerTask, Deliver, Ack, MarkFileComplete,
     MarkExtractionComplete, PauseCancels, PauseCancelFails, PauseNacks, TimerFires, TimerCancelled,
     TimerUnconfirmed, Heal
<1>5. ASSUME NEW p \in Tasks, Starting(p) PROVE faults' \in {faults, faults + 1}
  BY <1>5, ZenonT(30) DEF Starting, RecoverClose, RecoverConnect, RecoverEnds, StartBegins, StartDone,
     StartFails, CloseConfirmed, CloseRefused
<1> QED
  BY <1>1, <1>2, <1>3, <1>4, <1>5 DEF Loader

\* What holds before the first durable pause is inductive.
LEMMA PauseFreeStep == ConsumersInv /\ BeforeAnyPause /\ [Next]_vars => BeforeAnyPause'
<1> SUFFICES ASSUME ConsumersInv, BeforeAnyPause, [Next]_vars, pauses' = 0
             PROVE  OneStarter'
  BY DEF BeforeAnyPause
<1>1. CASE UNCHANGED vars
  BY <1>1 DEF vars, brokerVars, flagVars, gateVars, BeforeAnyPause, OneStarter
<1>2. CASE Next
  <2>1. pauses \in Nat
    BY DEF ConsumersInv, TypeOK
  <2>2. ASSUME NEW t \in Types, PauseBegins(t) PROVE FALSE
    BY <2>1, <2>2 DEF PauseBegins
  <2>3. Broker \/ Loader
    BY <1>2, <2>2 DEF Next
  <2>4. pauses = 0
    BY <2>3, RoundsAndPauses
  <2>5. OneStarter
    BY <2>4 DEF BeforeAnyPause
  <2> QED
    BY <2>3, <2>5, OthersKeepStarter, CheckerKeepsStarter, RecoveryLoopRests, TaskNames DEF Loader
<1> QED
  BY <1>1, <1>2

\* In a loader that found its durable schema, and until a durable commit fails, consumer_tags names
\* every live subscription: the recovery loop has nothing to restart, so that no two tasks are
\* inside _start_consumer for one type.
THEOREM ConsumersAreTracked == Spec => [](pauses = 0 => EveryConsumerIsTracked)
<1>1. Init => ConsumersInv /\ BeforeAnyPause
  BY ConsumersStart
<1>2. ConsumersInv /\ BeforeAnyPause /\ [Next]_vars => BeforeAnyPause'
  BY PauseFreeStep
<1>3. BeforeAnyPause => (pauses = 0 => EveryConsumerIsTracked)
  BY DEF BeforeAnyPause, OneStarter, EveryConsumerIsTracked
<1> QED
  BY <1>1, <1>2, <1>3, ConsumersInvariant, PTL DEF Spec

-----------------------------------------------------------------------------
(* The first extraction, before anything fails                             *)

\* A closed transport hands everything back to the queues; messages and timers stay in order.
LEMMA DropKeepsOrder ==
    ASSUME ConsumersInv, FirstLoad, NEW own, DropConsumers(own), UNCHANGED <<completed, signalled>>
    PROVE  MessagesInOrder' /\ TimersFollowMarkers' /\ Tags' = {}
<1>1. msg \in [Types -> [Kinds -> MsgStates]] /\ timer \in [Types -> TimerStates]
  BY DEF ConsumersInv, TypeOK
<1>2. MessagesInOrder'
  BY <1>1 DEF FirstLoad, MessagesInOrder, DropConsumers, Published, Kinds, Unacked, MsgStates
<1>3. TimersFollowMarkers'
  BY <1>1 DEF DropConsumers, TimersFollowMarkers, TimerStates
<1>4. Tags' = {}
  BY DEF DropConsumers, Tags
<1> QED
  BY <1>2, <1>3, <1>4

\* A closed transport leaves no type uncovered: the checker finds the loader disconnected.
LEMMA ClosedKeepsLoad ==
    ASSUME ConsumersInv, FirstLoad, NEW own, Closed(own), UNCHANGED <<completed, signalled>>
    PROVE  FirstLoad'
<1>1. MessagesInOrder' /\ TimersFollowMarkers' /\ Tags' = {} /\ transport' = "none"
  BY DropKeepsOrder DEF Closed
<1> QED
  BY <1>1 DEF FirstLoad, Covered

\* The extractor publishes nothing more of a type that is signalled.
LEMMA PublishKeepsLoad ==
    ASSUME ConsumersInv, FirstLoad, NEW t \in Types, NEW k \in Kinds, Publish(t, k)
    PROVE  FirstLoad'
<1>1. msg \in [Types -> [Kinds -> MsgStates]]
  BY DEF ConsumersInv, TypeOK
<1>2. /\ msg[t][k] = "unpublished" /\ msg' = [msg EXCEPT ![t][k] = "ready"]
      /\ k = "file_complete" => msg[t]["record"] # "unpublished"
      /\ k = "extraction_complete" => msg[t]["file_complete"] # "unpublished"
      /\ UNCHANGED <<transport, sub, completed, signalled, timer, task>>
  BY DEF Publish, flagVars, gateVars
<1>3. /\ \A u \in Types, j \in Kinds : msg'[u][j] = IF u = t /\ j = k THEN "ready" ELSE msg[u][j]
  BY <1>1, <1>2
<1>4. MessagesInOrder'
  BY <1>2, <1>3 DEF FirstLoad, MessagesInOrder, Published, Kinds
<1>5. t \notin signalled
  BY <1>2 DEF FirstLoad, MessagesInOrder, Published, Kinds
<1>6. \A u \in Types : u \in signalled => (Ready(u)' <=> Ready(u))
  BY <1>3, <1>5 DEF Ready
<1>7. TimersFollowMarkers'
  BY <1>2, <1>6 DEF FirstLoad, TimersFollowMarkers
<1>8. \A u \in Types : Covered(u)'
  BY <1>2, <1>6 DEF FirstLoad, Covered, Tags
<1> QED
  BY <1>2, <1>4, <1>7, <1>8 DEF FirstLoad

\* Deliveries, drains and acks: a type is signalled when nothing of it is queued.
LEMMA HandlerKeepsLoad ==
    ASSUME ConsumersInv, OneStarter, FirstLoad, NEW t \in Types, Handler(t)
    PROVE  FirstLoad'
<1>1. /\ msg \in [Types -> [Kinds -> MsgStates]] /\ timer \in [Types -> TimerStates]
      /\ sub \in [Types -> SubStates] /\ completed \subseteq Types /\ signalled \subseteq Types
  BY DEF ConsumersInv, TypeOK
<1>2. UNCHANGED <<transport, sub, task>>
  BY DEF Handler, Marks, Deliver, Ack, MarkFileComplete, MarkExtractionComplete, gateVars
<1>3. ASSUME NEW k \in Kinds, Deliver(t, k) PROVE FirstLoad'
  <2>1. sub[t] = "live"
    BY <1>3 DEF Deliver, TapOpen, OneStarter
  <2>2. \A u \in Types, j \in Kinds : msg'[u][j] = IF u = t /\ j = k THEN "running" ELSE msg[u][j]
    BY <1>1, <1>3 DEF Deliver
  <2>3. MessagesInOrder'
    <3>1. signalled' \subseteq signalled /\ msg[t][k] = "ready"
      BY <1>3 DEF Deliver, flagVars
    <3>2. k = "extraction_complete" => msg[t]["record"] # "ready" /\ msg[t]["file_complete"] # "ready"
      BY <1>3 DEF Deliver, Earlier
    <3> QED
      BY <2>2, <3>1, <3>2 DEF FirstLoad, MessagesInOrder, Published, Kinds
  <2>4. /\ \A u \in Types : Ready(u)' => Ready(u)
        /\ \A u \in Types : u # t => (u \in completed' <=> u \in completed) /\ timer'[u] = timer[u]
        /\ signalled' \subseteq signalled
        /\ timer'[t] = "none" \/ (completed' = completed /\ timer' = timer)
    <3>1. \A u \in Types : Ready(u)' => Ready(u)
      BY <2>2 DEF Ready
    <3> QED
      BY <1>1, <1>3, <3>1 DEF Deliver, flagVars
  <2>5. TimersFollowMarkers'
    BY <1>2, <2>4 DEF FirstLoad, TimersFollowMarkers
  <2>6. \A u \in Types : Covered(u)'
    BY <1>2, <2>1, <2>4 DEF FirstLoad, Covered, Tags
  <2> QED
    BY <1>2, <2>1, <2>3, <2>5, <2>6 DEF FirstLoad
<1>4. ASSUME NEW k \in Kinds, Ack(t, k) PROVE FirstLoad'
  <2>1. UNCHANGED <<completed, signalled, timer>>
    BY <1>4 DEF Ack, flagVars
  <2>2. \A u \in Types, j \in Kinds : msg'[u][j] = IF u = t /\ j = k THEN "acked" ELSE msg[u][j]
    BY <1>1, <1>4 DEF Ack
  <2>3. msg[t][k] \in {"running", "marked"}
    BY <1>4 DEF Ack
  <2>4. MessagesInOrder' /\ \A u \in Types : Ready(u)' => Ready(u)
    BY <2>1, <2>2, <2>3 DEF FirstLoad, MessagesInOrder, Published, Kinds, Ready
  <2>5. TimersFollowMarkers' /\ \A u \in Types : Covered(u)'
    BY <1>2, <2>1, <2>3, <2>4 DEF FirstLoad, TimersFollowMarkers, Covered, Tags
  <2> QED
    BY <1>2, <2>3, <2>4, <2>5 DEF FirstLoad
<1>5. ASSUME Marks(t) PROVE FirstLoad'
  <2>1. PICK k \in {"file_complete", "extraction_complete"} :
            /\ msg[t][k] = "running" /\ msg' = [msg EXCEPT ![t][k] = "marked"]
            /\ completed' = completed \cup {t}
            /\ signalled' = IF k = "extraction_complete" THEN signalled \cup {t} ELSE signalled
            /\ ScheduleCancellation(t)
    BY <1>5 DEF Marks, MarkFileComplete, MarkExtractionComplete
  <2>2. \A u \in Types, j \in Kinds : msg'[u][j] = IF u = t /\ j = k THEN "marked" ELSE msg[u][j]
    BY <1>1, <2>1 DEF Kinds
  <2>3. MessagesInOrder' /\ (\A u \in Types : Ready(u)' => Ready(u))
    BY <2>1, <2>2 DEF FirstLoad, MessagesInOrder, Published, Kinds, Ready
  <2>4. k = "extraction_complete" => ~Ready(t)'
    BY <2>1, <2>2 DEF FirstLoad, MessagesInOrder, Kinds, Ready
  <2>5. /\ \A u \in Types : u # t => timer'[u] = timer[u]
        /\ timer'[t] = IF sub[t] # "none" THEN "armed" ELSE "none"
    BY <1>1, <2>1 DEF ScheduleCancellation, Tags
  <2>6. TimersFollowMarkers'
    BY <1>2, <2>1, <2>3, <2>5 DEF FirstLoad, TimersFollowMarkers
  <2>7. \A u \in Types : Covered(u)'
    BY <1>2, <2>1, <2>3, <2>4 DEF FirstLoad, Covered, Tags
  <2> QED
    BY <1>2, <2>3, <2>6, <2>7 DEF FirstLoad
<1> QED
  BY <1>3, <1>4, <1>5 DEF Handler

\* A timer's cancel takes the consumer of a finished type; of a signalled one nothing is queued.
LEMMA TimerKeepsLoad ==
    ASSUME ConsumersInv, FirstLoad, NEW t \in Types, TimerTask(t), faults = 0, faults' = 0
    PROVE  FirstLoad'
<1>1. /\ timer \in [Types -> TimerStates] /\ sub \in [Types -> SubStates]
  BY DEF ConsumersInv, TypeOK
<1>2. ~Fault
  BY DEF Fault
<1>3. UNCHANGED <<completed, signalled, task>>
  BY DEF TimerTask, TimerFires, TimerCancelled, TimerUnconfirmed, flagVars, gateVars
<1>5. CASE TimerFires(t)
  <2>1. UNCHANGED <<msg, sub, transport>> /\ timer' = [timer EXCEPT ![t] = "cancelling"] /\ timer[t] = "armed"
    BY <1>5 DEF TimerFires, brokerVars
  <2>2. ~Ready(t)
    BY <1>5, <2>1 DEF TimerFires, GracePeriodOver, TapOpen, FirstLoad, TimersFollowMarkers
  <2>3. MessagesInOrder' /\ \A u \in Types : Ready(u)' <=> Ready(u)
    BY <1>3, <2>1 DEF FirstLoad, MessagesInOrder, Published, Ready
  <2>4. TimersFollowMarkers'
    BY <1>1, <1>3, <2>1, <2>2, <2>3 DEF FirstLoad, TimersFollowMarkers
  <2>5. \A u \in Types : Covered(u)'
    BY <1>3, <2>1, <2>3 DEF FirstLoad, Covered, Tags
  <2> QED
    BY <1>3, <2>1, <2>3, <2>4, <2>5 DEF FirstLoad
<1>6. CASE TimerCancelled(t)
  <2>1. CASE Closed(t)
    BY <1>3, <2>1, ClosedKeepsLoad
  <2>2. CASE /\ sub' = [sub EXCEPT ![t] = "none"] /\ timer' = [timer EXCEPT ![t] = "none"]
             /\ UNCHANGED <<msg, transport>>
    <3>1. t \in completed /\ (t \in signalled => ~Ready(t)) /\ sub[t] = "live"
      BY <1>6 DEF TimerCancelled, FirstLoad, TimersFollowMarkers
    <3>2. MessagesInOrder' /\ \A u \in Types : Ready(u)' <=> Ready(u)
      BY <1>3, <2>2 DEF FirstLoad, MessagesInOrder, Published, Ready
    <3>3. TimersFollowMarkers'
      BY <1>1, <1>3, <2>2, <3>2 DEF FirstLoad, TimersFollowMarkers
    <3>4. \A u \in Types : Covered(u)'
      BY <1>1, <1>3, <2>2, <3>1, <3>2 DEF FirstLoad, Covered, Tags
    <3> QED
      BY <1>3, <2>2, <3>2, <3>3, <3>4 DEF FirstLoad
  <2> QED
    BY <1>2, <1>6, <2>1, <2>2 DEF TimerCancelled
<1>7. CASE TimerUnconfirmed(t)
  <2>1. UNCHANGED <<msg, sub, transport>> /\ timer' = [timer EXCEPT ![t] = "none"]
    BY <1>7 DEF TimerUnconfirmed, brokerVars
  <2>2. MessagesInOrder' /\ \A u \in Types : Ready(u)' <=> Ready(u)
    BY <1>3, <2>1 DEF FirstLoad, MessagesInOrder, Published, Ready
  <2>3. TimersFollowMarkers' /\ \A u \in Types : Covered(u)'
    BY <1>1, <1>3, <2>1, <2>2 DEF FirstLoad, TimersFollowMarkers, Covered, Tags
  <2> QED
    BY <1>3, <2>1, <2>2, <2>3 DEF FirstLoad
<1> QED
  BY <1>5, <1>6, <1>7 DEF TimerTask

\* A step of the checker that leaves messages, tags and timers alone keeps FirstLoad if it keeps
\* every type covered.
LEMMA CheckerMovesKeepLoad ==
    ASSUME FirstLoad, UNCHANGED <<msg, sub, timer, completed, signalled>>, transport' # "undeclared",
           \A u \in Types : Covered(u)'
    PROVE  FirstLoad'
<1>1. MessagesInOrder' /\ TimersFollowMarkers'
  BY DEF FirstLoad, MessagesInOrder, TimersFollowMarkers, Published, Ready
<1> QED
  BY <1>1 DEF FirstLoad

\* The checker's own steps end in a full recovery, or begin the start of a parked type.
LEMMA CheckerKeepsLoad ==
    ASSUME ConsumersInv, FirstLoad, Checker, faults = 0, faults' = 0
    PROVE  FirstLoad'
<1>1. task \in [Tasks -> TaskRecords]
  BY DEF ConsumersInv, TypeOK
<1>2. ~Fault /\ [IdleTask EXCEPT !.pc = "close"].pc = "close" /\ "checker" \in Tasks
  BY DEF Fault, IdleTask, Tasks
<1>3. ASSUME Step("checker", [IdleTask EXCEPT !.pc = "close"])
      PROVE  task'["checker"].pc = "close" /\ \A u \in Types : Covered(u)'
  BY <1>1, <1>2, <1>3 DEF Step, Covered
<1>4. CASE CheckerResets
  <2>1. /\ DropConsumers(NoType) /\ UNCHANGED <<completed, signalled>> /\ transport' # "undeclared"
        /\ Step("checker", [IdleTask EXCEPT !.pc = "close"])
    BY <1>2, <1>4 DEF CheckerResets, ResetConfirmed, ResetRefused, Tick, flagVars
  <2> QED
    BY <1>3, <2>1, DropKeepsOrder DEF FirstLoad
<1>5. CASE CheckerRecovers
  BY <1>3, <1>5, CheckerMovesKeepLoad DEF CheckerRecovers, brokerVars, flagVars, FirstLoad
<1>6. ASSUME NEW t \in Types, RecoverParkedMarkers(t) PROVE FirstLoad'
  <2>1. UNCHANGED <<msg, sub, timer, completed, signalled, transport>> /\ transport # "undeclared"
    BY <1>6 DEF RecoverParkedMarkers, brokerVars, flagVars, FirstLoad
  <2>2. CASE Step("checker", [IdleTask EXCEPT !.pc = "close"])
    BY <1>3, <2>1, <2>2, CheckerMovesKeepLoad
  <2>3. CASE Step("checker", [IdleTask EXCEPT !.pc = "parked", !.cur = t])
    <3>1. task["checker"].pc = "idle"
      BY <1>6 DEF RecoverParkedMarkers, Tick, IdleTask
    <3>2. \A u \in Types : Covered(u)'
      BY <2>1, <3>1 DEF FirstLoad, Covered, Tags, Ready
    <3> QED
      BY <2>1, <3>2, CheckerMovesKeepLoad
  <2> QED
    BY <1>6, <2>2, <2>3 DEF RecoverParkedMarkers
<1>7. ASSUME NEW t \in Types, RecoverDataType(t) PROVE FALSE
  BY <1>7 DEF RecoverDataType, LostTypes, FirstLoad, TimersFollowMarkers
<1> QED
  BY <1>4, <1>5, <1>6, <1>7 DEF Checker

\* _recover_consumers takes a type off its list only when the type has its consumer.
LEMMA StartingKeepsLoad ==
    ASSUME ConsumersInv, OneStarter, FirstLoad, Starting("checker"), faults = 0, faults' = 0
    PROVE  FirstLoad'
<1>1. /\ task \in [Tasks -> TaskRecords] /\ timer \in [Types -> TimerStates] /\ sub \in [Types -> SubStates]
      /\ "checker" \in Tasks
  BY DEF ConsumersInv, TypeOK, Tasks
<1>2. ~Fault
  BY DEF Fault
<1>3. UNCHANGED signalled /\ transport # "undeclared"
  BY DEF Starting, RecoverClose, RecoverConnect, RecoverEnds, StartBegins, StartDone, StartFails,
         flagVars, FirstLoad
<1>5. CASE RecoverClose("checker")
  <2>1. Closed(NoType) /\ UNCHANGED completed
    BY <1>2, <1>5 DEF RecoverClose, CloseConfirmed, CloseRefused, flagVars, OneStarter
  <2> QED
    BY <1>3, <2>1, ClosedKeepsLoad
<1>6. CASE RecoverConnect("checker")
  <2>1. CASE CloseConfirmed
    BY <1>3, <1>6, <2>1, ClosedKeepsLoad DEF RecoverConnect, CloseConfirmed, flagVars
  <2>2. CASE /\ Step("checker", [IdleTask EXCEPT !.pc = "recover", !.todo = Types, !.backlog = Backlog])
             /\ UNCHANGED <<msg, sub, timer>> /\ transport' = "open"
    <3>1. task'["checker"].pc = "recover" /\ task'["checker"].todo = Types
      BY <1>1, <2>2 DEF Step, IdleTask
    <3>2. \A u \in Types : Covered(u)'
      BY <3>1 DEF Covered
    <3> QED
      BY <1>3, <1>6, <2>2, <3>2, CheckerMovesKeepLoad DEF RecoverConnect, flagVars
  <2> QED
    BY <1>2, <1>6, <2>1, <2>2 DEF RecoverConnect
<1>7. CASE RecoverEnds("checker")
  <2>1. /\ UNCHANGED <<msg, sub, timer, completed, transport>>
        /\ task["checker"].pc = "recover" /\ task["checker"].todo = {}
    BY <1>7 DEF RecoverEnds, brokerVars, flagVars
  <2>2. \A u \in Types : Covered(u)'
    BY <1>3, <2>1 DEF FirstLoad, Covered, Tags, Ready
  <2> QED
    BY <1>3, <2>1, <2>2, CheckerMovesKeepLoad
<1>8. ASSUME NEW t \in Types, StartBegins("checker", t) PROVE FirstLoad'
  <2>1. /\ UNCHANGED <<msg, sub, timer, completed, transport>>
        /\ task'["checker"].pc = task["checker"].pc
        /\ t \notin Tags => task'["checker"].todo = task["checker"].todo
        /\ t \in Tags => task'["checker"].todo = task["checker"].todo \ {t}
    <3>1. /\ Step("checker", IF t \in Tags THEN [task["checker"] EXCEPT !.todo = @ \ {t}]
                                           ELSE [task["checker"] EXCEPT !.cur = t])
          /\ UNCHANGED <<msg, sub, timer, completed, transport>>
      BY <1>3, <1>8 DEF StartBegins, brokerVars, flagVars
    <3>2. task["checker"] \in TaskRecords
      BY <1>1
    <3>3. task'["checker"] = IF t \in Tags THEN [task["checker"] EXCEPT !.todo = @ \ {t}]
                                           ELSE [task["checker"] EXCEPT !.cur = t]
      BY <1>1, <3>1 DEF Step
    <3> QED
      BY <3>1, <3>2, <3>3 DEF TaskRecords
  <2>2. t \in Tags => sub[t] = "live"
    BY DEF FirstLoad, TimersFollowMarkers, Tags
  <2>3. \A u \in Types : Covered(u)'
    BY <1>3, <2>1, <2>2 DEF FirstLoad, Covered, Tags, Ready
  <2> QED
    BY <1>3, <2>1, <2>3, CheckerMovesKeepLoad
<1>9. ASSUME NEW t \in Types, StartDone("checker", t) PROVE FirstLoad'
  <2>1. /\ task["checker"].cur = t /\ transport # "none" /\ sub[t] = "none"
    BY <1>9 DEF StartDone, StartLost, OneStarter
  <2>2. /\ UNCHANGED <<msg, transport>>
        /\ \A u \in Types : sub'[u] = IF u = t THEN "live" ELSE sub[u]
        /\ \A u \in Types : timer'[u] = IF u = t /\ timer[u] = "armed" THEN "none" ELSE timer[u]
        /\ \A u \in Types : u # t => (u \in completed' <=> u \in completed)
    BY <1>1, <1>9 DEF StartDone, brokerVars
  <2>3. /\ task["checker"].pc \in {"close", "connect", "recover"} => task'["checker"].pc = task["checker"].pc
        /\ task["checker"].pc = "recover" => task'["checker"].todo = task["checker"].todo \ {t}
    <3>1. task'["checker"] = IF task["checker"].pc \in {"parked", "lost"} THEN IdleTask
                             ELSE [task["checker"] EXCEPT !.cur = NoType, !.todo = @ \ {t}]
      BY <1>1, <1>9 DEF StartDone, Step
    <3>2. task["checker"] \in TaskRecords
      BY <1>1
    <3> QED
      BY <3>1, <3>2 DEF TaskRecords
  <2>4. MessagesInOrder' /\ \A u \in Types : Ready(u)' <=> Ready(u)
    BY <1>3, <2>2 DEF FirstLoad, MessagesInOrder, Published, Ready
  <2>5. TimersFollowMarkers'
    BY <1>3, <2>1, <2>2, <2>4 DEF FirstLoad, TimersFollowMarkers
  <2>6. \A u \in Types : Covered(u)'
    BY <1>3, <2>1, <2>2, <2>3, <2>4 DEF FirstLoad, Covered
  <2> QED
    BY <1>3, <2>2, <2>4, <2>5, <2>6 DEF FirstLoad
<1>10. ASSUME NEW t \in Types, StartFails("checker", t) PROVE FirstLoad'
  <2>1. UNCHANGED completed
    BY <1>10 DEF StartFails, flagVars
  <2>2. CASE Closed(NoType)
    BY <1>3, <2>1, <2>2, ClosedKeepsLoad
  <2>3. CASE task["checker"].pc # "recover" /\ UNCHANGED <<msg, transport, sub, timer>>
    <3>1. /\ task["checker"].pc \in {"parked", "lost"}
          /\ task["checker"].pc = "lost" => task'["checker"] = [IdleTask EXCEPT !.pc = "close"]
      BY <1>1, <1>10, <2>3 DEF StartFails, Step
    <3>2. [IdleTask EXCEPT !.pc = "close"].pc = "close"
      BY DEF IdleTask
    <3>3. \A u \in Types : Covered(u)'
      <4>1. CASE task["checker"].pc = "lost"
        BY <3>1, <3>2, <4>1 DEF Covered
      <4>2. CASE task["checker"].pc = "parked"
        BY <1>3, <2>1, <2>3, <4>2 DEF FirstLoad, Covered, Tags, Ready
      <4> QED
        BY <3>1, <4>1, <4>2
    <3> QED
      BY <1>3, <2>1, <2>3, <3>3, CheckerMovesKeepLoad
  <2> QED
    BY <1>2, <1>10, <2>2, <2>3 DEF StartFails, CloseRefused
<1> QED
  BY <1>5, <1>6, <1>7, <1>8, <1>9, <1>10 DEF Starting

\* A first extraction whose schema is there starts with every type subscribed.
LEMMA LoadStart == Init => BeforeAnyFault
<1> SUFFICES ASSUME Init, pauses = 0 PROVE FirstLoad
  BY DEF BeforeAnyFault
<1>1. MessagesInOrder /\ TimersFollowMarkers
  BY DEF Init, StartsPaused, MessagesInOrder, TimersFollowMarkers, Published, Kinds
<1>2. \A t \in Types : Covered(t)
  BY DEF Init, StartsPaused, Covered
<1> QED
  BY <1>1, <1>2 DEF Init, StartsPaused, FirstLoad

\* What holds in the first extraction until something fails is inductive.
LEMMA FaultFreeStep ==
    ConsumersInv /\ BeforeAnyPause /\ BeforeAnyFault /\ [Next]_vars => BeforeAnyFault'
<1> SUFFICES ASSUME ConsumersInv, BeforeAnyPause, BeforeAnyFault, [Next]_vars,
                    round' = 1, faults' = 0, pauses' = 0
             PROVE  FirstLoad'
  BY DEF BeforeAnyFault
<1>1. round \in Nat /\ round >= 1 /\ faults \in Nat /\ pauses \in Nat
  BY DEF ConsumersInv, TypeOK
<1>2. CASE UNCHANGED vars
  BY <1>2 DEF vars, brokerVars, flagVars, gateVars, BeforeAnyFault, FirstLoad, MessagesInOrder,
     TimersFollowMarkers, Covered, Published, Ready, Tags
<1>3. CASE Next
  <2>1. ASSUME NEW t \in Types, PauseBegins(t) PROVE FALSE
    BY <1>1, <2>1 DEF PauseBegins
  <2>2. ~NextRound
    BY <1>1 DEF NextRound
  <2>3. Broker \/ Loader
    BY <1>3, <2>1 DEF Next
  <2>4. round = 1 /\ faults = 0 /\ pauses = 0
    BY <1>1, <2>2, <2>3, RoundsAndPauses, FaultsAdd
  <2>5. OneStarter /\ FirstLoad
    BY <2>4 DEF BeforeAnyPause, BeforeAnyFault
  <2>6. ASSUME Broker PROVE FirstLoad'
    <3>1. PICK t \in Types, k \in Kinds : Publish(t, k)
      BY <2>2, <2>4, <2>6 DEF Broker, ConnectionBlip, ConsumerLost, FlushIncomplete, Fault
    <3> QED
      BY <2>5, <3>1, PublishKeepsLoad
  <2>7. ASSUME NEW t \in Types, Heal(t) PROVE FALSE
    BY <2>5, <2>7 DEF Heal, FirstLoad, TimersFollowMarkers
  <2>8. ASSUME NEW t \in Types, Handler(t) \/ TimerTask(t) PROVE FirstLoad'
    BY <2>4, <2>5, <2>8, HandlerKeepsLoad, TimerKeepsLoad
  <2>9. ASSUME Checker \/ Starting("checker") PROVE FirstLoad'
    BY <2>4, <2>5, <2>9, CheckerKeepsLoad, StartingKeepsLoad
  <2>10. ~(Durable \/ Starting("durable") \/ \E t \in Types : Pause(t))
    BY <2>5, RecoveryLoopRests
  <2> QED
    BY <2>3, <2>6, <2>7, <2>8, <2>9, <2>10, TaskNames DEF Loader
<1> QED
  BY <1>2, <1>3

\* In the first extraction, until a durable pause or a broker fault, a type with something queued
\* has a consumer or a task that will give it one: the checker's tests of tags, files and connection
\* never leave a queue to another type's progress.
THEOREM NothingIsStranded == Spec => []NoStrandedWork
<1>1. Init => BeforeAnyPause /\ BeforeAnyFault
  BY ConsumersStart, LoadStart
<1>2. ConsumersInv /\ BeforeAnyPause /\ BeforeAnyFault /\ [Next]_vars => BeforeAnyPause' /\ BeforeAnyFault'
  BY PauseFreeStep, FaultFreeStep
<1>3. ConsumersInv /\ BeforeAnyFault => NoStrandedWork
  <2> SUFFICES ASSUME FirstLoad, NEW t \in Types, Ready(t) PROVE Attended(t)
    BY DEF BeforeAnyFault, NoStrandedWork
  <2>1. CASE Tags = {} /\ transport = "none"
    BY <2>1 DEF Attended, StuckOrIdle
  <2>2. CASE t \in completed /\ (t \in signalled => ~Ready(t))
    BY <2>2 DEF Attended, TypesAwaitingMarker, Tags, TapOpen, FirstLoad, TimersFollowMarkers
  <2> QED
    BY <2>1, <2>2 DEF FirstLoad, Covered, Attended, TapOpen
<1> QED
  BY <1>1, <1>2, <1>3, ConsumersInvariant, PTL DEF Spec
=============================================================================
