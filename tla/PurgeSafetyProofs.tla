------------------------- MODULE PurgeSafetyProofs -------------------------
(***************************************************************************)
(* Proofs about PurgeSafety for any number of records, extractions,        *)
(* handlers and faults.                                                    *)
(*                                                                         *)
(* BaseInv says what is where.  The rest of PurgeInv is about what         *)
(* remembers a record that was not written: a refreshed row stays so       *)
(* (RefreshedIsStable), what the engine counts as pending becomes written  *)
(* or noted (PendingIsStable), and a note is spent on a veto               *)
(* (NotedIsStable), or the record is one of those that nothing remembers,  *)
(* so that each phase of a handler finds what the one before it left       *)
(* (ExcludedStep).                                                         *)
(***************************************************************************)
EXTENDS PurgeSafetyInv, OrderLemmas

\* Extractions are positive naturals, below the mark of an absent row.
LEMMA DumpNumbers ==
    /\ Cardinality(Dumps) \in Nat /\ Absent \in Nat /\ Absent \notin Dumps /\ Absent # 0
    /\ \A d \in Dumps : d \in Nat /\ d # 0 /\ d < Absent
    /\ \A n \in Nat : n # 0 /\ n < Absent => n \in Dumps
<1>1. Cardinality(Dumps) \in Nat
  BY DumpsAssumption, FS_CardinalityType
<1>2. \A n : n \in Dumps <=> n \in 1..Cardinality(Dumps)
  BY DumpsAssumption
<1> QED
  BY <1>1, <1>2 DEF Absent

\* A delivery is a dump and a record.
LEMMA DeliveryParts == \A m \in Deliveries : m[1] \in Dumps /\ m[2] \in Records
  BY DEF Deliveries

\* Limits are those of a behaviour that starts at least one dump.
LEMMA LimitParts == \A l \in Limits : l.dumps \in Dumps /\ l.handlers \in Nat /\ l.faults \in Nat
  BY LimitsAssumption

\* A free handler is one of the handler states.
LEMMA FreeType == Free \in HandlerStates /\ Free.phase = "free" /\ Free.dump = 0 /\ ~Free.alive /\ ~Free.vetoed
  BY DEF Free, HandlerStates, Phases

-----------------------------------------------------------------------------
(* Pieces of steps                                                         *)

\* The marker clause of TypeOK.
OutInv == \A d \in Dumps : marker[d] = "out" <=> \E h \in Handlers : handler[h].dump = d /\ handler[h].alive

\* The other clauses that a step can change.
Types ==
    /\ row \in [Records -> Dumps \cup {0, Absent}] /\ msg \in [Deliveries -> MsgStates]
    /\ behind \subseteq Deliveries /\ ghosts \subseteq Deliveries /\ owed \subseteq Deliveries
    /\ dlqNacks \in BOOLEAN /\ flagged \subseteq Deliveries /\ forgotten \subseteq Deliveries
    /\ declared \in BOOLEAN /\ marker \in [Dumps -> MarkerStates]
    /\ handler \in [Handlers -> HandlerStates] /\ latchVeto \subseteq Dumps /\ latchSignal \subseteq Dumps

LEMMA TypeParts ==
    TypeOK <=> /\ Types /\ OutInv /\ started \in Dumps \cup {0}
               /\ dump \in [Dumps -> SUBSET Records] /\ invalid \subseteq Deliveries
               /\ limits \in Limits /\ faults \in 0..limits.faults
  BY DEF TypeOK, Types, OutInv

\* Step moves one handler to another phase and changes nothing else.
LEMMA StepEffect ==
    ASSUME handler \in [Handlers -> HandlerStates], NEW h \in Handlers, NEW p \in Phases, Step(h, p)
    PROVE  /\ handler' \in [Handlers -> HandlerStates]
           /\ \A x \in Handlers : x # h => handler'[x] = handler[x]
           /\ handler'[h].phase = p /\ handler'[h].dump = handler[h].dump
           /\ handler'[h].vetoed = handler[h].vetoed /\ handler'[h].alive = handler[h].alive
  BY DEF Step, HandlerStates

\* Veto also marks the handler.
LEMMA VetoEffect ==
    ASSUME handler \in [Handlers -> HandlerStates], NEW h \in Handlers, Veto(h)
    PROVE  /\ handler' \in [Handlers -> HandlerStates]
           /\ \A x \in Handlers : x # h => handler'[x] = handler[x]
           /\ handler'[h].phase = "vetoing" /\ handler'[h].dump = handler[h].dump
           /\ handler'[h].vetoed = TRUE /\ handler'[h].alive = handler[h].alive
  BY DEF Veto, HandlerStates, Phases

\* The last live handler of a dump leaves: its marker is then in one other place.
LEMMA OutReleased ==
    ASSUME Types, OutInv, HandlersAreDistinct, NEW h \in Handlers, handler[h].phase # "free",
           handler' = [handler EXCEPT ![h] = Free], NEW p \in MarkerStates \ {"out"},
           marker' = IF handler[h].alive THEN [marker EXCEPT ![handler[h].dump] = p] ELSE marker
    PROVE  /\ OutInv' /\ handler' \in [Handlers -> HandlerStates] /\ marker' \in [Dumps -> MarkerStates]
           /\ handler'[h] = Free /\ \A x \in Handlers : x # h => handler'[x] = handler[x]
           /\ \A d \in Dumps : marker'[d] = marker[d]
                               \/ (marker'[d] = p /\ d = handler[h].dump /\ handler[h].alive)
<1>1. /\ handler \in [Handlers -> HandlerStates] /\ marker \in [Dumps -> MarkerStates]
      /\ handler[h].dump \in Dumps
  BY DEF Types, HandlersAreDistinct
<1>2. /\ handler' \in [Handlers -> HandlerStates] /\ handler'[h] = Free
      /\ \A x \in Handlers : x # h => handler'[x] = handler[x]
  BY <1>1, FreeType
<1>3. CASE handler[h].alive
  <2>1. /\ marker' \in [Dumps -> MarkerStates] /\ marker'[handler[h].dump] = p
        /\ \A d \in Dumps : d # handler[h].dump => marker'[d] = marker[d]
    BY <1>1, <1>3
  <2>2. \A x \in Handlers : x # h /\ handler[x].alive => handler[x].dump # handler[h].dump
    BY <1>3 DEF HandlersAreDistinct
  <2>3. ASSUME NEW d \in Dumps
        PROVE  marker'[d] = "out" <=> \E x \in Handlers : handler'[x].dump = d /\ handler'[x].alive
    <3>1. CASE d = handler[h].dump
      BY <1>2, <2>1, <2>2, <3>1, FreeType
    <3>2. CASE d # handler[h].dump
      <4>1. (\E x \in Handlers : handler'[x].dump = d /\ handler'[x].alive)
              <=> \E x \in Handlers : handler[x].dump = d /\ handler[x].alive
        BY <1>2, <3>2, FreeType
      <4> QED
        BY <2>1, <3>2, <4>1 DEF OutInv
    <3> QED
      BY <3>1, <3>2
  <2> QED
    BY <1>2, <1>3, <2>1, <2>3 DEF OutInv
<1>4. CASE ~handler[h].alive
  <2>1. marker' = marker
    BY <1>4
  <2>2. \A d \in Dumps : (\E x \in Handlers : handler'[x].dump = d /\ handler'[x].alive)
                           <=> \E x \in Handlers : handler[x].dump = d /\ handler[x].alive
    BY <1>2, <1>4, FreeType
  <2> QED
    BY <1>1, <1>2, <2>1, <2>2 DEF OutInv
<1> QED
  BY <1>3, <1>4

\* Handlers that keep their dumps and their channels leave the markers out.
LEMMA OutKept ==
    ASSUME OutInv, marker' = marker,
           \A x \in Handlers : handler'[x].dump = handler[x].dump /\ handler'[x].alive = handler[x].alive
    PROVE  OutInv'
  BY DEF OutInv

\* What the broker takes back is ready or dead-lettered, and no marker is out.
LEMMA BrokerTakesBack ==
    ASSUME Types, NEW limit \in SUBSET Held
    PROVE  /\ Returned(limit) \in [Deliveries -> MsgStates]
           /\ \A m \in Deliveries : IF msg[m] = "held" THEN Returned(limit)[m] \in {"dlq", "ready"}
                                                      ELSE Returned(limit)[m] = msg[m]
           /\ MarkersBack \in [Dumps -> MarkerStates]
           /\ \A d \in Dumps : MarkersBack[d] # "out" /\ (MarkersBack[d] = marker[d] \/ marker[d] = "out")
           /\ \A d \in Dumps : MarkersBack[d] \in {"done", "unlatched", "unsent"} => MarkersBack[d] = marker[d]
  BY DEF Types, Returned, MarkersBack, MsgStates, MarkerStates

\* A purge takes only rows that are older than its dump.
LEMMA PurgedRows ==
    ASSUME row \in [Records -> Dumps \cup {0, Absent}], NEW d
    PROVE  /\ Purged(d) \in [Records -> Dumps \cup {0, Absent}]
           /\ \A r \in Records : \/ Purged(d)[r] = row[r]
                                 \/ Purged(d)[r] = Absent /\ row[r] # Absent /\ row[r] < d
<1>1. CASE Purges(d)
  <2>1. Purged(d) = [r \in Records |-> IF r \in Stale(d) THEN Absent ELSE row[r]]
    BY <1>1 DEF Purged
  <2>2. \A r \in Stale(d) : row[r] # Absent /\ row[r] < d
    BY DEF Stale, Rows
  <2> HIDE DEF Purged
  <2> QED
    BY <2>1, <2>2
<1>2. CASE ~Purges(d)
  BY <1>2 DEF Purged
<1> QED
  BY <1>1, <1>2

\* What one step of the task of handler x may do to it: free it, mark its channel dead, or move
\* it to its next phase, for the reason that the phase asks for.
HandlerMove(x) ==
    \/ handler'[x] = Free
    \/ /\ handler[x].phase # "free" /\ handler'[x].phase # "free"
       /\ handler'[x].dump = handler[x].dump /\ (handler'[x].alive => handler[x].alive)
       /\ \/ handler'[x].phase = handler[x].phase /\ handler'[x].vetoed = handler[x].vetoed
          \/ /\ handler[x].phase = "flushing" /\ handler'[x].phase = "vetting" /\ Drained
             /\ handler'[x].vetoed = handler[x].vetoed
          \/ /\ handler[x].phase = "vetting" /\ handler'[x].phase = "checking" /\ ~dlqNacks /\ Dead = {}
             /\ handler'[x].vetoed = handler[x].vetoed
          \/ /\ handler[x].phase = "checking" /\ handler'[x].phase = "purging"
             /\ ~(declared /\ handler[x].dump \in latchVeto)
             /\ handler'[x].vetoed = handler[x].vetoed
          \/ handler'[x].phase = "vetoing" /\ handler'[x].vetoed
          \/ /\ handler[x].phase = "vetoing" /\ handler'[x].phase = "recording"
             /\ (declared => handler[x].dump \in latchVeto')
             /\ handler'[x].vetoed = handler[x].vetoed
          \/ /\ \/ handler[x].phase = "purging" /\ handler'[x].phase = "recording"
                \/ handler[x].phase = "recording" /\ handler'[x].phase = "acking"
             /\ handler'[x].vetoed = handler[x].vetoed
    \/ \E d \in Dumps : DeliverMarker(x, d)

\* reset_dlq_nacks: what the flag remembered is on the latch or forgotten.
Spent == /\ dlqNacks' = FALSE /\ flagged' = {}
         /\ forgotten' = forgotten \cup {m \in flagged : m[1] \notin latchVeto}

\* What the step of a handler does to everything else.
HandlerFrame(h) ==
    /\ UNCHANGED <<started, fixed, declared, recordVars>> /\ (faults' = faults \/ Fault)
    /\ \A x \in Handlers : x # h => handler'[x] = handler[x]
    /\ \A d \in Dumps : \/ marker'[d] = marker[d] \/ (marker'[d] = "back" /\ d = handler[h].dump)
                        \/ /\ marker'[d] = (IF declared THEN "done" ELSE "unlatched")
                           /\ handler[h].phase = "acking" /\ handler[h].dump = d /\ handler[h].alive
    /\ latchVeto \subseteq latchVeto'
    /\ row' = row \/ (handler[h].phase = "purging" /\ row' = Purged(handler[h].dump))
    /\ \/ UNCHANGED notes
       \/ /\ handler[h].phase = "acking" /\ handler[h].alive /\ handler[h].vetoed /\ Spent

\* A requeued marker leaves its handler free.
LEMMA NackEffect ==
    ASSUME Types, OutInv, HandlersAreDistinct, NEW h \in Handlers, handler[h].phase # "free",
           NackMarker(h)
    PROVE  /\ OutInv' /\ handler' \in [Handlers -> HandlerStates] /\ marker' \in [Dumps -> MarkerStates]
           /\ handler'[h] = Free /\ \A x \in Handlers : x # h => handler'[x] = handler[x]
           /\ \A d \in Dumps : marker'[d] = marker[d] \/ (marker'[d] = "back" /\ d = handler[h].dump)
<1>1. "back" \in MarkerStates \ {"out"}
  BY DEF MarkerStates
<1> QED
  BY <1>1, OutReleased, ZenonT(30) DEF NackMarker

\* Each step of a handler is such a move.
LEMMA HandlerStepEffect ==
    ASSUME Types, OutInv, HandlersAreDistinct, NEW h \in Handlers, HandlerStep(h)
    PROVE  Types' /\ OutInv' /\ HandlerMove(h) /\ HandlerFrame(h)
<1>0. /\ handler \in [Handlers -> HandlerStates] /\ marker \in [Dumps -> MarkerStates]
      /\ row \in [Records -> Dumps \cup {0, Absent}] /\ dlqNacks \in BOOLEAN /\ declared \in BOOLEAN
      /\ flagged \subseteq Deliveries /\ forgotten \subseteq Deliveries
      /\ (handler[h].phase # "free" => handler[h].dump \in Dumps)
  BY DEF Types, HandlersAreDistinct
<1>p. {"vetting", "checking", "purging", "recording", "acking"} \subseteq Phases
  BY DEF Phases
<1> DEFINE Rest == UNCHANGED <<started, fixed, declared, recordVars>> /\ (faults' = faults \/ Fault)
\* Back to the broker.
<1>1. ASSUME NackMarker(h), handler[h].phase # "free", Rest, UNCHANGED <<notes, latchVeto, latchSignal>>,
             row' = row \/ (handler[h].phase = "purging" /\ row' = Purged(handler[h].dump))
      PROVE  Types' /\ OutInv' /\ HandlerMove(h) /\ HandlerFrame(h)
  <2>1. /\ OutInv' /\ handler' \in [Handlers -> HandlerStates] /\ marker' \in [Dumps -> MarkerStates]
        /\ handler'[h] = Free /\ \A x \in Handlers : x # h => handler'[x] = handler[x]
        /\ \A d \in Dumps : marker'[d] = marker[d] \/ (marker'[d] = "back" /\ d = handler[h].dump)
    BY <1>1, NackEffect
  <2>2. row' \in [Records -> Dumps \cup {0, Absent}]
    BY <1>0, <1>1, PurgedRows
  <2>3. Types'
    BY <1>1, <2>1, <2>2 DEF Types, recordVars, notes
  <2>4. HandlerMove(h)
    BY <2>1 DEF HandlerMove
  <2>5. HandlerFrame(h)
    BY <1>1, <2>1 DEF HandlerFrame
  <2> QED
    BY <2>1, <2>3, <2>4, <2>5
\* On to the next phase.
<1>2. ASSUME handler' \in [Handlers -> HandlerStates], handler'[h].dump = handler[h].dump,
             handler'[h].alive = handler[h].alive, \A x \in Handlers : x # h => handler'[x] = handler[x],
             marker' = marker, Rest, UNCHANGED notes, latchVeto \subseteq latchVeto',
             latchVeto' \subseteq Dumps, latchSignal' \subseteq Dumps,
             row' = row \/ (handler[h].phase = "purging" /\ row' = Purged(handler[h].dump))
      PROVE  Types' /\ OutInv' /\ HandlerFrame(h)
  <2>1. OutInv'
    BY <1>2, OutKept
  <2>2. row' \in [Records -> Dumps \cup {0, Absent}]
    BY <1>0, <1>2, PurgedRows
  <2>3. Types'
    BY <1>2, <2>2 DEF Types, recordVars, notes
  <2>4. HandlerFrame(h)
    BY <1>2 DEF HandlerFrame
  <2> QED
    BY <2>1, <2>3, <2>4
<1>f. Types => latchVeto \subseteq Dumps /\ latchSignal \subseteq Dumps
  BY DEF Types
<1>3. CASE FlushQueue(h)
  <2>1. CASE Step(h, "vetting") /\ marker' = marker /\ Drained
    <3>1. HandlerMove(h)
      BY <1>0, <1>3, <1>p, <2>1, StepEffect DEF FlushQueue, HandlerMove
    <3> QED
      BY <1>0, <1>2, <1>3, <1>f, <1>p, <2>1, <3>1, StepEffect DEF FlushQueue, latchVars, known
  <2>2. CASE NackMarker(h)
    BY <1>1, <1>3, <2>2 DEF FlushQueue, latchVars, known
  <2> QED
    BY <1>3, <2>1, <2>2 DEF FlushQueue
<1>4. CASE ReadDeadLetters(h)
  <2>1. CASE Step(h, "checking") /\ ~(dlqNacks \/ Dead # {})
    <3>1. HandlerMove(h)
      BY <1>0, <1>4, <1>p, <2>1, StepEffect DEF ReadDeadLetters, HandlerMove
    <3> QED
      BY <1>0, <1>2, <1>4, <1>f, <1>p, <2>1, <3>1, StepEffect DEF ReadDeadLetters, latchVars, known
  <2>2. CASE Veto(h)
    <3>1. HandlerMove(h)
      BY <1>0, <1>4, <2>2, VetoEffect DEF ReadDeadLetters, HandlerMove
    <3> QED
      BY <1>0, <1>2, <1>4, <1>f, <2>2, <3>1, VetoEffect DEF ReadDeadLetters, latchVars, known
  <2> QED
    BY <1>4, <2>1, <2>2 DEF ReadDeadLetters
<1>5. CASE ReadLatch(h)
  <2>1. CASE Step(h, "purging") /\ ~(declared /\ handler[h].dump \in latchVeto)
    <3>1. HandlerMove(h)
      BY <1>0, <1>5, <1>p, <2>1, StepEffect DEF ReadLatch, HandlerMove
    <3> QED
      BY <1>0, <1>2, <1>5, <1>f, <1>p, <2>1, <3>1, StepEffect DEF ReadLatch, latchVars, known
  <2>2. CASE Veto(h)
    <3>1. HandlerMove(h)
      BY <1>0, <1>5, <2>2, VetoEffect DEF ReadLatch, HandlerMove
    <3> QED
      BY <1>0, <1>2, <1>5, <1>f, <2>2, <3>1, VetoEffect DEF ReadLatch, latchVars, known
  <2> QED
    BY <1>5, <2>1, <2>2 DEF ReadLatch
<1>6. CASE PersistVeto(h)
  <2>0. handler[h].phase = "vetoing" /\ handler[h].dump \in Dumps
    BY <1>0, <1>6 DEF PersistVeto, known
  <2>1. CASE /\ latchVeto' = IF declared THEN latchVeto \cup {handler[h].dump} ELSE latchVeto
             /\ Step(h, "recording") /\ UNCHANGED <<marker, faults>>
    <3>1. HandlerMove(h)
      BY <1>0, <1>p, <2>0, <2>1, StepEffect DEF HandlerMove
    <3> QED
      BY <1>0, <1>2, <1>6, <1>f, <1>p, <2>0, <2>1, <3>1, StepEffect DEF PersistVeto, known
  <2>2. CASE NackMarker(h) /\ Fault /\ UNCHANGED latchVeto
    BY <1>1, <1>6, <2>0, <2>2 DEF PersistVeto, known
  <2> QED
    BY <1>6, <2>1, <2>2 DEF PersistVeto, known
<1>7. CASE PurgeStaleRows(h)
  <2>1. CASE Step(h, "recording") /\ row' = Purged(handler[h].dump) /\ UNCHANGED <<marker, faults>>
    <3>1. HandlerMove(h)
      BY <1>0, <1>7, <1>p, <2>1, StepEffect DEF PurgeStaleRows, HandlerMove
    <3> QED
      BY <1>0, <1>2, <1>7, <1>f, <1>p, <2>1, <3>1, StepEffect DEF PurgeStaleRows, latchVars, known
  <2>2. CASE NackMarker(h) /\ Fault /\ row' \in {row, Purged(handler[h].dump)}
    BY <1>1, <1>7, <2>2 DEF PurgeStaleRows, latchVars, known
  <2> QED
    BY <1>7, <2>1, <2>2 DEF PurgeStaleRows
<1>8. CASE RecordSignal(h)
  <2>0. handler[h].phase = "recording" /\ handler[h].dump \in Dumps
    BY <1>0, <1>8 DEF RecordSignal, known
  <2>1. CASE /\ latchSignal' \in {latchSignal, latchSignal \cup {handler[h].dump}}
             /\ Step(h, "acking") /\ UNCHANGED <<marker, faults>>
    <3>1. HandlerMove(h)
      BY <1>0, <1>p, <2>0, <2>1, StepEffect DEF HandlerMove
    <3> QED
      BY <1>0, <1>2, <1>8, <1>f, <1>p, <2>0, <2>1, <3>1, StepEffect DEF RecordSignal, known
  <2>2. CASE NackMarker(h) /\ Fault /\ UNCHANGED latchSignal
    BY <1>1, <1>8, <2>0, <2>2 DEF RecordSignal, known
  <2> QED
    BY <1>8, <2>1, <2>2 DEF RecordSignal, known
<1>9. CASE AckMarker(h)
  <2> DEFINE p == IF declared THEN "done" ELSE "unlatched"
  <2>0. /\ handler[h].phase = "acking" /\ handler[h].dump \in Dumps /\ Rest
        /\ handler' = [handler EXCEPT ![h] = Free] /\ UNCHANGED <<row, latchVeto, latchSignal>>
        /\ marker' = IF handler[h].alive THEN [marker EXCEPT ![handler[h].dump] = p] ELSE marker
    BY <1>0, <1>9 DEF AckMarker, latchVars, known
  <2>p. p \in MarkerStates \ {"out"}
    BY DEF MarkerStates
  <2> HIDE DEF p
  <2>1. /\ OutInv' /\ handler' \in [Handlers -> HandlerStates] /\ marker' \in [Dumps -> MarkerStates]
        /\ handler'[h] = Free /\ \A x \in Handlers : x # h => handler'[x] = handler[x]
        /\ \A d \in Dumps : \/ marker'[d] = marker[d]
                            \/ marker'[d] = p /\ d = handler[h].dump /\ handler[h].alive
    BY <2>0, <2>p, OutReleased
  <2>2. UNCHANGED notes \/ (handler[h].alive /\ handler[h].vetoed /\ Spent)
    BY <1>9 DEF AckMarker, Spent
  <2>n. dlqNacks' \in BOOLEAN /\ flagged' \subseteq Deliveries /\ forgotten' \subseteq Deliveries
    BY <1>0, <2>2 DEF Spent, notes
  <2>3. Types'
    BY <2>0, <2>1, <2>n DEF Types, recordVars
  <2>4. HandlerMove(h)
    BY <2>1 DEF HandlerMove
  <2>6. HandlerFrame(h)
    BY <2>0, <2>1, <2>2 DEF HandlerFrame, p
  <2> QED
    BY <2>1, <2>3, <2>4, <2>6
<1> QED
  BY <1>3, <1>4, <1>5, <1>6, <1>7, <1>8, <1>9 DEF HandlerStep

\* What a step of the delivery m does to everything else.
RecordFrame(m) ==
    /\ UNCHANGED <<started, fixed, declared, marker, handler, latchVars>> /\ (faults' = faults \/ Fault)
    /\ \A n \in Deliveries \ {m} : /\ msg'[n] = msg[n] /\ (n \in ghosts' <=> n \in ghosts)
                                   /\ (n \in owed' <=> n \in owed) /\ (n \in behind' <=> n \in behind)
    /\ row' = row \/ row' = [row EXCEPT ![m[2]] = started]
    /\ (dlqNacks => dlqNacks') /\ flagged \subseteq flagged' /\ forgotten \subseteq forgotten'
    /\ flagged' = flagged \/ dlqNacks'

\* What it does to m: it is written, noted, forgotten or still pending, and vetoed before it is
\* cleared.
RecordMove(m) ==
    /\ Published(m) /\ (msg'[m] = "unsent" <=> msg[m] = "unsent")
    /\ msg'[m] = "done" => msg[m] = "done" \/ row' = [row EXCEPT ![m[2]] = started]
    /\ msg'[m] = "cleared" => msg[m] = "cleared" \/ m[1] \in latchVeto
    /\ msg'[m] = "ready" /\ m \in behind'
         => (msg[m] = "ready" /\ m \in behind) \/ m \in owed' \/ m[1] \in latchVeto
    /\ Pending(m) => \/ Pending(m)' \/ msg'[m] = "dlq" \/ m \in flagged' \/ m \in forgotten'
                     \/ row' = [row EXCEPT ![m[2]] = started] \/ msg[m] \in {"done", "cleared"}
    /\ msg[m] = "dlq" => msg'[m] = "dlq" \/ m[1] \in latchVeto

\* Being pending, spelled out for the state after a step.
LEMMA PendingNext == \A m \in Deliveries : Pending(m)' <=> (msg'[m] = "held" \/ m \in ghosts' \/ m \in owed')
  BY DEF Pending, Held

LEMMA PendingNow == \A m \in Deliveries : Pending(m) <=> (msg[m] = "held" \/ m \in ghosts \/ m \in owed)
  BY DEF Pending, Held

\* Each step of a delivery is such a move.
LEMMA RecordStepEffect ==
    ASSUME Types, started \in Dumps \cup {0}, DeliveriesArePublished, NEW m \in Deliveries, RecordStep(m)
    PROVE  Types' /\ RecordFrame(m) /\ RecordMove(m)
<1>0. /\ row \in [Records -> Dumps \cup {0, Absent}] /\ msg \in [Deliveries -> MsgStates] /\ dlqNacks \in BOOLEAN
      /\ flagged \subseteq Deliveries /\ forgotten \subseteq Deliveries
      /\ m[1] \in Dumps /\ m[2] \in Records
      /\ behind \subseteq Deliveries /\ ghosts \subseteq Deliveries /\ owed \subseteq Deliveries
  BY DeliveryParts DEF Types
<1>1. msg[m] # "unsent" \/ m \in ghosts => Published(m)
  BY DEF DeliveriesArePublished
<1>w. [row EXCEPT ![m[2]] = started] \in [Records -> Dumps \cup {0, Absent}]
  BY <1>0
\* The frame, from what happens to msg and the three sets.
<1>2. ASSUME NEW p \in MsgStates, msg' = [msg EXCEPT ![m] = p] PROVE
        msg' \in [Deliveries -> MsgStates] /\ msg'[m] = p /\ \A n \in Deliveries \ {m} : msg'[n] = msg[n]
  BY <1>0, <1>2
<1>s. {"held", "dlq", "done", "ready", "cleared"} \subseteq MsgStates
  BY DEF MsgStates
<1>3. CASE Deliver(m)
  <2>1. msg' \in [Deliveries -> MsgStates] /\ msg'[m] = "held" /\ \A n \in Deliveries \ {m} : msg'[n] = msg[n]
    BY <1>2, <1>3, <1>s DEF Deliver
  <2>2. Types'
    BY <1>3, <2>1 DEF Deliver, Types, latchVars, known, notes
  <2>3. RecordFrame(m)
    BY <1>3, <2>1 DEF Deliver, RecordFrame, latchVars, known, notes
  <2>4. RecordMove(m)
    BY <1>1, <1>3, <2>1, PendingNext DEF Deliver, RecordMove
  <2> QED
    BY <2>2, <2>3, <2>4
<1>4. CASE RejectInput(m)
  <2>1. msg' \in [Deliveries -> MsgStates] /\ msg'[m] = "dlq" /\ \A n \in Deliveries \ {m} : msg'[n] = msg[n]
    BY <1>2, <1>4, <1>s DEF RejectInput
  <2>2. Types'
    BY <1>0, <1>4, <2>1 DEF RejectInput, Types, latchVars, known, notes
  <2>0. dlqNacks => dlqNacks'
    BY <1>4, Zenon DEF RejectInput
  <2>3. RecordFrame(m)
    BY <1>4, <2>0, <2>1 DEF RejectInput, RecordFrame, latchVars, known, notes
  <2>4. RecordMove(m)
    BY <1>1, <1>4, <2>1 DEF RejectInput, RecordMove
  <2> QED
    BY <2>2, <2>3, <2>4
<1>5. CASE WriteRecord(m)
  <2>1. msg' \in [Deliveries -> MsgStates] /\ msg'[m] = "done" /\ \A n \in Deliveries \ {m} : msg'[n] = msg[n]
    BY <1>2, <1>5, <1>s DEF WriteRecord
  <2>2. Types'
    BY <1>5, <1>w, <2>1 DEF WriteRecord, Types, latchVars, known, notes
  <2>3. RecordFrame(m)
    BY <1>5, <2>1 DEF WriteRecord, RecordFrame, latchVars, known, notes
  <2>4. RecordMove(m)
    BY <1>1, <1>5, <2>1 DEF WriteRecord, RecordMove
  <2> QED
    BY <2>2, <2>3, <2>4
<1>6. CASE DeadLetter(m)
  <2>1. msg' \in [Deliveries -> MsgStates] /\ msg'[m] = "dlq" /\ \A n \in Deliveries \ {m} : msg'[n] = msg[n]
    BY <1>2, <1>6, <1>s DEF DeadLetter
  <2>2. Types'
    BY <1>6, <2>1 DEF DeadLetter, Types, latchVars, known, notes
  <2>3. RecordFrame(m)
    BY <1>6, <2>1 DEF DeadLetter, RecordFrame, latchVars, known, notes
  <2>4. RecordMove(m)
    BY <1>1, <1>6, <2>1 DEF DeadLetter, RecordMove
  <2> QED
    BY <2>2, <2>3, <2>4
<1>7. CASE HoldTimesOut(m)
  <2>1. msg' \in [Deliveries -> MsgStates] /\ msg'[m] = "ready" /\ \A n \in Deliveries \ {m} : msg'[n] = msg[n]
    BY <1>2, <1>7, <1>s DEF HoldTimesOut
  <2>2. Types'
    BY <1>7, <2>1 DEF HoldTimesOut, Types, latchVars, known, notes
  <2>3. RecordFrame(m)
    BY <1>7, <2>1 DEF HoldTimesOut, RecordFrame, latchVars, known, notes
  <2>4. RecordMove(m)
    BY <1>1, <1>7, <2>1, PendingNext DEF HoldTimesOut, RecordMove
  <2> QED
    BY <2>2, <2>3, <2>4
<1>8. CASE SettleGhost(m)
  <2>1. /\ m \in ghosts /\ ghosts' = ghosts \ {m} /\ UNCHANGED <<started, fixed, declared, msg, behind, owed>>
        /\ UNCHANGED <<marker, handler, latchVars, faults>>
    BY <1>8 DEF SettleGhost, known
  <2>2. \/ row' = [row EXCEPT ![m[2]] = started] /\ UNCHANGED <<dlqNacks, flagged, forgotten>>
        \/ dlqNacks' = TRUE /\ flagged' = flagged \cup {m} /\ UNCHANGED <<row, forgotten>>
        \/ forgotten' = forgotten \cup {m} /\ UNCHANGED <<row, dlqNacks, flagged>>
        \/ forgotten' = forgotten /\ msg[m] # "ready" /\ UNCHANGED <<row, dlqNacks, flagged>>
    BY <1>8 DEF SettleGhost, notes
  <2>3. Types'
    BY <1>0, <1>w, <2>1, <2>2 DEF Types, latchVars
  <2>4. RecordFrame(m)
    BY <2>1, <2>2 DEF RecordFrame
  <2>5. Published(m) /\ msg[m] \in {"ready", "held", "dlq", "cleared", "done"}
    BY <1>0, <1>1, <2>1 DEF MsgStates, DeliveriesArePublished
  <2>6. RecordMove(m)
    BY <2>1, <2>2, <2>5, PendingNext DEF RecordMove
  <2> QED
    BY <2>3, <2>4, <2>6
<1>9. CASE OperatorClears(m)
  <2>1. PICK p \in {"cleared", "ready"} : msg' = [msg EXCEPT ![m] = p]
    BY <1>9 DEF OperatorClears
  <2>2. msg' \in [Deliveries -> MsgStates] /\ msg'[m] = p /\ \A n \in Deliveries \ {m} : msg'[n] = msg[n]
    BY <1>2, <1>s, <2>1
  <2>3. behind' \subseteq behind \cup {m} /\ behind \subseteq behind' /\ msg[m] = "dlq" /\ m[1] \in latchVeto
        /\ (faults' = faults \/ Fault)
        /\ UNCHANGED <<started, fixed, declared, row, ghosts, owed, dlqNacks, flagged, forgotten>>
        /\ UNCHANGED <<marker, handler, latchVars>>
    BY <1>9 DEF OperatorClears, known, notes
  <2>4. Types'
    BY <1>0, <2>2, <2>3 DEF Types, latchVars
  <2>5. RecordFrame(m)
    BY <2>2, <2>3 DEF RecordFrame
  <2>6. RecordMove(m)
    BY <1>1, <2>2, <2>3, PendingNow, PendingNext DEF RecordMove
  <2> QED
    BY <2>4, <2>5, <2>6
<1> QED
  BY <1>3, <1>4, <1>5, <1>6, <1>7, <1>8, <1>9 DEF RecordStep

\* A delivered marker is out, with the one handler that took it.
LEMMA DeliverMarkerEffect ==
    ASSUME Types, OutInv, NEW h \in Handlers, NEW d \in Dumps, DeliverMarker(h, d)
    PROVE  /\ Types' /\ OutInv'
           /\ UNCHANGED <<started, fixed, declared, row, recordVars, notes, latchVars, faults>>
           /\ handler'[h].phase = "flushing" /\ handler'[h].dump = d /\ ~handler'[h].vetoed /\ handler'[h].alive
           /\ \A x \in Handlers : x # h => handler'[x] = handler[x]
           /\ \A e \in Dumps : IF e = d THEN marker'[e] = "out" ELSE marker'[e] = marker[e]
           /\ marker[d] \in {"ready", "back"}
           /\ \A x \in Handlers : handler[x].alive => handler[x].dump # d
<1>1. /\ handler \in [Handlers -> HandlerStates] /\ marker \in [Dumps -> MarkerStates]
      /\ handler[h] = Free /\ marker[d] \in {"ready", "back"}
  BY DEF Types, DeliverMarker
<1>2. /\ handler' \in [Handlers -> HandlerStates]
      /\ handler'[h].phase = "flushing" /\ handler'[h].dump = d /\ ~handler'[h].vetoed /\ handler'[h].alive
      /\ \A x \in Handlers : x # h => handler'[x] = handler[x]
  BY <1>1 DEF DeliverMarker, HandlerStates, Phases
<1>3. /\ marker' \in [Dumps -> MarkerStates]
      /\ \A e \in Dumps : IF e = d THEN marker'[e] = "out" ELSE marker'[e] = marker[e]
  BY <1>1 DEF DeliverMarker, MarkerStates
<1>4. Types'
  BY <1>2, <1>3 DEF Types, DeliverMarker, recordVars, latchVars, known, notes
<1>5. \A x \in Handlers : handler[x].alive => handler[x].dump # d
  BY <1>1 DEF OutInv
<1>6. ASSUME NEW e \in Dumps
      PROVE  marker'[e] = "out" <=> \E x \in Handlers : handler'[x].dump = e /\ handler'[x].alive
  <2>1. CASE e = d
    BY <1>2, <1>3, <2>1
  <2>2. CASE e # d
    <3>1. (\E x \in Handlers : handler'[x].dump = e /\ handler'[x].alive)
            <=> \E x \in Handlers : handler[x].dump = e /\ handler[x].alive
      BY <1>1, <1>2, <2>2, FreeType
    <3> QED
      BY <1>3, <2>2, <3>1 DEF OutInv
  <2> QED
    BY <2>1, <2>2
<1>7. OutInv'
  BY <1>6 DEF OutInv
<1> QED
  BY <1>1, <1>2, <1>3, <1>4, <1>5, <1>7 DEF DeliverMarker, known

\* What both outages of the channel do: what was held is ready or dead-lettered, no handler has a
\* live channel and no marker is out.
TakenBack ==
    /\ UNCHANGED <<started, fixed, row, behind, latchVars>> /\ Fault
    /\ \A m \in Deliveries : IF msg[m] = "held" THEN msg'[m] \in {"dlq", "ready"} ELSE msg'[m] = msg[m]
    /\ \A d \in Dumps : marker'[d] \in {"done", "unlatched", "unsent"} => marker'[d] = marker[d]
    /\ \A d \in Dumps : marker'[d] # "unsent" => marker[d] # "unsent"
    /\ \A x \in Handlers : ~handler'[x].alive

LEMMA ConnectionLostEffect ==
    ASSUME Types, OutInv, ConnectionLost
    PROVE  /\ Types' /\ OutInv' /\ TakenBack /\ ghosts' = ghosts \cup Held /\ owed' = owed
           /\ UNCHANGED <<declared, notes>>
           /\ \A x \in Handlers : /\ handler'[x].phase = handler[x].phase /\ handler'[x].dump = handler[x].dump
                                  /\ handler'[x].vetoed = handler[x].vetoed
                                  /\ (handler[x] = Free => handler'[x] = Free)
<1>1. PICK limit \in SUBSET Held : msg' = Returned(limit)
  BY DEF ConnectionLost
<1>2. handler \in [Handlers -> HandlerStates] /\ Held \subseteq Deliveries
  BY DEF Types, Held
<1>3. \A x \in Handlers : /\ handler'[x] \in HandlerStates /\ ~handler'[x].alive
                          /\ handler'[x].phase = handler[x].phase /\ handler'[x].dump = handler[x].dump
                          /\ handler'[x].vetoed = handler[x].vetoed
  BY <1>2 DEF ConnectionLost, HandlerStates
<1>4. \A x \in Handlers : handler[x] = Free => handler'[x] = Free
  <2>1. \A s \in HandlerStates : ~s.alive => [s EXCEPT !.alive = FALSE] = s
    BY DEF HandlerStates
  <2> QED
    BY <2>1, FreeType DEF ConnectionLost
<1>5. handler' \in [Handlers -> HandlerStates]
  BY <1>3 DEF ConnectionLost
<1>6. Types'
  BY <1>1, <1>2, <1>5, BrokerTakesBack DEF Types, ConnectionLost, latchVars, known, notes
<1>7. \A d \in Dumps : marker'[d] # "out"
  BY BrokerTakesBack DEF ConnectionLost
<1>8. OutInv'
  BY <1>3, <1>7 DEF OutInv
<1>9. \A d \in Dumps : /\ marker'[d] \in {"done", "unlatched", "unsent"} => marker'[d] = marker[d]
                       /\ marker'[d] # "unsent" => marker[d] # "unsent"
  BY BrokerTakesBack DEF ConnectionLost
<1>10. \A m \in Deliveries : IF msg[m] = "held" THEN msg'[m] \in {"dlq", "ready"} ELSE msg'[m] = msg[m]
  BY <1>1, BrokerTakesBack
<1>11. TakenBack
  BY <1>3, <1>9, <1>10 DEF TakenBack, ConnectionLost, known
<1> QED
  BY <1>3, <1>4, <1>6, <1>8, <1>11 DEF ConnectionLost, known

LEMMA RestartEffect ==
    ASSUME Types, OutInv, Restart
    PROVE  /\ Types' /\ OutInv' /\ TakenBack /\ ghosts' = {} /\ owed' = {} /\ flagged' = {}
           /\ \A x \in Handlers : handler'[x] = Free
           /\ forgotten \subseteq forgotten'
           /\ \A m \in behind : msg'[m] = "ready" => m[1] \in latchVeto \/ m \in forgotten'
<1>1. PICK limit \in SUBSET Held : msg' = Returned(limit)
  BY DEF Restart
<1>2. handler' \in [Handlers -> HandlerStates] /\ \A x \in Handlers : handler'[x] = Free
  BY FreeType DEF Restart
<1>b. behind \subseteq Deliveries /\ forgotten \subseteq Deliveries
  BY DEF Types
<1>n. /\ forgotten' \subseteq Deliveries /\ forgotten \subseteq forgotten'
      /\ \A m \in behind : msg'[m] = "ready" => m[1] \in latchVeto \/ m \in forgotten'
  BY <1>b DEF Restart
<1>d. declared' \in BOOLEAN
  BY DEF Restart, Probe
<1>3. Types'
  BY <1>1, <1>2, <1>d, <1>n, BrokerTakesBack DEF Types, Restart, latchVars
<1>4. \A d \in Dumps : marker'[d] # "out"
  BY BrokerTakesBack DEF Restart
<1>5. OutInv'
  BY <1>2, <1>4, FreeType DEF OutInv
<1>6. \A d \in Dumps : /\ marker'[d] \in {"done", "unlatched", "unsent"} => marker'[d] = marker[d]
                       /\ marker'[d] # "unsent" => marker[d] # "unsent"
  BY BrokerTakesBack DEF Restart
<1>7. \A m \in Deliveries : IF msg[m] = "held" THEN msg'[m] \in {"dlq", "ready"} ELSE msg'[m] = msg[m]
  BY <1>1, BrokerTakesBack
<1>8. TakenBack
  BY <1>2, <1>6, <1>7, FreeType DEF TakenBack, Restart
<1> QED
  BY <1>2, <1>3, <1>5, <1>8, <1>n DEF Restart

-----------------------------------------------------------------------------
(* What holds in every behaviour                                           *)

\* The clauses of TypeOK about what was chosen at the start follow from the others.
LEMMA TypeKept ==
    ASSUME TypeOK, Types', OutInv', UNCHANGED <<started, fixed>>, faults' = faults \/ Fault
    PROVE  TypeOK'
<1>1. limits.faults \in Nat /\ faults \in 0..limits.faults
  BY LimitParts DEF TypeOK
<1>2. faults' \in 0..limits.faults
  BY <1>1 DEF Fault
<1> QED
  BY <1>2, TypeParts DEF fixed, TypeOK, Types, OutInv

\* Handlers that stay, are freed or move on keep apart.
LEMMA DistinctKept ==
    ASSUME HandlersAreDistinct, started' = started,
           \A x \in Handlers :
             \/ handler'[x] = Free
             \/ /\ handler'[x].dump = handler[x].dump /\ (handler'[x].alive => handler[x].alive)
                /\ \/ handler[x].phase # "free" /\ handler'[x].phase # "free"
                   \/ handler'[x] = handler[x]
    PROVE  HandlersAreDistinct'
<1>1. ASSUME NEW x \in Handlers
      PROVE  /\ handler'[x].phase = "free" => handler'[x] = Free
             /\ handler'[x].phase # "free" => handler'[x].dump \in Dumps /\ handler'[x].dump <= started'
  BY FreeType DEF HandlersAreDistinct
<1>2. ASSUME NEW x \in Handlers, NEW g \in Handlers, handler'[x].alive, handler'[g].alive,
             handler'[g].dump = handler'[x].dump
      PROVE  g = x
  <2>1. /\ handler[x].alive /\ handler'[x].dump = handler[x].dump
        /\ handler[g].alive /\ handler'[g].dump = handler[g].dump
    BY <1>2, FreeType
  <2> QED
    BY <1>2, <2>1 DEF HandlersAreDistinct
<1> QED
  BY <1>1, <1>2 DEF HandlersAreDistinct

\* An acked record keeps its row until a purge of a later dump takes it.
LEMMA AckedKept ==
    ASSUME BaseInv, started' = started, dump' = dump,
           \A n \in Deliveries : msg'[n] = "done" => msg[n] = "done" \/ row'[n[2]] = started,
           \A n \in Deliveries : msg'[n] # "unsent" => msg[n] # "unsent",
           \A r \in Records : \/ row'[r] = row[r] \/ row'[r] = started
                              \/ \E e \in Dumps : e <= started /\ row'[r] = Absent /\ row[r] # Absent /\ row[r] < e
    PROVE  AckedRecordIsWritten'
<1> SUFFICES ASSUME NEW n \in Deliveries, msg'[n] = "done"
             PROVE  \/ row'[n[2]] # Absent /\ row'[n[2]] >= n[1]
                    \/ row'[n[2]] = Absent /\ \E e \in Dumps : e > n[1] /\ e <= started
  BY DEF AckedRecordIsWritten
<1>1. /\ n[1] \in Dumps /\ n[2] \in Records /\ n[1] <= started /\ started \in Dumps \cup {0}
      /\ row \in [Records -> Dumps \cup {0, Absent}]
  BY DeliveryParts DEF BaseInv, TypeOK, DeliveriesArePublished, Published
<1>2. CASE row'[n[2]] = started
  BY <1>1, <1>2, DumpNumbers
<1>3. CASE row'[n[2]] # started
  <2>1. \/ row[n[2]] # Absent /\ row[n[2]] >= n[1]
        \/ row[n[2]] = Absent /\ \E e \in Dumps : e > n[1] /\ e <= started
    BY <1>3 DEF BaseInv, AckedRecordIsWritten
  <2>2. row[n[2]] \in Nat /\ n[1] \in Nat
    BY <1>1, DumpNumbers
  <2>3. CASE row'[n[2]] = row[n[2]]
    BY <2>1, <2>3
  <2>4. CASE row'[n[2]] # row[n[2]]
    <3>1. PICK e \in Dumps : e <= started /\ row'[n[2]] = Absent /\ row[n[2]] # Absent /\ row[n[2]] < e
      BY <1>1, <1>3, <2>4
    <3>2. e > n[1]
      BY <2>1, <2>2, <3>1, DumpNumbers
    <3> QED
      BY <3>1, <3>2
  <2> QED
    BY <2>3, <2>4
<1> QED
  BY <1>2, <1>3

\* Markers that stay or go back, and deliveries that stay published, leave the rest of BaseInv.
LEMMA PublishedKept ==
    ASSUME DeliveriesArePublished, started' = started, UNCHANGED fixed,
           \A d \in Dumps : marker'[d] # "unsent" => marker[d] # "unsent",
           \A n \in Deliveries : msg'[n] = "unsent" <=> msg[n] = "unsent",
           \A n \in behind' \cup ghosts' \cup owed' : \/ n \in Deliveries /\ msg[n] # "unsent"
                                                      \/ n \in behind \cup ghosts \cup owed
    PROVE  DeliveriesArePublished'
  BY DEF DeliveriesArePublished, Published, fixed

\* A started extraction is within its limit, and only its own deliveries and marker are new.
LEMMA StartDumpEffect ==
    ASSUME BaseInv, StartDump
    PROVE  /\ BaseInv' /\ started < started' /\ UNCHANGED <<fixed, declared, row, behind, ghosts, owed>>
           /\ UNCHANGED <<notes, handler, latchVars>>
           /\ \A n \in Deliveries : n[1] <= started => msg'[n] = msg[n]
           /\ \A n \in Deliveries : msg'[n] \in {msg[n], "ready"}
           /\ \A d \in Dumps : marker'[d] = "done" => marker[d] = "done"
<1> DEFINE d == started + 1
<1>0. /\ TypeOK /\ Types /\ OutInv /\ DeliveriesArePublished /\ HandlersAreDistinct /\ AckedRecordIsWritten
  BY TypeParts DEF BaseInv
<1>1. /\ started \in Nat /\ limits.dumps \in Dumps /\ d \in Dumps /\ started' = d /\ started < d
      /\ dump \in [Dumps -> SUBSET Records]
  BY <1>0, DumpNumbers, LimitParts DEF StartDump, TypeOK
<1>2. /\ msg' \in [Deliveries -> MsgStates]
      /\ \A n \in Deliveries : msg'[n] = IF n[1] = d /\ n[2] \in dump[d] THEN "ready" ELSE msg[n]
  BY <1>0 DEF StartDump, Types, MsgStates
<1>3. /\ marker' \in [Dumps -> MarkerStates] /\ marker'[d] = "ready"
      /\ \A e \in Dumps : e # d => marker'[e] = marker[e]
  BY <1>0, <1>1 DEF StartDump, Types, MarkerStates
<1>4. marker[d] = "unsent"
  BY <1>0, <1>1, DumpNumbers DEF DeliveriesArePublished
<1>5. OutInv'
  BY <1>0, <1>3, <1>4 DEF OutInv, StartDump
<1>6. TypeOK'
  BY <1>0, <1>1, <1>2, <1>3, <1>5, TypeParts DEF StartDump, Types, TypeOK, OutInv, known, fixed, notes, latchVars
<1>7. HandlersAreDistinct'
  BY <1>0, <1>1, DumpNumbers DEF HandlersAreDistinct, StartDump
<1>8. ASSUME NEW n \in Deliveries PROVE n[1] <= d <=> (n[1] <= started \/ n[1] = d)
  BY <1>1, DeliveryParts, DumpNumbers
<1>9. DeliveriesArePublished'
  <2>1. started' <= limits'.dumps /\ dump' = dump
    BY <1>1 DEF StartDump, known, fixed
  <2>2. \A e \in Dumps : marker'[e] # "unsent" => e <= started'
    BY <1>0, <1>1, <1>3, DumpNumbers DEF DeliveriesArePublished
  <2>3. ASSUME NEW n \in Deliveries PROVE msg'[n] # "unsent" <=> (n[1] <= d /\ n[2] \in dump[n[1]])
    <3>1. n[1] = d => ~(n[1] <= started)
      BY <1>1
    <3> QED
      BY <1>0, <1>2, <1>8, <3>1 DEF DeliveriesArePublished, Published
  <2>4. \A n \in behind \cup ghosts \cup owed : n \in Deliveries /\ n[1] <= d /\ n[2] \in dump[n[1]]
    BY <1>0, <1>8 DEF DeliveriesArePublished, Published, Types
  <2> QED
    BY <1>1, <2>1, <2>2, <2>3, <2>4 DEF DeliveriesArePublished, Published, StartDump
<1>10. AckedRecordIsWritten'
  <2>1. \A n \in Deliveries : msg'[n] = "done" => msg[n] = "done"
    BY <1>2
  <2>2. \A e \in Dumps : e <= started => e <= started'
    BY <1>1, DumpNumbers
  <2> QED
    BY <1>0, <2>1, <2>2 DEF AckedRecordIsWritten, StartDump
<1>11. \A n \in Deliveries : n[1] <= started => n[1] # d
  BY <1>1
<1> QED
  BY <1>1, <1>2, <1>3, <1>6, <1>7, <1>9, <1>10, <1>11 DEF BaseInv, StartDump, known

\* Every step keeps BaseInv.
LEMMA BaseStep ==
    ASSUME BaseInv, [Next]_vars
    PROVE  BaseInv'
<1>0. /\ TypeOK /\ Types /\ OutInv /\ DeliveriesArePublished /\ HandlersAreDistinct /\ AckedRecordIsWritten
      /\ started \in Dumps \cup {0}
  BY TypeParts DEF BaseInv, TypeOK
<1>1. CASE UNCHANGED vars
  BY <1>1 DEF BaseInv, vars, known, fixed, notes, recordVars, latchVars, TypeOK, DeliveriesArePublished, Published,
              HandlersAreDistinct, AckedRecordIsWritten
<1>2. CASE StartDump
  BY <1>2, StartDumpEffect
<1>3. ASSUME NEW m \in Deliveries, RecordStep(m) PROVE BaseInv'
  <2>1. Types' /\ RecordFrame(m) /\ RecordMove(m)
    BY <1>0, <1>3, RecordStepEffect
  <2>2. OutInv'
    BY <1>0, <2>1, OutKept DEF RecordFrame
  <2>3. TypeOK'
    BY <1>0, <2>1, <2>2, TypeKept DEF RecordFrame
  <2>4. HandlersAreDistinct'
    BY <1>0, <2>1, DistinctKept DEF RecordFrame
  <2>5. DeliveriesArePublished'
    <3>1. \A n \in Deliveries : msg'[n] = "unsent" <=> msg[n] = "unsent"
      BY <2>1 DEF RecordFrame, RecordMove
    <3>2. \A n \in behind' \cup ghosts' \cup owed' : n \in Deliveries
      BY <2>1 DEF Types
    <3>3. \A n \in behind' \cup ghosts' \cup owed' : Published(n)
      BY <1>0, <2>1, <3>2 DEF RecordFrame, RecordMove, DeliveriesArePublished
    <3>4. \A n \in Deliveries : Published(n) => msg[n] # "unsent"
      BY <1>0 DEF DeliveriesArePublished
    <3> QED
      BY <1>0, <2>1, <3>1, <3>2, <3>3, <3>4, PublishedKept DEF RecordFrame
  <2>6. m[2] \in Records /\ row \in [Records -> Dumps \cup {0, Absent}]
    BY <1>0, DeliveryParts DEF Types
  <2>7. \A r \in Records : row'[r] = row[r] \/ row'[r] = started
    BY <2>1, <2>6 DEF RecordFrame
  <2>8. \A n \in Deliveries : msg'[n] = "done" => msg[n] = "done" \/ row'[n[2]] = started
    BY <2>1, <2>6 DEF RecordFrame, RecordMove
  <2>9. \A n \in Deliveries : msg'[n] # "unsent" => msg[n] # "unsent"
    BY <2>1 DEF RecordFrame, RecordMove
  <2>10. AckedRecordIsWritten'
    BY <2>1, <2>7, <2>8, <2>9, AckedKept DEF RecordFrame, fixed
  <2> QED
    BY <2>3, <2>4, <2>5, <2>10 DEF BaseInv
<1>4. ASSUME NEW h \in Handlers, NEW d \in Dumps, DeliverMarker(h, d) PROVE BaseInv'
  <2>1. /\ Types' /\ OutInv'
        /\ UNCHANGED <<started, fixed, row, recordVars, latchVars, faults>>
        /\ handler'[h].phase = "flushing" /\ handler'[h].dump = d
        /\ \A x \in Handlers : x # h => handler'[x] = handler[x]
        /\ \A e \in Dumps : IF e = d THEN marker'[e] = "out" ELSE marker'[e] = marker[e]
        /\ marker[d] \in {"ready", "back"}
        /\ \A x \in Handlers : handler[x].alive => handler[x].dump # d
    BY <1>0, <1>4, DeliverMarkerEffect
  <2>2. TypeOK'
    BY <1>0, <2>1, TypeKept
  <2>3. d <= started
    BY <1>0, <2>1 DEF DeliveriesArePublished
  <2>4. HandlersAreDistinct'
    BY <1>0, <2>1, <2>3 DEF HandlersAreDistinct
  <2>5. DeliveriesArePublished'
    BY <1>0, <2>1, PublishedKept DEF recordVars
  <2>6. AckedRecordIsWritten'
    BY <1>0, <2>1 DEF AckedRecordIsWritten, recordVars
  <2> QED
    BY <2>2, <2>4, <2>5, <2>6 DEF BaseInv
<1>5. ASSUME NEW h \in Handlers, HandlerStep(h), \A d \in Dumps : ~DeliverMarker(h, d) PROVE BaseInv'
  <2>1. Types' /\ OutInv' /\ HandlerMove(h) /\ HandlerFrame(h)
    BY <1>0, <1>5, HandlerStepEffect
  <2>2. TypeOK'
    BY <1>0, <2>1, TypeKept DEF HandlerFrame
  <2>3. HandlersAreDistinct'
    BY <1>0, <1>5, <2>1, DistinctKept DEF HandlerFrame, HandlerMove
  <2>4. \A d \in Dumps : marker'[d] # "unsent" => marker[d] # "unsent"
    <3>1. handler[h].phase = "acking" /\ handler[h].alive => marker[handler[h].dump] = "out"
      BY <1>0 DEF OutInv, HandlersAreDistinct
    <3>2. handler[h].alive \/ marker' = marker
      BY <1>5 DEF HandlerStep, FlushQueue, ReadDeadLetters, ReadLatch, PersistVeto, PurgeStaleRows,
                  RecordSignal, AckMarker, NackMarker
    <3>3. \A d \in Dumps : handler[h].alive /\ handler[h].dump = d => marker[d] = "out"
      BY <1>0 DEF OutInv
    <3> QED
      BY <2>1, <3>2, <3>3 DEF HandlerFrame
  <2>5. DeliveriesArePublished'
    BY <1>0, <2>1, <2>4, PublishedKept DEF HandlerFrame, recordVars
  <2>6. row \in [Records -> Dumps \cup {0, Absent}]
    BY <1>0 DEF Types
  <2>7. \A r \in Records : \/ row'[r] = row[r]
                           \/ \E e \in Dumps : e <= started /\ row'[r] = Absent /\ row[r] # Absent /\ row[r] < e
    <3>1. handler[h].phase = "purging" => handler[h].dump \in Dumps /\ handler[h].dump <= started
      BY <1>0 DEF HandlersAreDistinct
    <3> QED
      BY <2>1, <2>6, <3>1, PurgedRows DEF HandlerFrame
  <2>8. AckedRecordIsWritten'
    BY <2>1, <2>7, AckedKept DEF HandlerFrame, recordVars, fixed
  <2> QED
    BY <2>2, <2>3, <2>5, <2>8 DEF BaseInv
\* Both outages of the channel.
<1>6. ASSUME Types', OutInv', TakenBack, ghosts' \subseteq ghosts \cup Held, owed' \subseteq owed,
             \A x \in Handlers : \/ handler'[x] = Free
                                 \/ /\ handler'[x].dump = handler[x].dump
                                    /\ handler[x].phase # "free" /\ handler'[x].phase # "free"
      PROVE  BaseInv'
  <2>1. TypeOK'
    BY <1>0, <1>6, TypeKept DEF TakenBack
  <2>2. HandlersAreDistinct'
    <3>1. \A x \in Handlers : ~handler'[x].alive
      BY <1>6 DEF TakenBack
    <3> QED
      BY <1>0, <1>6, <3>1, DistinctKept DEF TakenBack
  <2>3. \A n \in Deliveries : msg'[n] = "unsent" <=> msg[n] = "unsent"
    BY <1>6 DEF TakenBack
  <2>4. DeliveriesArePublished'
    BY <1>0, <1>6, <2>3, PublishedKept DEF TakenBack, Held
  <2>5. \A n \in Deliveries : msg'[n] = "done" => msg[n] = "done"
    BY <1>6 DEF TakenBack
  <2>6. AckedRecordIsWritten'
    BY <1>0, <1>6, <2>5 DEF AckedRecordIsWritten, TakenBack
  <2> QED
    BY <2>1, <2>2, <2>4, <2>6 DEF BaseInv
<1>7. CASE ConnectionLost
  BY <1>0, <1>6, <1>7, ConnectionLostEffect DEF HandlersAreDistinct
<1>8. CASE Restart
  BY <1>0, <1>6, <1>8, RestartEffect
<1> QED
  BY <1>1, <1>2, <1>3, <1>4, <1>5, <1>7, <1>8 DEF Next

\* Nothing has been published yet.
LEMMA BaseInit == Init => BaseInv
<1> SUFFICES ASSUME Init PROVE BaseInv
  OBVIOUS
<1>1. \A h \in Handlers : handler[h] = Free
  BY DEF Init
<1>2. Types
  BY <1>1, FreeType DEF Init, Types, MsgStates, MarkerStates, Probe
<1>3. OutInv
  BY <1>1, FreeType DEF Init, OutInv
<1>4. faults \in 0..limits.faults
  BY LimitParts DEF Init
<1>5. TypeOK
  BY <1>2, <1>3, <1>4, TypeParts DEF Init
<1>6. HandlersAreDistinct
  BY <1>1, FreeType DEF HandlersAreDistinct
<1>7. DeliveriesArePublished
  <2>1. \A m \in Deliveries : ~Published(m)
    BY DeliveryParts, DumpNumbers DEF Init, Published
  <2>2. started <= limits.dumps
    BY LimitParts, DumpNumbers DEF Init
  <2> QED
    BY <2>1, <2>2 DEF Init, DeliveriesArePublished
<1>8. AckedRecordIsWritten
  BY DEF Init, AckedRecordIsWritten
<1> QED
  BY <1>5, <1>6, <1>7, <1>8 DEF BaseInv

\* BaseInv holds in every reachable state, whatever outages are combined.
THEOREM BaseInvariant == Spec => []BaseInv
<1>1. BaseInv /\ [Next]_vars => BaseInv'
  BY BaseStep
<1> QED
  BY <1>1, BaseInit, PTL DEF Spec

\* The variables keep their types, and a marker is out exactly while a live handler has it.
THEOREM PurgeTypes == Spec => []TypeOK
<1>1. BaseInv => TypeOK
  BY DEF BaseInv
<1> QED
  BY <1>1, BaseInvariant, PTL

\* Whatever outages are combined and however dumps overlap, an acked record is in its table, as
\* of its own dump or a later one, unless a later dump's purge took it.
THEOREM NoAckWithoutRow == Spec => []AckedRecordIsWritten
<1>1. BaseInv => AckedRecordIsWritten
  BY DEF BaseInv
<1> QED
  BY <1>1, BaseInvariant, PTL

-----------------------------------------------------------------------------
(* What spares the dump                                                    *)

\* Rows are rewritten in the newest dump or deleted, and vetoes stay.
LEMMA StableParts ==
    ASSUME BaseInv, [Next]_vars
    PROVE  /\ \A r \in Records : row'[r] \in {row[r], started, Absent}
           /\ latchVeto \subseteq latchVeto' /\ dump' = dump
           /\ forgotten \subseteq forgotten' /\ (~Restart => declared' = declared)
<1>0. /\ Types /\ OutInv /\ DeliveriesArePublished /\ HandlersAreDistinct /\ started \in Dumps \cup {0}
      /\ row \in [Records -> Dumps \cup {0, Absent}]
  BY TypeParts DEF BaseInv, TypeOK
<1>1. CASE UNCHANGED vars
  BY <1>1 DEF vars, known, fixed, notes, latchVars
<1>2. CASE StartDump \/ ConnectionLost \/ Restart
  BY <1>2 DEF StartDump, ConnectionLost, Restart, known, fixed, notes, latchVars
<1>3. ASSUME NEW m \in Deliveries, RecordStep(m)
      PROVE  /\ UNCHANGED <<latchVeto, dump, declared>> /\ forgotten \subseteq forgotten'
             /\ \A r \in Records : row'[r] \in {row[r], started, Absent}
  <2>1. RecordFrame(m) /\ m[2] \in Records
    BY <1>0, <1>3, RecordStepEffect, DeliveryParts
  <2> QED
    BY <1>0, <2>1 DEF RecordFrame, fixed, latchVars
<1>4. ASSUME NEW h \in Handlers, NEW d \in Dumps, DeliverMarker(h, d)
      PROVE  UNCHANGED <<latchVeto, dump, declared, forgotten, row>>
  BY <1>4 DEF DeliverMarker, known, fixed, notes, latchVars
<1>5. ASSUME NEW h \in Handlers, HandlerStep(h)
      PROVE  /\ \A r \in Records : row'[r] \in {row[r], started, Absent}
             /\ latchVeto \subseteq latchVeto' /\ dump' = dump /\ declared' = declared
             /\ forgotten \subseteq forgotten'
  <2>1. HandlerFrame(h)
    BY <1>0, <1>5, HandlerStepEffect
  <2>2. forgotten \subseteq forgotten'
    BY <2>1 DEF HandlerFrame, Spent, notes
  <2> QED
    BY <1>0, <2>1, <2>2, PurgedRows DEF HandlerFrame, fixed
<1> QED
  BY <1>1, <1>2, <1>3, <1>4, <1>5 DEF Next

\* A refreshed row stays refreshed for its dump, what is safe stays safe and what is forgotten
\* stays forgotten.
LEMMA RefreshedIsStable ==
    ASSUME BaseInv, [Next]_vars, NEW m \in Deliveries, Published(m)
    PROVE  /\ Refreshed(m) => Refreshed(m)'
           /\ row'[m[2]] = started => Refreshed(m)'
           /\ Safe(m) => Safe(m)'
           /\ Excused(m) => Excused(m)'
           /\ ~Restart => (Purgeable(m) => Purgeable(m)')
<1>1. /\ m[1] \in Dumps /\ m[2] \in Records /\ m[1] <= started /\ started \in Dumps \cup {0}
      /\ row[m[2]] \in Dumps \cup {0, Absent}
  BY DeliveryParts DEF BaseInv, TypeOK, Published
<1>2. /\ row'[m[2]] \in {row[m[2]], started, Absent} /\ latchVeto \subseteq latchVeto'
      /\ forgotten \subseteq forgotten' /\ (~Restart => declared' = declared)
  BY <1>1, StableParts
<1>3. Refreshed(m) => Refreshed(m)'
  BY <1>1, <1>2, DumpNumbers DEF Refreshed
<1>4. row'[m[2]] = started => Refreshed(m)'
  BY <1>1, DumpNumbers DEF Refreshed
<1> QED
  BY <1>2, <1>3, <1>4 DEF Safe, Excused, Purgeable

\* What the engine counts as pending is still pending, written, noted or forgotten after a step,
\* unless the process restarts.
LEMMA PendingIsStable ==
    ASSUME BaseInv, DeliveriesAreAccounted, [Next]_vars, ~Restart,
           NEW m \in Deliveries, Published(m), Pending(m)
    PROVE  Pending(m)' \/ Noted(m)' \/ Excused(m)'
<1>0. /\ Types /\ OutInv /\ DeliveriesArePublished /\ HandlersAreDistinct /\ started \in Dumps \cup {0}
      /\ row \in [Records -> Dumps \cup {0, Absent}] /\ m[2] \in Records /\ m[1] <= started
  BY TypeParts, DeliveryParts DEF BaseInv, TypeOK, Published
<1>p. msg[m] = "held" \/ m \in ghosts \/ m \in owed
  BY PendingNow
<1>1. ASSUME UNCHANGED recordVars PROVE Pending(m)'
  BY <1>1, <1>p, PendingNext DEF recordVars
<1>2. CASE UNCHANGED vars
  BY <1>1, <1>2 DEF vars, recordVars
<1>3. CASE StartDump
  <2>1. msg'[m] = msg[m] /\ UNCHANGED <<ghosts, owed>>
    BY <1>0, <1>3, StartDumpEffect
  <2> QED
    BY <1>p, <2>1, PendingNext
<1>4. ASSUME NEW n \in Deliveries, RecordStep(n) PROVE Pending(m)' \/ Noted(m)' \/ Excused(m)'
  <2>1. RecordFrame(n) /\ RecordMove(n)
    BY <1>0, <1>4, RecordStepEffect
  <2>2. CASE n = m
    <3>1. row' = [row EXCEPT ![m[2]] = started] => row'[m[2]] = started
      BY <1>0
    <3>2. msg[m] \in {"done", "cleared"} => Safe(m)
      BY DEF DeliveriesAreAccounted, Safe
    <3> QED
      BY <2>1, <2>2, <3>1, <3>2, RefreshedIsStable DEF RecordMove, Noted, Excused, Safe
  <2>3. CASE n # m
    BY <1>p, <2>1, <2>3, PendingNext DEF RecordFrame
  <2> QED
    BY <2>2, <2>3
<1>5. ASSUME NEW h \in Handlers, HandlerStep(h) PROVE Pending(m)'
  BY <1>0, <1>1, <1>5, HandlerStepEffect DEF HandlerFrame
<1>6. ASSUME NEW h \in Handlers, NEW d \in Dumps, DeliverMarker(h, d) PROVE Pending(m)'
  BY <1>1, <1>6 DEF DeliverMarker
<1>7. CASE ConnectionLost
  <2>1. ghosts' = ghosts \cup Held /\ owed' = owed
    BY <1>0, <1>7, ConnectionLostEffect
  <2> QED
    BY <1>p, <2>1, PendingNext DEF Held
<1> QED
  BY <1>2, <1>3, <1>4, <1>5, <1>6, <1>7 DEF Next

\* A note stays until a vetoed marker is acked, unless the process restarts: what is not on the
\* latch by then is forgotten.
LEMMA NotedIsStable ==
    ASSUME BaseInv, [Next]_vars, ~Restart, NEW m \in Deliveries, Published(m), Noted(m)
    PROVE  Noted(m)' \/ Excused(m)'
<1>0. /\ Types /\ OutInv /\ DeliveriesArePublished /\ HandlersAreDistinct /\ started \in Dumps \cup {0}
      /\ m[1] \in Dumps /\ m[1] <= started /\ m[2] \in dump[m[1]]
  BY TypeParts, DeliveryParts DEF BaseInv, TypeOK, Published
<1>1. ASSUME msg' = msg, flagged' = flagged PROVE Noted(m)'
  BY <1>1 DEF Noted
<1>2. CASE UNCHANGED vars
  BY <1>1, <1>2 DEF vars, recordVars, notes
<1>3. CASE StartDump
  BY <1>0, <1>3, StartDumpEffect DEF Noted, notes
<1>4. ASSUME NEW n \in Deliveries, RecordStep(n) PROVE Noted(m)' \/ Excused(m)'
  <2>1. RecordFrame(n) /\ RecordMove(n)
    BY <1>0, <1>4, RecordStepEffect
  <2>2. latchVeto' = latchVeto /\ flagged \subseteq flagged'
    BY <2>1 DEF RecordFrame, latchVars
  <2>3. msg[m] = "dlq" => msg'[m] = "dlq" \/ m[1] \in latchVeto
    BY <2>1 DEF RecordFrame, RecordMove
  <2> QED
    BY <2>2, <2>3 DEF Noted, Excused, Safe
<1>5. ASSUME NEW h \in Handlers, HandlerStep(h) PROVE Noted(m)' \/ Excused(m)'
  <2>1. HandlerFrame(h) /\ msg' = msg
    BY <1>0, <1>5, HandlerStepEffect DEF HandlerFrame, recordVars
  <2>2. CASE UNCHANGED notes
    BY <1>1, <2>1, <2>2 DEF notes
  <2>3. CASE Spent
    <3>1. m \in flagged => m[1] \in latchVeto \/ m \in forgotten'
      BY <2>3 DEF Spent
    <3>2. m[1] \in latchVeto => m[1] \in latchVeto'
      BY StableParts
    <3> QED
      BY <2>1, <3>1, <3>2 DEF Noted, Excused, Safe
  <2> QED
    BY <2>1, <2>2, <2>3 DEF HandlerFrame
<1>6. ASSUME NEW h \in Handlers, NEW d \in Dumps, DeliverMarker(h, d) PROVE Noted(m)'
  BY <1>1, <1>6 DEF DeliverMarker, recordVars, notes
<1>7. CASE ConnectionLost
  <2>1. flagged' = flagged /\ TakenBack
    BY <1>0, <1>7, ConnectionLostEffect DEF notes
  <2>2. msg[m] = "dlq" => msg'[m] = "dlq"
    BY <2>1 DEF TakenBack
  <2> QED
    BY <2>1, <2>2 DEF Noted
<1> QED
  BY <1>2, <1>3, <1>4, <1>5, <1>6, <1>7 DEF Next

\* How a delivery gets out of the way: written, vetoed and cleared, or behind its marker but still
\* pending.
LEMMA DeliveryMoves ==
    ASSUME BaseInv, [Next]_vars, NEW m \in Deliveries
    PROVE  /\ msg'[m] = "done" => msg[m] = "done" \/ (Published(m) /\ row'[m[2]] = started)
           /\ msg'[m] = "cleared" => msg[m] = "cleared" \/ m[1] \in latchVeto
           /\ msg'[m] = "ready" /\ m \in behind'
                => (msg[m] = "ready" /\ m \in behind) \/ m[1] \in latchVeto \/ Pending(m)' \/ Restart
<1>0. /\ Types /\ OutInv /\ DeliveriesArePublished /\ HandlersAreDistinct /\ started \in Dumps \cup {0}
      /\ row \in [Records -> Dumps \cup {0, Absent}] /\ m[2] \in Records
  BY TypeParts, DeliveryParts DEF BaseInv, TypeOK
<1> DEFINE Goal == /\ msg'[m] = "done" => msg[m] = "done" \/ (Published(m) /\ row'[m[2]] = started)
                   /\ msg'[m] = "cleared" => msg[m] = "cleared" \/ m[1] \in latchVeto
                   /\ msg'[m] = "ready" /\ m \in behind'
                        => (msg[m] = "ready" /\ m \in behind) \/ m[1] \in latchVeto \/ Pending(m)' \/ Restart
<1>1. ASSUME UNCHANGED recordVars PROVE Goal
  BY <1>1 DEF recordVars
<1>2. CASE UNCHANGED vars
  BY <1>1, <1>2 DEF vars, recordVars
<1>3. CASE StartDump
  <2>1. UNCHANGED <<behind, owed>> /\ (m[1] <= started => msg'[m] = msg[m]) /\ msg'[m] \in {msg[m], "ready"}
    BY <1>3, StartDumpEffect
  <2>2. m \in behind => m[1] <= started
    BY <1>0 DEF DeliveriesArePublished, Published
  <2> QED
    BY <2>1, <2>2
<1>4. ASSUME NEW n \in Deliveries, RecordStep(n) PROVE Goal
  <2>1. RecordFrame(n) /\ RecordMove(n)
    BY <1>0, <1>4, RecordStepEffect
  <2>2. CASE n = m
    <3>1. row' = [row EXCEPT ![m[2]] = started] => row'[m[2]] = started
      BY <1>0
    <3> QED
      BY <2>1, <2>2, <3>1, PendingNext DEF RecordMove
  <2>3. CASE n # m
    BY <2>1, <2>3 DEF RecordFrame
  <2> QED
    BY <2>2, <2>3
<1>5. ASSUME NEW h \in Handlers, HandlerStep(h) PROVE Goal
  BY <1>0, <1>1, <1>5, HandlerStepEffect DEF HandlerFrame
<1>6. ASSUME NEW h \in Handlers, NEW d \in Dumps, DeliverMarker(h, d) PROVE Goal
  BY <1>1, <1>6 DEF DeliverMarker
<1>7. CASE ConnectionLost
  <2>1. TakenBack /\ ghosts' = ghosts \cup Held /\ owed' = owed
    BY <1>0, <1>7, ConnectionLostEffect
  <2>2. msg[m] = "held" => Pending(m)'
    BY <2>1, PendingNext DEF Held
  <2> QED
    BY <2>1, <2>2 DEF TakenBack
<1>8. CASE Restart
  <2>1. TakenBack /\ owed' = {}
    BY <1>0, <1>8, RestartEffect
  <2> QED
    BY <1>8, <2>1 DEF TakenBack
<1> QED
  BY <1>2, <1>3, <1>4, <1>5, <1>6, <1>7, <1>8 DEF Next

\* A flagged delivery is behind a raised flag.
LEMMA FlagStep ==
    ASSUME BaseInv, flagged # {} => dlqNacks, [Next]_vars
    PROVE  flagged' # {} => dlqNacks'
<1>0. /\ Types /\ OutInv /\ DeliveriesArePublished /\ HandlersAreDistinct /\ started \in Dumps \cup {0}
  BY TypeParts DEF BaseInv, TypeOK
<1>1. ASSUME UNCHANGED notes PROVE flagged' # {} => dlqNacks'
  BY <1>1 DEF notes
<1>2. CASE UNCHANGED vars \/ StartDump \/ ConnectionLost
  BY <1>1, <1>2 DEF vars, StartDump, ConnectionLost
<1>3. ASSUME NEW m \in Deliveries, RecordStep(m) PROVE flagged' # {} => dlqNacks'
  BY <1>0, <1>3, RecordStepEffect DEF RecordFrame
<1>4. ASSUME NEW h \in Handlers, NEW d \in Dumps, DeliverMarker(h, d) PROVE UNCHANGED notes
  BY <1>4 DEF DeliverMarker
<1>5. ASSUME NEW h \in Handlers, HandlerStep(h) PROVE flagged' # {} => dlqNacks'
  <2>1. HandlerFrame(h)
    BY <1>0, <1>5, HandlerStepEffect
  <2> QED
    BY <1>1, <2>1 DEF HandlerFrame, Spent
<1>6. CASE Restart
  BY <1>0, <1>6, RestartEffect
<1> QED
  BY <1>1, <1>2, <1>3, <1>4, <1>5, <1>6 DEF Next

\* Deliveries stay accounted for.
LEMMA AccountedStep ==
    ASSUME PurgeInv, [Next]_vars
    PROVE  DeliveriesAreAccounted'
<1>0. /\ BaseInv /\ Types /\ OutInv /\ DeliveriesArePublished /\ DeliveriesAreAccounted
  BY TypeParts DEF PurgeInv, BaseInv, TypeOK
<1>1. latchVeto \subseteq latchVeto'
  BY <1>0, StableParts
<1>2. ASSUME NEW m \in Deliveries
      PROVE  /\ msg'[m] = "done" => Refreshed(m)'
             /\ msg'[m] = "cleared" => m[1] \in latchVeto'
             /\ msg'[m] = "ready" /\ m \in behind' => Excused(m)' \/ Pending(m)' \/ Noted(m)'
  <2>1. msg[m] # "unsent" => Published(m)
    BY <1>0 DEF DeliveriesArePublished
  <2>2. msg'[m] = "done" => Refreshed(m)'
    BY <1>0, <2>1, DeliveryMoves, RefreshedIsStable DEF DeliveriesAreAccounted
  <2>3. msg'[m] = "cleared" => m[1] \in latchVeto'
    BY <1>0, <1>1, DeliveryMoves DEF DeliveriesAreAccounted
  <2>4. ASSUME msg'[m] = "ready", m \in behind' PROVE Excused(m)' \/ Pending(m)' \/ Noted(m)'
    <3>1. CASE m[1] \in latchVeto
      BY <1>1, <3>1 DEF Excused, Safe
    <3>2. CASE Restart
      <4>1. m \in behind
        BY <1>0, <2>4, <3>2, RestartEffect DEF TakenBack
      <4>2. m[1] \in latchVeto \/ m \in forgotten'
        BY <1>0, <2>4, <3>2, <4>1, RestartEffect
      <4> QED
        BY <3>1, <4>2 DEF Excused
    <3>3. CASE ~Restart /\ msg[m] = "ready" /\ m \in behind
      <4>1. Published(m) /\ (Excused(m) \/ Pending(m) \/ Noted(m))
        BY <1>0, <2>1, <3>3 DEF DeliveriesAreAccounted
      <4>2. Excused(m) => Excused(m)'
        BY <1>0, <4>1, RefreshedIsStable
      <4>3. Pending(m) => Pending(m)' \/ Noted(m)' \/ Excused(m)'
        BY <1>0, <3>3, <4>1, PendingIsStable
      <4>4. Noted(m) => Noted(m)' \/ Excused(m)'
        BY <1>0, <3>3, <4>1, NotedIsStable
      <4> QED
        BY <4>1, <4>2, <4>3, <4>4
    <3> QED
      BY <1>0, <2>4, <3>1, <3>2, <3>3, DeliveryMoves
  <2> QED
    BY <2>2, <2>3, <2>4
<1>3. flagged' # {} => dlqNacks'
  BY <1>0, FlagStep DEF DeliveriesAreAccounted
<1> QED
  BY <1>2, <1>3 DEF DeliveriesAreAccounted

\* Handlers move as HandlerMove says.
LEMMA HandlerMoves ==
    ASSUME BaseInv, [Next]_vars
    PROVE  \A x \in Handlers : HandlerMove(x)
<1>0. /\ Types /\ OutInv /\ DeliveriesArePublished /\ HandlersAreDistinct /\ started \in Dumps \cup {0}
  BY TypeParts DEF BaseInv, TypeOK
<1>1. ASSUME NEW x \in Handlers, handler'[x] = handler[x] PROVE HandlerMove(x)
  BY <1>0, <1>1 DEF HandlerMove, HandlersAreDistinct
<1>2. CASE UNCHANGED vars \/ StartDump
  BY <1>1, <1>2 DEF vars, StartDump
<1>3. ASSUME NEW m \in Deliveries, RecordStep(m) PROVE handler' = handler
  BY <1>0, <1>3, RecordStepEffect DEF RecordFrame
<1>4. ASSUME NEW h \in Handlers, NEW d \in Dumps, DeliverMarker(h, d) PROVE \A x \in Handlers : HandlerMove(x)
  <2>1. HandlerMove(h)
    BY <1>4 DEF HandlerMove
  <2>2. \A x \in Handlers : x # h => handler'[x] = handler[x]
    BY <1>0, <1>4, DeliverMarkerEffect
  <2> QED
    BY <1>1, <2>1, <2>2
<1>5. ASSUME NEW h \in Handlers, HandlerStep(h) PROVE \A x \in Handlers : HandlerMove(x)
  BY <1>0, <1>1, <1>5, HandlerStepEffect DEF HandlerFrame
<1>6. CASE ConnectionLost
  <2> TAKE x \in Handlers
  <2>1. /\ handler'[x].phase = handler[x].phase /\ handler'[x].dump = handler[x].dump
        /\ handler'[x].vetoed = handler[x].vetoed /\ (handler[x] = Free => handler'[x] = Free)
        /\ ~handler'[x].alive
    BY <1>0, <1>6, ConnectionLostEffect DEF TakenBack
  <2>2. handler[x].phase = "free" => handler[x] = Free
    BY <1>0 DEF HandlersAreDistinct
  <2> QED
    BY <2>1, <2>2 DEF HandlerMove
<1>7. CASE Restart
  BY <1>0, <1>7, RestartEffect DEF HandlerMove
<1> QED
  BY <1>1, <1>2, <1>3, <1>4, <1>5, <1>6, <1>7 DEF Next

\* When the broker hands out a marker, what is left of its dump is safe, forgotten, pending or noted.
LEMMA MarkerFindsAccounts ==
    ASSUME BaseInv, DeliveriesAreAccounted, NEW h \in Handlers, NEW d \in Dumps, DeliverMarker(h, d),
           NEW m \in Of(d)
    PROVE  Excused(m) \/ Pending(m) \/ Noted(m)
<1>0. /\ Types /\ OutInv /\ DeliveriesArePublished
  BY TypeParts DEF BaseInv
<1>1. m \in Deliveries /\ m[1] = d /\ m[2] \in dump[d]
  BY DEF Of
<1>2. d <= started
  BY <1>0, DeliverMarkerEffect DEF DeliveriesArePublished
<1>3. msg[m] \in MsgStates /\ msg[m] # "unsent"
  BY <1>0, <1>1, <1>2 DEF Types, DeliveriesArePublished, Published
<1>4. msg[m] = "ready" => m \in behind
  <2>1. d <= d
    BY DumpNumbers
  <2> QED
    BY <1>1, <2>1 DEF DeliverMarker, Ahead
<1>5. msg[m] \in {"ready", "held", "dlq", "cleared", "done"}
  BY <1>3 DEF MsgStates
<1>6. msg[m] = "held" => Pending(m)
  BY <1>1, PendingNow
<1> QED
  BY <1>1, <1>4, <1>5, <1>6 DEF DeliveriesAreAccounted, Excused, Safe, Noted

\* Each phase of a handler excludes what its test asks for and keeps what the ones before it
\* have excluded.
LEMMA ExcludedStep ==
    ASSUME PurgeInv, [Next]_vars
    PROVE  HandlersHaveExcluded'
<1>0. /\ BaseInv /\ Types /\ OutInv /\ HandlersAreDistinct /\ DeliveriesAreAccounted
      /\ HandlersHaveExcluded
  BY TypeParts DEF PurgeInv, BaseInv, TypeOK
<1>1. latchVeto \subseteq latchVeto' /\ dump' = dump /\ (~Restart => declared' = declared)
  BY <1>0, StableParts
<1> SUFFICES ASSUME NEW x \in Handlers, NEW d, d = handler'[x].dump, NEW p, p = handler'[x].phase
             PROVE  /\ p = "flushing" => \A m \in Of(d) : Excused(m)' \/ Pending(m)' \/ Noted(m)'
                    /\ p = "vetting"  => \A m \in Of(d) : Excused(m)' \/ Noted(m)'
                    /\ p = "checking" => \A m \in Of(d) : Excused(m)'
                    /\ p = "purging"  => \A m \in Of(d) : Purgeable(m)'
                    /\ p \in {"recording", "acking"} /\ ~handler'[x].vetoed => \A m \in Of(d) : Purgeable(m)'
                    /\ p \in {"recording", "acking"} /\ handler'[x].vetoed /\ declared' => d \in latchVeto'
                    /\ p = "vetoing" => handler'[x].vetoed
                    /\ p \in {"flushing", "vetting", "checking", "purging"} => ~handler'[x].vetoed
  BY <1>1 DEF HandlersHaveExcluded, Of
<1>2. HandlerMove(x)
  BY <1>0, HandlerMoves
<1>3. CASE handler'[x] = Free
  BY <1>3, FreeType
<1>4. CASE \E e \in Dumps : DeliverMarker(x, e)
  <2>1. PICK e \in Dumps : DeliverMarker(x, e)
    BY <1>4
  <2>2. /\ p = "flushing" /\ d = e /\ ~handler'[x].vetoed
        /\ UNCHANGED <<row, msg, ghosts, owed, flagged, forgotten, latchVeto>>
    BY <1>0, <2>1, DeliverMarkerEffect DEF recordVars, latchVars, notes
  <2>3. ASSUME NEW m \in Of(d) PROVE Excused(m)' \/ Pending(m)' \/ Noted(m)'
    <3>1. m \in Deliveries /\ (Excused(m) \/ Pending(m) \/ Noted(m))
      BY <1>0, <2>1, <2>2, MarkerFindsAccounts DEF Of
    <3>2. Pending(m) => Pending(m)'
      BY <2>2, <3>1, PendingNow, PendingNext
    <3>3. (Excused(m) => Excused(m)') /\ (Noted(m) => Noted(m)')
      BY <2>2 DEF Excused, Safe, Refreshed, Noted
    <3> QED
      BY <3>1, <3>2, <3>3
  <2> QED
    BY <2>2, <2>3
<1>5. CASE /\ handler'[x] # Free /\ ~ \E e \in Dumps : DeliverMarker(x, e)
  <2>0. ~Restart
    BY <1>0, <1>5, RestartEffect
  <2>1. handler[x].phase # "free" /\ d = handler[x].dump /\ d \in Dumps /\ d <= started
    BY <1>0, <1>2, <1>5 DEF HandlerMove, HandlersAreDistinct
  <2>2. \A m \in Of(d) : m \in Deliveries /\ Published(m)
    BY <2>1 DEF Of, Published
  <2>3. /\ \A m \in Of(d) : (Purgeable(m) => Purgeable(m)') /\ (Excused(m) => Excused(m)')
        /\ declared' = declared
    BY <1>0, <1>1, <2>0, <2>2, RefreshedIsStable
  <2>4. \A m \in Of(d) : Noted(m) => Noted(m)' \/ Excused(m)'
    BY <1>0, <2>0, <2>2, NotedIsStable
  <2>5. \A m \in Of(d) : Pending(m) => Pending(m)' \/ Noted(m)' \/ Excused(m)'
    BY <1>0, <2>0, <2>2, PendingIsStable
  <2>h. LET q == handler[x].phase
        IN  /\ q = "flushing" => \A m \in Of(d) : Excused(m) \/ Pending(m) \/ Noted(m)
            /\ q = "vetting"  => \A m \in Of(d) : Excused(m) \/ Noted(m)
            /\ q = "checking" => \A m \in Of(d) : Excused(m)
            /\ q = "purging"  => \A m \in Of(d) : Purgeable(m)
            /\ q \in {"recording", "acking"} /\ ~handler[x].vetoed => \A m \in Of(d) : Purgeable(m)
            /\ q \in {"recording", "acking"} /\ handler[x].vetoed /\ declared => d \in latchVeto
            /\ q = "vetoing" => handler[x].vetoed
            /\ q \in {"flushing", "vetting", "checking", "purging"} => ~handler[x].vetoed
    BY <1>0, <2>1 DEF HandlersHaveExcluded
  <2>6. CASE p = handler[x].phase /\ handler'[x].vetoed = handler[x].vetoed
    BY <1>1, <2>3, <2>4, <2>5, <2>6, <2>h
  <2>7. CASE handler[x].phase = "flushing" /\ p = "vetting" /\ Drained /\ handler'[x].vetoed = handler[x].vetoed
    <3>1. \A m \in Of(d) : ~Pending(m)
      BY <2>7 DEF Drained, Pending
    <3> QED
      BY <2>3, <2>4, <2>7, <2>h, <3>1
  <2>8. CASE /\ handler[x].phase = "vetting" /\ p = "checking" /\ ~dlqNacks /\ Dead = {}
             /\ handler'[x].vetoed = handler[x].vetoed
    <3>1. \A m \in Of(d) : ~Noted(m)
      BY <1>0, <2>2, <2>8 DEF Noted, Dead, DeliveriesAreAccounted
    <3> QED
      BY <2>3, <2>8, <2>h, <3>1
  <2>9. CASE /\ handler[x].phase = "checking" /\ p = "purging" /\ ~(declared /\ d \in latchVeto)
             /\ handler'[x].vetoed = handler[x].vetoed
    <3>1. \A m \in Of(d) : Purgeable(m)
      BY <2>9, <2>h DEF Excused, Safe, Purgeable, Of
    <3> QED
      BY <2>3, <2>9, <2>h, <3>1
  <2>10. CASE p = "vetoing" /\ handler'[x].vetoed
    BY <2>10
  <2>11. CASE /\ handler[x].phase = "vetoing" /\ p = "recording" /\ (declared => d \in latchVeto')
              /\ handler'[x].vetoed = handler[x].vetoed
    BY <2>3, <2>11, <2>h
  <2>12. CASE /\ \/ handler[x].phase = "purging" /\ p = "recording"
                 \/ handler[x].phase = "recording" /\ p = "acking"
              /\ handler'[x].vetoed = handler[x].vetoed
    BY <1>1, <2>3, <2>12, <2>h
  <2> QED
    BY <1>2, <1>5, <2>1, <2>6, <2>7, <2>8, <2>9, <2>10, <2>11, <2>12 DEF HandlerMove
<1> QED
  BY <1>3, <1>4, <1>5

\* A marker is acked after its purge or its veto.
LEMMA SettledStep ==
    ASSUME PurgeInv, [Next]_vars
    PROVE  SettledIsSafe'
<1>0. /\ BaseInv /\ Types /\ OutInv /\ HandlersAreDistinct /\ DeliveriesArePublished
      /\ HandlersHaveExcluded /\ SettledIsSafe /\ started \in Dumps \cup {0}
  BY TypeParts DEF PurgeInv, BaseInv, TypeOK
<1>1. dump' = dump
  BY <1>0, StableParts
<1>2. ASSUME NEW d \in Dumps, marker'[d] = "done"
      PROVE  marker[d] = "done" \/ (declared /\ \E h \in Handlers : handler[h].phase = "acking" /\ handler[h].dump = d)
  <2>1. CASE UNCHANGED vars
    BY <1>2, <2>1 DEF vars
  <2>2. CASE StartDump
    BY <1>0, <1>2, <2>2, StartDumpEffect
  <2>3. ASSUME NEW m \in Deliveries, RecordStep(m) PROVE marker' = marker
    BY <1>0, <2>3, RecordStepEffect DEF RecordFrame
  <2>4. ASSUME NEW h \in Handlers, NEW e \in Dumps, DeliverMarker(h, e) PROVE marker[d] = "done"
    BY <1>0, <1>2, <2>4, DeliverMarkerEffect
  <2>5. ASSUME NEW h \in Handlers, HandlerStep(h)
        PROVE  marker[d] = "done" \/ (declared /\ handler[h].phase = "acking" /\ handler[h].dump = d)
    BY <1>0, <1>2, <2>5, HandlerStepEffect DEF HandlerFrame
  <2>6. CASE ConnectionLost \/ Restart
    BY <1>0, <1>2, <2>6, ConnectionLostEffect, RestartEffect DEF TakenBack
  <2> QED
    BY <1>2, <2>1, <2>2, <2>3, <2>4, <2>5, <2>6 DEF Next
<1>3. ASSUME NEW d \in Dumps, marker'[d] = "done", NEW m \in Of(d) PROVE Excused(m)'
  <2>1. m \in Deliveries /\ m[1] = d /\ m[2] \in dump[d]
    BY DEF Of
  <2>2. CASE marker[d] = "done"
    <3>1. Excused(m) /\ Published(m)
      BY <1>0, <2>1, <2>2 DEF SettledIsSafe, DeliveriesArePublished, Published
    <3> QED
      BY <1>0, <2>1, <3>1, RefreshedIsStable
  <2>3. ASSUME NEW h \in Handlers, handler[h].phase = "acking", handler[h].dump = d, declared PROVE Excused(m)'
    <3>1. d <= started
      BY <1>0, <2>3 DEF HandlersAreDistinct
    <3>2. Excused(m)
      BY <1>0, <2>1, <2>3 DEF HandlersHaveExcluded, Excused, Safe, Purgeable
    <3> QED
      BY <1>0, <2>1, <3>1, <3>2, RefreshedIsStable DEF Published
  <2> QED
    BY <1>2, <1>3, <2>2, <2>3
<1> QED
  BY <1>1, <1>3 DEF SettledIsSafe, Of

-----------------------------------------------------------------------------
(* The theorems about the purge                                            *)

LEMMA PurgeInit == Init => PurgeInv
<1> SUFFICES ASSUME Init PROVE PurgeInv
  OBVIOUS
<1>1. BaseInv /\ \A h \in Handlers : handler[h].phase = "free"
  BY BaseInit, FreeType DEF Init
<1>2. DeliveriesAreAccounted
  BY DEF Init, DeliveriesAreAccounted
<1>3. HandlersHaveExcluded
  BY <1>1 DEF HandlersHaveExcluded
<1>4. SettledIsSafe
  BY DEF Init, SettledIsSafe
<1> QED
  BY <1>1, <1>2, <1>3, <1>4 DEF PurgeInv

LEMMA PurgeStep == PurgeInv /\ [Next]_vars => PurgeInv'
<1> SUFFICES ASSUME PurgeInv, [Next]_vars PROVE PurgeInv'
  OBVIOUS
<1>1. BaseInv'
  BY BaseStep DEF PurgeInv
<1> QED
  BY <1>1, AccountedStep, ExcludedStep, SettledStep DEF PurgeInv

\* Each phase of each handler leaves what the next relies on, whatever outages are combined and
\* however extractions overlap.
THEOREM PurgeInvariant == Spec => []PurgeInv
  BY PurgeInit, PurgeStep, PTL DEF Spec

\* The purge of a dump deletes the row of a record of this dump only when the record was forgotten
\* or its veto is on a latch that the process did not find: for any number of handlers, dumps, lost
\* connections, restarts, expired holds, redeliveries and replays.
THEOREM PurgeSparesItsDump == Spec => PurgeSparesTheDump
<1> DEFINE A == \A h \in Handlers, r \in Records :
                  LET d == handler[h].dump
                  IN  handler[h].phase = "purging" /\ handler'[h] # handler[h] /\ Deletes(r) /\ r \in dump[d]
                        => <<d, r>> \in forgotten \/ (~declared /\ d \in latchVeto)
<1>1. PurgeInv /\ [Next]_vars => [A]_vars
  <2> SUFFICES ASSUME PurgeInv, Next, NEW h \in Handlers, NEW r \in Records, handler[h].phase = "purging",
                      handler'[h] # handler[h], Deletes(r), r \in dump[handler[h].dump],
                      ~(<<handler[h].dump, r>> \in forgotten \/ (~declared /\ handler[h].dump \in latchVeto))
               PROVE  FALSE
    OBVIOUS
  <2>0. /\ Types /\ OutInv /\ DeliveriesArePublished /\ HandlersAreDistinct /\ started \in Dumps \cup {0}
        /\ HandlersHaveExcluded /\ row \in [Records -> Dumps \cup {0, Absent}] /\ row' # row
    BY TypeParts DEF PurgeInv, BaseInv, TypeOK, Deletes
  <2>1. PICK g \in Handlers : HandlerStep(g)
    <3>1. ~(StartDump \/ ConnectionLost \/ Restart)
      BY <2>0 DEF StartDump, ConnectionLost, Restart
    <3>2. \A m \in Deliveries : RecordStep(m) => handler' = handler
      BY <2>0, RecordStepEffect DEF RecordFrame
    <3>3. \A g \in Handlers, d \in Dumps : ~DeliverMarker(g, d)
      BY <2>0 DEF DeliverMarker
    <3> QED
      BY <3>1, <3>2, <3>3 DEF Next
  <2>2. HandlerFrame(g)
    BY <2>0, <2>1, HandlerStepEffect
  <2>3. g = h
    BY <2>2 DEF HandlerFrame
  <2>4. row[r] < handler[h].dump
    BY <2>0, <2>2, <2>3, PurgedRows DEF HandlerFrame, Deletes
  <2>5. handler[h].dump \in Dumps
    BY <2>0 DEF HandlersAreDistinct
  <2>6. <<handler[h].dump, r>> \in Of(handler[h].dump)
    BY <2>5 DEF Of, Deliveries
  <2>7. Refreshed(<<handler[h].dump, r>>)
    BY <2>0, <2>6 DEF HandlersHaveExcluded, Purgeable
  <2>8. row[r] >= handler[h].dump
    BY <2>7 DEF Refreshed
  <2> QED
    BY <2>0, <2>4, <2>5, <2>8, DumpNumbers
<1> QED
  BY <1>1, PurgeInvariant, PTL DEF Spec, PurgeSparesTheDump

\* A dead letter whose row was not refreshed has its marker unsettled, acked without a latch, or its
\* veto on the latch, unless it was forgotten before.
THEOREM DeadLettersAreAccountedFor == Spec => []SettledMarkerAccountsForDeadLetters
<1>1. PurgeInv => SettledMarkerAccountsForDeadLetters
  <2> SUFFICES ASSUME PurgeInv, NEW m \in Dead \ forgotten, marker[m[1]] = "done", row[m[2]] < m[1]
               PROVE  m[1] \in latchVeto
    BY DEF SettledMarkerAccountsForDeadLetters
  <2>1. m \in Deliveries /\ msg[m] = "dlq" /\ m[1] \in Dumps /\ m[2] \in Records
    BY DeliveryParts DEF Dead
  <2>2. m \in Of(m[1])
    BY <2>1 DEF PurgeInv, BaseInv, DeliveriesArePublished, Published, Of
  <2>3. Safe(m)
    BY <2>1, <2>2 DEF PurgeInv, SettledIsSafe, Excused
  <2>4. row[m[2]] \in Nat /\ m[1] \in Nat
    BY <2>1, DumpNumbers DEF PurgeInv, BaseInv, TypeOK
  <2> QED
    BY <2>3, <2>4 DEF Safe, Refreshed
<1> QED
  BY <1>1, PurgeInvariant, PTL
=============================================================================
