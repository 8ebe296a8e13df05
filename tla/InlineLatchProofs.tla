------------------------- MODULE InlineLatchProofs -------------------------
(***************************************************************************)
(* Proofs about InlineLatch for any number of extractions, types and       *)
(* handlers and any number of faults.                                      *)
(*                                                                         *)
(* Rows only ever gain rank (WithRowRanks), so that what is resolved stays *)
(* resolved; a handler that gets past its signal leaves its extraction     *)
(* incomplete or resolved (CoveredStep); and the lock keeps other passes   *)
(* out between the check for a newer row and the stamp (StampedStep).      *)
(***************************************************************************)
EXTENDS InlineLatchInv, OrderLemmas

-----------------------------------------------------------------------------
(* Rows and their ranks                                                    *)

\* Extractions are positive naturals, and there are finitely many.
LEMMA DumpNumbers ==
    /\ Cardinality(Dumps) \in Nat /\ IsFiniteSet(Dumps)
    /\ \A d \in Dumps : d \in Nat /\ d # 0 /\ d <= Cardinality(Dumps)
    /\ \A n \in Nat : n # 0 /\ n <= Cardinality(Dumps) => n \in Dumps
<1>1. Cardinality(Dumps) \in Nat /\ IsFiniteSet(Dumps)
  BY DumpsAssumption, FS_CardinalityType
<1>2. \A n : n \in Dumps <=> n \in 1..Cardinality(Dumps)
  BY DumpsAssumption
<1> QED
  BY <1>1, <1>2

\* An insert leaves every other row alone and ranks a new row above all of them.
LEMMA WithRowRanks ==
    ASSUME created \in [Dumps -> Dumps \cup {0}], RowsAreRanked, NEW d \in Dumps
    PROVE  /\ WithRow(d) \in [Dumps -> Dumps \cup {0}]
           /\ WithRow(d)[d] # 0
           /\ \A e \in Dumps : e # d \/ HasRow(e) => WithRow(d)[e] = created[e]
           /\ ~HasRow(d) => \A e \in Dumps : e # d => created[e] < WithRow(d)[d]
           /\ \A e \in Dumps : WithRow(d)[e] <= Cardinality({x \in Dumps : WithRow(d)[x] # 0})
           /\ \A e, x \in Dumps : e # x /\ WithRow(d)[e] # 0 => WithRow(d)[e] # WithRow(d)[x]
<1> DEFINE rows == {e \in Dumps : created[e] # 0}
           n == Cardinality(rows)
<1>0. CASE HasRow(d)
  <2>1. WithRow(d) = created
    BY <1>0 DEF WithRow, HasRow
  <2> QED
    BY <1>0, <2>1 DEF RowsAreRanked, HasRow
<1>1. CASE ~HasRow(d)
  <2>1. WithRow(d) = [created EXCEPT ![d] = 1 + n]
    BY <1>1 DEF WithRow, HasRow
  <2>2. rows \in SUBSET Dumps /\ d \notin rows
    BY <1>1 DEF HasRow
  <2> HIDE DEF rows
  <2>3. IsFiniteSet(rows) /\ n \in Nat /\ n <= Cardinality(Dumps) /\ n # Cardinality(Dumps)
    BY <2>2, DumpNumbers, FS_Subset, FS_CardinalityType
  <2>4. 1 + n \in Dumps
    BY <2>3, DumpNumbers
  <2>5. \A e \in Dumps : created[e] \in Nat /\ created[e] <= n
    BY DumpNumbers DEF RowsAreRanked, HasRow, rows
  <2>6. {x \in Dumps : WithRow(d)[x] # 0} = rows \cup {d}
    BY <2>1, <2>3 DEF rows
  <2>7. Cardinality(rows \cup {d}) = n + 1
    BY <2>2, <2>3, FS_AddElement
  <2>8. WithRow(d) \in [Dumps -> Dumps \cup {0}]
    BY <2>1, <2>4
  <2>9. \A e \in Dumps : WithRow(d)[e] = IF e = d THEN 1 + n ELSE created[e]
    BY <2>1
  <2>10. \A e, x \in Dumps : e # x /\ created[e] # 0 => created[e] # created[x]
    BY DEF RowsAreRanked, HasRow
  <2> HIDE DEF n
  <2>11. \A e, x \in Dumps : e # x /\ WithRow(d)[e] # 0 => WithRow(d)[e] # WithRow(d)[x]
    BY <2>3, <2>5, <2>9, <2>10
  <2>12. \A e \in Dumps : WithRow(d)[e] <= n + 1
    BY <2>3, <2>5, <2>9
  <2> QED
    BY <1>1, <2>3, <2>5, <2>6, <2>7, <2>8, <2>9, <2>11, <2>12 DEF HasRow
<1> QED
  BY <1>0, <1>1

-----------------------------------------------------------------------------
(* Pieces of steps                                                         *)

MsgType == [Dumps -> [Types -> Places]]

\* Moving one delivery keeps the type and the place of every other.
LEMMA MsgExcept ==
    ASSUME msg \in MsgType, NEW d \in Dumps, NEW t \in Types, NEW p \in Places
    PROVE  /\ [msg EXCEPT ![d][t] = p] \in MsgType
           /\ \A e \in Dumps, u \in Types :
                [msg EXCEPT ![d][t] = p][e][u] = IF e = d /\ u = t THEN p ELSE msg[e][u]
  BY DEF MsgType

\* A free handler is one of the handler states.
LEMMA FreeType == Free \in HandlerStates
  BY NamesAssumption DEF Free, HandlerStates, Phases

\* Step moves one handler to another phase and changes nothing else.
LEMMA StepEffect ==
    ASSUME handler \in [Handlers -> HandlerStates], NEW h \in Handlers, NEW p \in Phases, Step(h, p)
    PROVE  /\ handler' \in [Handlers -> HandlerStates]
           /\ \A x \in Handlers : x # h => handler'[x] = handler[x]
           /\ handler'[h].phase = p /\ handler'[h].dump = handler[h].dump
           /\ handler'[h].type = handler[h].type /\ handler'[h].alive = handler[h].alive
  BY DEF Step, HandlerStates

\* A nack frees the handler and can only make its delivery ready.
LEMMA NackEffect ==
    ASSUME handler \in [Handlers -> HandlerStates], msg \in MsgType, NEW h \in Handlers,
           handler[h].dump \in Dumps, Nack(h)
    PROVE  /\ handler' \in [Handlers -> HandlerStates] /\ msg' \in MsgType
           /\ handler'[h] = Free /\ \A x \in Handlers : x # h => handler'[x] = handler[x]
           /\ \A d \in Dumps, t \in Types : msg'[d][t] \in {msg[d][t], "ready"}
<1>1. handler[h].type \in Types
  BY DEF HandlerStates
<1> QED
  BY <1>1, FreeType DEF Nack, MsgType, Places

\* What the broker takes back is ready again.
LEMMA MarkersBackEffect ==
    ASSUME msg \in MsgType
    PROVE  /\ MarkersBack \in MsgType
           /\ \A d \in Dumps, t \in Types : MarkersBack[d][t] \in {msg[d][t], "ready"}
  BY DEF MarkersBack, MsgType, Places

\* A reported run of vetoes is at most the number of extractions.
LEMMA StreakType == \A t \in Types : ConsecutivePurgeVetoes(t) \in 0..Cardinality(Dumps)
<1> TAKE t \in Types
<1> DEFINE D == {d \in Dumps : /\ t \in vetoed[d]
                               /\ \A e \in Dumps : e > d => t \in vetoed[e] \/ t \notin signals[e]}
<1>1. D \in SUBSET Dumps
  OBVIOUS
<1> HIDE DEF D
<1>2. Cardinality(D) \in Nat /\ Cardinality(D) <= Cardinality(Dumps)
  BY <1>1, DumpNumbers, FS_Subset, FS_CardinalityType
<1> QED
  BY <1>2, DumpNumbers DEF ConsecutivePurgeVetoes, D

\* A step leaves the rows alone or is the insert of one; signals and stamps only accumulate.
LEMMA LatchGrows ==
    ASSUME TypeOK, HandlersAreBusy, [Next]_vars
    PROVE  /\ created' = created \/ \E d \in Dumps : created' = WithRow(d)
           /\ \A d \in Dumps : signals[d] \subseteq signals'[d]
           /\ refreshed \subseteq refreshed'
           /\ named' = named
           /\ declared' = declared \/ \A x \in Handlers : handler'[x].phase = "free"
<1>1. CASE UNCHANGED vars
  BY <1>1 DEF vars, known, latchVars
<1>2. CASE StartDump \/ ConnectionLost \/ Restart
  BY <1>2 DEF StartDump, ConnectionLost, Restart, latchVars, known, Free
<1>3. ASSUME NEW h \in Handlers, NEW d \in Dumps, NEW t \in Types, Deliver(h, d, t)
      PROVE  UNCHANGED <<known, latchVars>>
  BY <1>3 DEF Deliver
<1>4. ASSUME NEW h \in Handlers, HandlerStep(h)
      PROVE  /\ created' = created \/ \E d \in Dumps : created' = WithRow(d)
             /\ \A d \in Dumps : signals[d] \subseteq signals'[d]
             /\ refreshed \subseteq refreshed'
             /\ UNCHANGED known
  <2>0. signals \in [Dumps -> SUBSET Types]
    BY DEF TypeOK
  <2>1. CASE Vet(h)
    <3>1. handler[h].dump \in Dumps
      BY <2>1 DEF Vet, HandlersAreBusy
    <3> QED
      BY <2>1, <3>1 DEF Vet
  <2>2. CASE Signal(h) \/ SignalFails(h)
    <3>1. handler[h].dump \in Dumps
      BY <2>2 DEF Signal, SignalFails, HandlersAreBusy
    <3> QED
      BY <2>0, <2>2, <3>1 DEF Signal, SignalFails, RecordExtractionSignal
  <2>3. CASE Pass(h) \/ PassFails(h)
    BY <2>3 DEF Pass, PassFails, CommitPass
  <2>4. CASE SkipSignal(h) \/ Ack(h) \/ Report(h) \/ SkipReport(h)
    BY <2>4 DEF SkipSignal, Ack, Report, SkipReport, latchVars
  <2> QED
    BY <1>4, <2>1, <2>2, <2>3, <2>4 DEF HandlerStep
<1> QED
  BY <1>1, <1>2, <1>3, <1>4 DEF Next, latchVars, known

\* Rows keep their ranks, and a row that was created later stays later.
LEMMA RanksAreStable ==
    ASSUME TypeOK, RowsAreRanked, HandlersAreBusy, [Next]_vars
    PROVE  /\ RowsAreRanked' /\ created' \in [Dumps -> Dumps \cup {0}]
           /\ \A d \in Dumps : HasRow(d) => created'[d] = created[d]
           /\ \A d, e \in Dumps : HasRow(d) /\ created[e] > created[d] => created'[e] > created'[d]
<1>1. created \in [Dumps -> Dumps \cup {0}]
  BY DEF TypeOK
<1>2. CASE created' = created
  BY <1>1, <1>2 DEF RowsAreRanked, HasRow
<1>3. ASSUME NEW d \in Dumps, created' = WithRow(d)
      PROVE  /\ RowsAreRanked' /\ created' \in [Dumps -> Dumps \cup {0}]
             /\ \A e \in Dumps : HasRow(e) => created'[e] = created[e]
  BY <1>1, <1>3, WithRowRanks DEF RowsAreRanked, HasRow
<1>4. /\ RowsAreRanked' /\ created' \in [Dumps -> Dumps \cup {0}]
      /\ \A e \in Dumps : HasRow(e) => created'[e] = created[e]
  BY <1>1, <1>2, <1>3, LatchGrows
<1>5. ASSUME NEW d \in Dumps, NEW e \in Dumps, HasRow(d), created[e] > created[d]
      PROVE  created'[e] > created'[d]
  BY <1>1, <1>4, <1>5, DumpNumbers DEF HasRow
<1> QED
  BY <1>4, <1>5

-----------------------------------------------------------------------------
(* Types and the lock                                                      *)

\* The lock clause of TypeOK.
LockInv == \A h \in Handlers : lock = h <=> handler[h].phase = "passing"

\* A handler that has no pass keeps the lock as it is.
LEMMA LockKept ==
    ASSUME LockInv, lock' = lock,
           \A x \in Handlers : handler'[x].phase = "passing" <=> handler[x].phase = "passing"
    PROVE  LockInv'
  BY DEF LockInv

\* The lock is given back by the handler that had it.
LEMMA LockReleased ==
    ASSUME LockInv, NEW h \in Handlers, handler[h].phase = "passing", lock' = NoHandler,
           handler'[h].phase # "passing", \A x \in Handlers : x # h => handler'[x] = handler[x]
    PROVE  LockInv'
  BY NamesAssumption DEF LockInv

\* Every step keeps the types and the lock with the handler whose pass runs.
LEMMA TypeStep ==
    ASSUME TypeOK, RowsAreRanked, HandlersAreBusy, [Next]_vars
    PROVE  TypeOK'
<1> DEFINE Rest == /\ started \in Dumps \cup {0} /\ named \subseteq Dumps /\ declared \in BOOLEAN
                   /\ signals \in [Dumps -> SUBSET Types] /\ vetoed \in [Dumps -> SUBSET Types]
                   /\ refreshed \subseteq Dumps /\ passes \in Seq(Dumps)
                   /\ streak \in [Types -> 0..Cardinality(Dumps)]
                   /\ faults \in 0..MaxFaults
<1>0. Rest /\ LockInv /\ msg \in MsgType /\ handler \in [Handlers -> HandlerStates]
  BY DEF TypeOK, LockInv, MsgType
<1>1. created' \in [Dumps -> Dumps \cup {0}]
  BY RanksAreStable
<1>2. SUFFICES Rest' /\ LockInv' /\ msg' \in MsgType /\ handler' \in [Handlers -> HandlerStates]
  BY <1>1 DEF TypeOK, LockInv, MsgType
<1>f. ASSUME Fault PROVE faults' \in 0..MaxFaults
  BY <1>0, <1>f, NamesAssumption DEF Fault
<1>3. CASE UNCHANGED vars
  BY <1>0, <1>3 DEF vars, known, latchVars, LockInv, MsgType
<1>4. CASE StartDump
  <2>1. msg' \in MsgType
    BY <1>0, <1>4 DEF StartDump, MsgType, Places
  <2> QED
    BY <1>0, <1>4, <2>1, LockKept DEF StartDump, known, latchVars
<1>5. CASE ConnectionLost
  <2>1. handler' \in [Handlers -> HandlerStates]
        /\ \A x \in Handlers : handler'[x].phase = handler[x].phase
    BY <1>0, <1>5 DEF ConnectionLost, HandlerStates
  <2> QED
    BY <1>0, <1>5, <1>f, <2>1, MarkersBackEffect, LockKept DEF ConnectionLost, known, latchVars
<1>6. CASE Restart
  <2>1. handler' \in [Handlers -> HandlerStates]
        /\ \A x \in Handlers : handler'[x].phase = "free" /\ x # NoHandler
    BY <1>6, FreeType, NamesAssumption DEF Restart, Free
  <2>2. LockInv'
    BY <1>6, <2>1 DEF Restart, LockInv
  <2>3. streak' \in [Types -> 0..Cardinality(Dumps)]
    <3>1. PICK read \in SUBSET Types :
            streak' = [t \in Types |-> IF declared' /\ t \in read THEN ConsecutivePurgeVetoes(t) ELSE 0]
      BY <1>6 DEF Restart
    <3>2. \A t \in Types : (IF declared' /\ t \in read THEN ConsecutivePurgeVetoes(t) ELSE 0) \in 0..Cardinality(Dumps)
      BY StreakType, DumpNumbers
    <3> QED
      BY <3>1, <3>2
  <2> QED
    BY <1>0, <1>6, <1>f, <2>1, <2>2, <2>3, MarkersBackEffect DEF Restart, known, latchVars
<1>7. ASSUME NEW h \in Handlers, NEW d \in Dumps, NEW t \in Types, Deliver(h, d, t)
      PROVE  Rest' /\ LockInv' /\ msg' \in MsgType /\ handler' \in [Handlers -> HandlerStates]
  <2>1. /\ handler' \in [Handlers -> HandlerStates]
        /\ \A x \in Handlers : handler'[x].phase = "passing" <=> handler[x].phase = "passing"
    BY <1>0, <1>7 DEF Deliver, HandlerStates, Phases
  <2>2. msg' \in MsgType
    BY <1>0, <1>7 DEF Deliver, MsgType, Places
  <2> QED
    BY <1>0, <1>7, <2>1, <2>2, LockKept DEF Deliver, known, latchVars
<1>8. ASSUME NEW h \in Handlers, HandlerStep(h)
      PROVE  Rest' /\ LockInv' /\ msg' \in MsgType /\ handler' \in [Handlers -> HandlerStates]
  <2>0. handler[h].type \in Types /\ (handler[h].phase # "free" => handler[h].dump \in Dumps)
    BY <1>0 DEF HandlersAreBusy, HandlerStates
  <2>n. Free.phase = "free" /\ {"signalling", "passing", "acking", "reporting"} \subseteq Phases
    BY DEF Free, Phases
  <2>1. CASE Vet(h)
    <3>0. handler[h].dump \in Dumps /\ handler[h].phase = "vetting"
      BY <2>0, <2>1 DEF Vet
    <3>1. vetoed' \in [Dumps -> SUBSET Types]
      BY <1>0, <2>0, <2>1, <3>0 DEF Vet
    <3>2. CASE Step(h, "signalling") /\ UNCHANGED <<msg, faults>>
      <4>1. handler' \in [Handlers -> HandlerStates]
            /\ \A x \in Handlers : handler'[x].phase = "passing" <=> handler[x].phase = "passing"
        BY <1>0, <2>n, <3>0, <3>2, StepEffect
      <4> QED
        BY <1>0, <2>1, <3>1, <3>2, <4>1, LockKept DEF Vet, known
    <3>3. CASE /\ handler' = [handler EXCEPT ![h].phase = "signalling", ![h].clean = TRUE]
               /\ UNCHANGED <<msg, faults>>
      <4>1. handler' \in [Handlers -> HandlerStates]
            /\ \A x \in Handlers : handler'[x].phase = "passing" <=> handler[x].phase = "passing"
        BY <1>0, <3>0, <3>3, ZenonT(30) DEF HandlerStates, Phases
      <4> QED
        BY <1>0, <2>1, <3>1, <3>3, <4>1, LockKept DEF Vet, known
    <3>4. CASE Fault /\ Nack(h)
      <4>1. /\ handler' \in [Handlers -> HandlerStates] /\ msg' \in MsgType
            /\ \A x \in Handlers : handler'[x].phase = "passing" <=> handler[x].phase = "passing"
        BY <1>0, <2>n, <3>0, <3>4, NackEffect
      <4> QED
        BY <1>0, <1>f, <2>1, <3>1, <3>4, <4>1, LockKept DEF Vet, known
    <3> QED
      BY <2>1, <3>2, <3>3, <3>4 DEF Vet
  <2>2. CASE SkipSignal(h)
    <3>1. handler' \in [Handlers -> HandlerStates]
          /\ \A x \in Handlers : handler'[x].phase = "passing" <=> handler[x].phase = "passing"
      BY <1>0, <2>2, <2>n, StepEffect DEF SkipSignal
    <3> QED
      BY <1>0, <2>2, <3>1, LockKept DEF SkipSignal, known, latchVars
  <2>3. CASE Signal(h)
    <3>1. signals' \in [Dumps -> SUBSET Types]
      BY <1>0, <2>0, <2>3 DEF Signal, RecordExtractionSignal
    <3>2. CASE Step(h, "passing") /\ lock' = h
      <4>1. /\ handler' \in [Handlers -> HandlerStates] /\ handler'[h].phase = "passing"
            /\ \A x \in Handlers : x # h => handler'[x] = handler[x]
        BY <1>0, <2>n, <3>2, StepEffect
      <4>2. \A x \in Handlers : handler[x].phase # "passing"
        BY <1>0, <2>3, NamesAssumption DEF Signal, LockInv
      <4>3. LockInv'
        BY <3>2, <4>1, <4>2 DEF LockInv
      <4> QED
        BY <1>0, <2>3, <3>1, <4>1, <4>3 DEF Signal, known
    <3>3. CASE Step(h, "acking") /\ UNCHANGED lock
      <4>1. /\ handler' \in [Handlers -> HandlerStates]
            /\ \A x \in Handlers : handler'[x].phase = "passing" <=> handler[x].phase = "passing"
        BY <1>0, <2>3, <2>n, <3>3, StepEffect DEF Signal
      <4> QED
        BY <1>0, <2>3, <3>1, <3>3, <4>1, LockKept DEF Signal, known
    <3> QED
      BY <2>3, <3>2, <3>3 DEF Signal
  <2>4. CASE SignalFails(h)
    <3>1. signals' \in [Dumps -> SUBSET Types]
      BY <1>0, <2>0, <2>4 DEF SignalFails, RecordExtractionSignal
    <3>2. /\ handler' \in [Handlers -> HandlerStates] /\ msg' \in MsgType
          /\ \A x \in Handlers : handler'[x].phase = "passing" <=> handler[x].phase = "passing"
      BY <1>0, <2>0, <2>4, <2>n, NackEffect DEF SignalFails
    <3> QED
      BY <1>0, <1>f, <2>4, <3>1, <3>2, LockKept DEF SignalFails, known
  <2>5. CASE Pass(h)
    <3>1. refreshed' \subseteq Dumps /\ passes' \in Seq(Dumps)
      BY <1>0, <2>0, <2>5 DEF Pass, CommitPass
    <3>2. /\ handler' \in [Handlers -> HandlerStates] /\ handler'[h].phase = "acking"
          /\ \A x \in Handlers : x # h => handler'[x] = handler[x]
      BY <1>0, <2>5, <2>n, StepEffect DEF Pass
    <3>3. LockInv'
      BY <1>0, <2>5, <3>2, LockReleased DEF Pass
    <3> QED
      BY <1>0, <2>5, <3>1, <3>2, <3>3 DEF Pass, known
  <2>6. CASE PassFails(h)
    <3>1. refreshed' \subseteq Dumps /\ passes' \in Seq(Dumps)
      <4>1. CASE CommitPass(handler[h].dump)
        BY <1>0, <2>0, <2>6, <4>1 DEF PassFails, CommitPass
      <4>2. CASE UNCHANGED <<refreshed, passes>>
        BY <1>0, <4>2
      <4> QED
        BY <2>6, <4>1, <4>2 DEF PassFails
    <3>2. /\ handler' \in [Handlers -> HandlerStates] /\ handler'[h].phase = "free" /\ msg' \in MsgType
          /\ \A x \in Handlers : x # h => handler'[x] = handler[x]
      BY <1>0, <2>0, <2>6, <2>n, NackEffect DEF PassFails
    <3>3. LockInv'
      BY <1>0, <2>6, <3>2, LockReleased DEF PassFails
    <3> QED
      BY <1>0, <1>f, <2>6, <3>1, <3>2, <3>3 DEF PassFails, known
  <2>7. CASE Ack(h)
    <3>1. /\ handler' \in [Handlers -> HandlerStates]
          /\ \A x \in Handlers : handler'[x].phase = "passing" <=> handler[x].phase = "passing"
      <4>1. CASE handler[h].alive
        BY <1>0, <2>7, <2>n, <4>1, StepEffect DEF Ack
      <4>2. CASE ~handler[h].alive
        BY <1>0, <2>7, <2>n, <4>2, FreeType DEF Ack
      <4> QED
        BY <4>1, <4>2
    <3>2. msg' \in MsgType
      <4>1. handler[h].dump \in Dumps /\ {"acked", "skipped"} \subseteq Places
        BY <2>0, <2>7 DEF Ack, Places
      <4>2. msg' = msg \/ \E p \in {"acked", "skipped"} :
                             msg' = [msg EXCEPT ![handler[h].dump][handler[h].type] = p]
        BY <2>7 DEF Ack
      <4>3. \A p \in {"acked", "skipped"} : [msg EXCEPT ![handler[h].dump][handler[h].type] = p] \in MsgType
        BY <1>0, <2>0, <4>1, MsgExcept, Zenon
      <4> QED
        BY <4>2, <4>3, <1>0
    <3> QED
      BY <1>0, <2>7, <3>1, <3>2, LockKept DEF Ack, known, latchVars
  <2>8. CASE Report(h) \/ SkipReport(h)
    <3>1. /\ handler' \in [Handlers -> HandlerStates]
          /\ \A x \in Handlers : handler'[x].phase = "passing" <=> handler[x].phase = "passing"
      BY <1>0, <2>8, <2>n, FreeType DEF Report, SkipReport
    <3>2. streak' \in [Types -> 0..Cardinality(Dumps)] /\ faults' \in 0..MaxFaults
      BY <1>0, <1>f, <2>0, <2>8, StreakType DEF Report, SkipReport
    <3> QED
      BY <1>0, <2>8, <3>1, <3>2, LockKept DEF Report, SkipReport, known, latchVars
  <2> QED
    BY <1>8, <2>1, <2>2, <2>3, <2>4, <2>5, <2>6, <2>7, <2>8 DEF HandlerStep
<1> QED
  BY <1>3, <1>4, <1>5, <1>6, <1>7, <1>8 DEF Next

-----------------------------------------------------------------------------
(* How handlers and deliveries move                                        *)

\* What a step may do to a handler: it keeps its delivery while it is busy, begins a pass only by
\* a signal that should refresh, and is left with only its ack by a skipped or declined signal
\* or by its pass, and reports after its ack.
HandlerMove(x) ==
    /\ handler'[x].phase # "free" => handler'[x].dump \in Dumps
    /\ handler'[x].phase \in {"passing", "acking", "reporting"} =>
         /\ handler'[x].dump = handler[x].dump /\ handler'[x].type = handler[x].type
         /\ handler'[x].alive => handler[x].alive
    /\ handler'[x].phase = "passing" => \/ handler[x].phase = "passing"
                                        \/ Signal(x) /\ ShouldRefresh(handler[x].dump, handler[x].type)
    /\ handler'[x].phase = "acking" => \/ handler[x].phase = "acking"
                                       \/ SkipSignal(x) \/ Pass(x)
                                       \/ Signal(x) /\ ~ShouldRefresh(handler[x].dump, handler[x].type)
    /\ handler'[x].phase = "reporting" => handler[x].phase \in {"acking", "reporting"}

\* Every step moves handlers that way, and acks only the delivery of a handler that has just the
\* ack left.
LEMMA Moves ==
    ASSUME TypeOK, HandlersAreBusy, [Next]_vars
    PROVE  /\ \A x \in Handlers : HandlerMove(x)
           /\ \A d \in Dumps, t \in Types : msg'[d][t] = "acked" => Discharged(d, t)
<1> DEFINE Acked == \A d \in Dumps, t \in Types : msg'[d][t] = "acked" => Discharged(d, t)
<1>0. msg \in MsgType /\ handler \in [Handlers -> HandlerStates]
  BY DEF TypeOK, MsgType
<1>1. ASSUME NEW x \in Handlers, handler'[x] = handler[x] \/ handler'[x] = Free
      PROVE  HandlerMove(x)
  BY <1>1 DEF HandlerMove, HandlersAreBusy, Free
<1>2. ASSUME \A d \in Dumps, t \in Types : msg'[d][t] \in {msg[d][t], "ready", "out"} PROVE Acked
  BY <1>2 DEF Discharged
<1>3. ASSUME msg' = msg PROVE Acked
  BY <1>3 DEF Discharged
<1>4. CASE UNCHANGED vars
  BY <1>1, <1>3, <1>4 DEF vars
<1>5. CASE StartDump
  <2>1. \A d \in Dumps, t \in Types : msg'[d][t] \in {msg[d][t], "ready", "out"}
    BY <1>0, <1>5 DEF StartDump, MsgType
  <2> QED
    BY <1>1, <1>2, <1>5, <2>1 DEF StartDump
<1>6. CASE ConnectionLost
  <2>1. Acked
    BY <1>0, <1>2, <1>6, MarkersBackEffect DEF ConnectionLost
  <2>2. ASSUME NEW x \in Handlers PROVE HandlerMove(x)
    <3>1. /\ handler'[x].phase = handler[x].phase /\ handler'[x].dump = handler[x].dump
          /\ handler'[x].type = handler[x].type /\ handler'[x].alive = FALSE
      BY <1>0, <1>6 DEF ConnectionLost, HandlerStates
    <3> QED
      BY <3>1 DEF HandlerMove, HandlersAreBusy
  <2> QED
    BY <2>1, <2>2
<1>7. CASE Restart
  BY <1>0, <1>1, <1>2, <1>7, MarkersBackEffect DEF Restart
<1>8. ASSUME NEW h \in Handlers, NEW d \in Dumps, NEW t \in Types, Deliver(h, d, t)
      PROVE  Acked /\ \A x \in Handlers : HandlerMove(x)
  <2>1. \A e \in Dumps, u \in Types : msg'[e][u] \in {msg[e][u], "ready", "out"}
    BY <1>0, <1>8, MsgExcept DEF Deliver
  <2>2. handler'[h].phase = "vetting" /\ handler'[h].dump = d
    BY <1>0, <1>8 DEF Deliver
  <2>3. HandlerMove(h)
    BY <2>2 DEF HandlerMove
  <2>4. ASSUME NEW x \in Handlers, x # h PROVE HandlerMove(x)
    BY <1>0, <1>1, <1>8, <2>4 DEF Deliver
  <2> QED
    BY <1>2, <2>1, <2>3, <2>4
<1>9. ASSUME NEW h \in Handlers, HandlerStep(h) PROVE Acked /\ \A x \in Handlers : HandlerMove(x)
  <2>0. handler[h].type \in Types /\ (handler[h].phase # "free" => handler[h].dump \in Dumps)
    BY <1>0 DEF HandlersAreBusy, HandlerStates
  <2>n. {"signalling", "passing", "acking", "reporting"} \subseteq Phases
    BY DEF Phases
  <2>1. ASSUME Nack(h), handler[h].phase # "free" PROVE Acked /\ \A x \in Handlers : HandlerMove(x)
    BY <1>0, <1>1, <1>2, <2>0, <2>1, NackEffect
  <2>2. ASSUME NEW p \in Phases, Step(h, p), handler[h].phase # "free", msg' = msg, HandlerMove(h)
        PROVE  Acked /\ \A x \in Handlers : HandlerMove(x)
    BY <1>0, <1>1, <1>3, <2>2, StepEffect
  <2>3. CASE Vet(h)
    <3>1. CASE Step(h, "signalling") /\ msg' = msg
      <4>1. HandlerMove(h)
        BY <1>0, <2>0, <2>3, <2>n, <3>1, StepEffect DEF HandlerMove, Vet
      <4> QED
        BY <2>2, <2>3, <2>n, <3>1, <4>1 DEF Vet
    <3>2. CASE handler' = [handler EXCEPT ![h].phase = "signalling", ![h].clean = TRUE] /\ msg' = msg
      <4>1. handler'[h].phase = "signalling" /\ handler'[h].dump = handler[h].dump
        BY <1>0, <3>2 DEF HandlerStates
      <4>2. HandlerMove(h)
        BY <2>0, <2>3, <4>1 DEF HandlerMove, Vet
      <4> QED
        BY <1>0, <1>1, <1>3, <3>2, <4>2
    <3> QED
      BY <2>1, <2>3, <3>1, <3>2 DEF Vet
  <2>4. CASE SkipSignal(h)
    <3>1. HandlerMove(h)
      BY <1>0, <2>0, <2>4, <2>n, StepEffect DEF HandlerMove, SkipSignal
    <3> QED
      BY <2>2, <2>4, <2>n, <3>1 DEF SkipSignal
  <2>5. CASE Signal(h)
    <3>1. CASE ShouldRefresh(handler[h].dump, handler[h].type)
      <4>1. Step(h, "passing") /\ msg' = msg /\ handler[h].phase = "signalling"
        BY <2>5, <3>1 DEF Signal
      <4>2. HandlerMove(h)
        BY <1>0, <2>0, <2>5, <2>n, <3>1, <4>1, StepEffect DEF HandlerMove
      <4> QED
        BY <2>2, <2>n, <4>1, <4>2
    <3>2. CASE ~ShouldRefresh(handler[h].dump, handler[h].type)
      <4>1. Step(h, "acking") /\ msg' = msg /\ handler[h].phase = "signalling"
        BY <2>5, <3>2 DEF Signal
      <4>2. HandlerMove(h)
        BY <1>0, <2>0, <2>5, <2>n, <3>2, <4>1, StepEffect DEF HandlerMove
      <4> QED
        BY <2>2, <2>n, <4>1, <4>2
    <3> QED
      BY <3>1, <3>2
  <2>6. CASE SignalFails(h) \/ PassFails(h)
    BY <2>1, <2>6 DEF SignalFails, PassFails
  <2>7. CASE Pass(h)
    <3>1. HandlerMove(h)
      BY <1>0, <2>0, <2>7, <2>n, StepEffect DEF HandlerMove, Pass
    <3> QED
      BY <2>2, <2>7, <2>n, <3>1 DEF Pass
  <2>8. CASE Ack(h)
    <3>2. CASE handler[h].alive
      <4>0. HandlerMove(h) /\ \A x \in Handlers : x # h => handler'[x] = handler[x]
        BY <1>0, <2>0, <2>8, <2>n, <3>2, StepEffect DEF HandlerMove, Ack
      <4>1. msg' = [msg EXCEPT ![handler[h].dump][handler[h].type] =
                                 IF Latched(handler[h].dump) THEN "acked" ELSE "skipped"]
        BY <2>8, <3>2 DEF Ack
      <4>2. ASSUME NEW d \in Dumps, NEW t \in Types, msg'[d][t] = "acked"
            PROVE  msg[d][t] = "acked" \/ (d = handler[h].dump /\ t = handler[h].type /\ Latched(d))
        BY <1>0, <4>1, <4>2 DEF MsgType
      <4>3. Acked
        BY <2>8, <3>2, <4>2 DEF Discharged, Ack
      <4> QED
        BY <1>1, <4>0, <4>3
    <3>3. CASE ~handler[h].alive
      BY <1>0, <1>1, <1>3, <2>8, <3>3 DEF Ack
    <3> QED
      BY <3>2, <3>3
  <2>9. CASE Report(h) \/ SkipReport(h)
    <3>1. msg' = msg /\ \A x \in Handlers : handler'[x] = handler[x] \/ handler'[x] = Free
      BY <1>0, <2>9 DEF Report, SkipReport
    <3> QED
      BY <1>1, <1>3, <3>1
  <2> QED
    BY <1>9, <2>3, <2>4, <2>5, <2>6, <2>7, <2>8, <2>9 DEF HandlerStep
<1> QED
  BY <1>4, <1>5, <1>6, <1>7, <1>8, <1>9 DEF Next

-----------------------------------------------------------------------------
(* The parts of the invariant                                              *)

\* A signal that begins a pass has recorded the extraction's last type, and whoever gets past its
\* signal on a process that found the relation has recorded it.
LEMMA BusyStep ==
    ASSUME TypeOK, HandlersAreBusy, [Next]_vars
    PROVE  HandlersAreBusy'
<1> SUFFICES ASSUME NEW x \in Handlers, handler'[x].phase # "free"
             PROVE  /\ handler'[x].dump \in Dumps
                    /\ handler'[x].phase = "passing" => /\ Latched(handler[x].dump)'
                                                        /\ Types \subseteq signals'[handler'[x].dump]
                    /\ handler'[x].phase \in {"acking", "reporting"} /\ Latched(handler[x].dump)'
                         => handler'[x].type \in signals'[handler'[x].dump]
  BY DEF HandlersAreBusy, Latched
<1>0. signals \in [Dumps -> SUBSET Types] /\ handler[x].type \in Types
  BY DEF TypeOK, HandlerStates
<1>1. HandlerMove(x) /\ declared' = declared /\ named' = named /\ \A d \in Dumps : signals[d] \subseteq signals'[d]
  BY Moves, LatchGrows
<1> DEFINE d == handler[x].dump
           Kept == handler'[x].dump = d /\ handler'[x].type = handler[x].type /\ d \in Dumps
<1>2. handler'[x].phase \in {"passing", "acking", "reporting"} => Kept
  BY <1>1 DEF HandlerMove
<1>3. ASSUME Signal(x), d \in Dumps PROVE Latched(d) /\ signals'[d] = signals[d] \cup {handler[x].type}
  BY <1>0, <1>3 DEF Signal, RecordExtractionSignal
<1>4. CASE handler'[x].phase = "passing"
  <2>1. CASE handler[x].phase = "passing"
    BY <1>1, <1>2, <1>4, <2>1 DEF HandlersAreBusy, Latched
  <2>2. CASE Signal(x) /\ ShouldRefresh(handler[x].dump, handler[x].type)
    BY <1>1, <1>2, <1>3, <1>4, <2>2 DEF ShouldRefresh, Latched
  <2> QED
    BY <1>1, <1>4, <2>1, <2>2 DEF HandlerMove
<1>5. CASE handler'[x].phase \in {"acking", "reporting"}
  <2>1. CASE handler[x].phase \in {"acking", "reporting"}
    BY <1>1, <1>2, <1>5, <2>1 DEF HandlersAreBusy, Latched
  <2>2. CASE SkipSignal(x)
    BY <1>1, <1>2, <1>5, <2>2 DEF SkipSignal, Latched
  <2>3. CASE Pass(x)
    <3>1. handler[x].phase = "passing"
      BY <2>3 DEF Pass
    <3>2. Types \subseteq signals[d]
      BY <3>1 DEF HandlersAreBusy
    <3> QED
      BY <1>0, <1>1, <1>2, <1>5, <3>2
  <2>4. CASE Signal(x)
    BY <1>2, <1>3, <1>5, <2>4
  <2> QED
    BY <1>1, <1>5, <2>1, <2>2, <2>3, <2>4 DEF HandlerMove
<1> QED
  BY <1>1, <1>4, <1>5 DEF HandlerMove

\* A stamp is set by a pass, which follows the last signal, and a signal is recorded with its row.
LEMMA LegacyStep ==
    ASSUME TypeOK, RowsAreRanked, HandlersAreBusy, LegacyRowsAreComplete, [Next]_vars
    PROVE  LegacyRowsAreComplete'
<1>0. /\ signals \in [Dumps -> SUBSET Types] /\ created \in [Dumps -> Dumps \cup {0}] /\ refreshed \subseteq Dumps
      /\ handler \in [Handlers -> HandlerStates]
  BY DEF TypeOK
<1>1. /\ \A d \in Dumps : signals[d] \subseteq signals'[d]
      /\ \A d \in Dumps : HasRow(d) => created'[d] = created[d]
  BY LatchGrows, RanksAreStable
<1>2. \A d \in refreshed : Types \subseteq signals'[d] /\ created'[d] # 0
  BY <1>0, <1>1 DEF LegacyRowsAreComplete, HasRow
<1>3. CASE UNCHANGED <<signals, refreshed>>
  <2>1. \A d \in Dumps : signals'[d] # {} => created'[d] # 0
    BY <1>1, <1>3 DEF LegacyRowsAreComplete, HasRow
  <2> QED
    BY <1>2, <1>3, <2>1 DEF LegacyRowsAreComplete
<1>4. ASSUME NEW h \in Handlers, Signal(h) \/ SignalFails(h), ~UNCHANGED signals
      PROVE  LegacyRowsAreComplete'
  <2> DEFINE d == handler[h].dump
  <2>1. d \in Dumps /\ RecordExtractionSignal(d, handler[h].type) /\ refreshed' = refreshed
    BY <1>4 DEF Signal, SignalFails, HandlersAreBusy
  <2>2. created'[d] # 0 /\ \A e \in Dumps : e # d => created'[e] = created[e]
    BY <1>0, <2>1, WithRowRanks DEF RecordExtractionSignal
  <2>3. \A e \in Dumps : e # d => signals'[e] = signals[e]
    BY <1>0, <2>1 DEF RecordExtractionSignal
  <2>4. \A e \in Dumps : signals'[e] # {} => created'[e] # 0
    BY <2>2, <2>3 DEF LegacyRowsAreComplete
  <2> QED
    BY <1>2, <2>1, <2>4 DEF LegacyRowsAreComplete
<1>5. ASSUME NEW h \in Handlers, Pass(h) \/ PassFails(h), ~UNCHANGED refreshed
      PROVE  LegacyRowsAreComplete'
  <2> DEFINE d == handler[h].dump
  <2>1. /\ d \in Dumps /\ Types \subseteq signals[d] /\ refreshed' = refreshed \cup {d}
        /\ signals' = signals /\ created' = created
    BY <1>5 DEF Pass, PassFails, CommitPass, HandlersAreBusy
  <2>2. created[d] # 0
    BY <1>0, <2>1, NamesAssumption DEF LegacyRowsAreComplete
  <2> QED
    BY <2>1, <2>2 DEF LegacyRowsAreComplete
<1>6. CASE StartDump \/ ConnectionLost \/ Restart
  BY <1>3, <1>6 DEF StartDump, ConnectionLost, Restart, latchVars
<1>7. ASSUME NEW h \in Handlers, NEW d \in Dumps, NEW t \in Types, Deliver(h, d, t)
      PROVE  UNCHANGED <<signals, refreshed>>
  BY <1>7 DEF Deliver, latchVars
<1>8. ASSUME NEW h \in Handlers, HandlerStep(h) PROVE LegacyRowsAreComplete'
  <2>1. CASE Vet(h) \/ SkipSignal(h) \/ Ack(h) \/ Report(h) \/ SkipReport(h)
    BY <1>3, <2>1 DEF Vet, SkipSignal, Ack, Report, SkipReport, latchVars
  <2>2. CASE Signal(h) \/ SignalFails(h)
    BY <1>3, <1>4, <2>2 DEF Signal, SignalFails
  <2>3. CASE Pass(h) \/ PassFails(h)
    BY <1>3, <1>5, <2>3 DEF Pass, PassFails, CommitPass
  <2> QED
    BY <1>8, <2>1, <2>2, <2>3 DEF HandlerStep
<1>9. CASE UNCHANGED vars
  BY <1>3, <1>9 DEF vars, latchVars
<1> QED
  BY <1>3, <1>6, <1>7, <1>8, <1>9 DEF Next

\* What is resolved stays so, once it has a row.
LEMMA ResolvedIsStable ==
    ASSUME TypeOK, RowsAreRanked, HandlersAreBusy, [Next]_vars, NEW d \in Dumps, HasRow(d), Resolved(d)
    PROVE  Resolved(d)'
  BY LatchGrows, RanksAreStable DEF Resolved

\* A signal, when nothing is left of its extraction but acks, is declined only for a stamp or a
\* newer row.
LEMMA DeclinedIsResolved ==
    ASSUME TypeOK, RowsAreRanked, HandlersAreBusy, NEW h \in Handlers, Signal(h),
           NEW d, NEW t, d = handler[h].dump, t = handler[h].type, ~ShouldRefresh(d, t)
    PROVE  t \in signals'[d] /\ (Types \subseteq signals'[d] => Resolved(d)')
<1>0. signals \in [Dumps -> SUBSET Types] /\ d \in Dumps
  BY DEF Signal, HandlersAreBusy, TypeOK
<1>1. signals'[d] = signals[d] \cup {t} /\ created' = WithRow(d) /\ refreshed' = refreshed
  BY <1>0 DEF Signal, RecordExtractionSignal
<1>2. ~(Types \subseteq signals[d] \cup {t} /\ d \notin refreshed /\ ~Superseded(d))
  BY DEF ShouldRefresh
<1>3. Superseded(d) => \E e \in Dumps : created'[e] > created'[d]
  BY <1>1 DEF Superseded
<1> QED
  BY <1>1, <1>2, <1>3 DEF Resolved

\* Nobody gets past its signal without recording it, nor as the last one without resolving.
LEMMA CoveredStep ==
    ASSUME TypeOK, RowsAreRanked, HandlersAreBusy, LegacyRowsAreComplete, AcksAreCovered, [Next]_vars
    PROVE  AcksAreCovered'
<1> SUFFICES ASSUME NEW d \in Dumps
             PROVE  /\ \A t \in Types : Discharged(d, t)' => t \in signals'[d]
                    /\ (\A t \in Types : Discharged(d, t)') => Resolved(d)'
  BY DEF AcksAreCovered
<1>0. /\ signals[d] \subseteq signals'[d]
      /\ \A x \in Handlers : HandlerMove(x)
      /\ \A t \in Types : msg'[d][t] = "acked" => Discharged(d, t)
      /\ \A x \in Handlers : handler'[x].phase # "free" => Latched(d)' = Latched(d)
  BY Moves, LatchGrows DEF Latched
\* Whoever is newly discharged was just let past its signal, or had its pass.
<1> DEFINE New(x, t) == /\ x \in Handlers /\ handler[x].dump = d /\ handler[x].type = t
                        /\ \/ Pass(x)
                           \/ Signal(x) /\ ~ShouldRefresh(handler[x].dump, handler[x].type)
<1>1. ASSUME NEW t \in Types, Discharged(d, t)', ~Discharged(d, t) PROVE \E x \in Handlers : New(x, t)
  <2>1. PICK x \in Handlers : /\ Latched(d)' /\ handler'[x].phase = "acking" /\ handler'[x].alive
                              /\ handler'[x].dump = d /\ handler'[x].type = t
    BY <1>0, <1>1 DEF Discharged
  <2>2. HandlerMove(x)
    BY <1>0
  <2>3. handler[x].dump = d /\ handler[x].type = t /\ handler[x].alive /\ Latched(d)
    BY <1>0, <2>1, <2>2 DEF HandlerMove
  <2>4. handler[x].phase # "acking"
    BY <1>1, <2>3 DEF Discharged
  <2>5. ~SkipSignal(x)
    BY <2>3 DEF SkipSignal
  <2> QED
    BY <2>1, <2>2, <2>3, <2>4, <2>5 DEF HandlerMove
<1>2. ASSUME NEW t \in Types, NEW x \in Handlers, New(x, t)
      PROVE  t \in signals'[d] /\ (Types \subseteq signals'[d] => Resolved(d)')
  <2>1. CASE Pass(x)
    <3>1. Types \subseteq signals'[d] /\ refreshed' = refreshed \cup {d}
      BY <1>0, <1>2, <2>1 DEF Pass, CommitPass, HandlersAreBusy
    <3> QED
      BY <3>1 DEF Resolved
  <2>2. CASE Signal(x) /\ ~ShouldRefresh(handler[x].dump, handler[x].type)
    BY <1>2, <2>2, DeclinedIsResolved
  <2> QED
    BY <1>2, <2>1, <2>2
<1>3. \A t \in Types : Discharged(d, t)' => t \in signals'[d]
  BY <1>0, <1>1, <1>2 DEF AcksAreCovered
<1>4. ASSUME \A t \in Types : Discharged(d, t)' PROVE Resolved(d)'
  <2>1. CASE \A t \in Types : Discharged(d, t)
    <3>1. Resolved(d) /\ HasRow(d)
      BY <1>0, <2>1, NamesAssumption DEF AcksAreCovered, LegacyRowsAreComplete, HasRow
    <3> QED
      BY <3>1, ResolvedIsStable
  <2>2. CASE ~ \A t \in Types : Discharged(d, t)
    <3>1. PICK t \in Types, x \in Handlers : New(x, t)
      BY <1>1, <1>4, <2>2
    <3>2. Types \subseteq signals'[d]
      BY <1>3, <1>4
    <3> QED
      BY <1>2, <3>1, <3>2
  <2> QED
    BY <2>1, <2>2
<1> QED
  BY <1>3, <1>4

\* The extractions that had a pass have rows, which keep their ranks.
LEMMA PassedRowsAreStable ==
    ASSUME TypeOK, RowsAreRanked, HandlersAreBusy, LegacyRowsAreComplete, PassesAreStamped,
           [Next]_vars, NEW i \in 1..Len(passes)
    PROVE  /\ passes[i] \in Dumps /\ HasRow(passes[i]) /\ passes[i] \in refreshed
           /\ created'[passes[i]] = created[passes[i]]
<1>1. passes[i] \in refreshed /\ passes[i] \in Dumps
  BY DEF PassesAreStamped, TypeOK
<1>2. HasRow(passes[i])
  BY <1>1 DEF LegacyRowsAreComplete, HasRow
<1> QED
  BY <1>1, <1>2, RanksAreStable

\* A step commits no pass, or that of the one handler whose pass runs, and then none runs on.
LEMMA PassChange ==
    ASSUME TypeOK, HandlersAreBusy, [Next]_vars
    PROVE  \/ passes' = passes
           \/ \E h \in Handlers :
                /\ handler[h].phase = "passing" /\ handler[h].dump \in Dumps
                /\ passes' = Append(passes, handler[h].dump)
                /\ refreshed' = refreshed \cup {handler[h].dump}
                /\ created' = created
                /\ \A x \in Handlers : handler'[x].phase # "passing"
<1>0. handler \in [Handlers -> HandlerStates] /\ msg \in MsgType
      /\ \A h \in Handlers : lock = h <=> handler[h].phase = "passing"
  BY DEF TypeOK, MsgType
<1>1. ASSUME NEW h \in Handlers, Pass(h) \/ PassFails(h)
      PROVE  \/ passes' = passes
             \/ /\ handler[h].phase = "passing" /\ handler[h].dump \in Dumps
                /\ passes' = Append(passes, handler[h].dump)
                /\ refreshed' = refreshed \cup {handler[h].dump}
                /\ created' = created
                /\ \A x \in Handlers : handler'[x].phase # "passing"
  <2>1. handler[h].phase = "passing" /\ handler[h].dump \in Dumps /\ created' = created
    BY <1>1 DEF Pass, PassFails, HandlersAreBusy
  <2>2. \A x \in Handlers : x # h => handler[x].phase # "passing" /\ handler'[x] = handler[x]
    BY <1>0, <1>1, <2>1 DEF Pass, PassFails, Step, Nack
  <2>3. handler'[h].phase # "passing"
    BY <1>0, <1>1 DEF Pass, PassFails, Step, Nack, Free, HandlerStates
  <2>4. \A x \in Handlers : handler'[x].phase # "passing"
    BY <2>2, <2>3
  <2> QED
    BY <1>1, <2>1, <2>4 DEF Pass, PassFails, CommitPass
<1>2. ASSUME NEW h \in Handlers, HandlerStep(h), ~Pass(h), ~PassFails(h) PROVE passes' = passes
  BY <1>2 DEF HandlerStep, Vet, SkipSignal, Signal, SignalFails, Ack, Report, SkipReport
<1>3. ASSUME NEW h \in Handlers, NEW d \in Dumps, NEW t \in Types, Deliver(h, d, t) PROVE passes' = passes
  BY <1>3 DEF Deliver
<1>4. CASE StartDump \/ ConnectionLost \/ Restart \/ UNCHANGED vars
  BY <1>4 DEF StartDump, ConnectionLost, Restart, vars
<1> QED
  BY <1>1, <1>2, <1>3, <1>4 DEF Next

\* A pass begins for the newest row, which has no stamp, and the lock keeps others from
\* committing theirs before it ends.
LEMMA StampedStep ==
    ASSUME TypeOK, RowsAreRanked, HandlersAreBusy, LegacyRowsAreComplete, PassesAreStamped,
           PassesFollowExtractions, [Next]_vars
    PROVE  PassesAreStamped' /\ PassesFollowExtractions'
<1>0. /\ passes \in Seq(Dumps) /\ signals \in [Dumps -> SUBSET Types]
      /\ RowsAreRanked' /\ created' \in [Dumps -> Dumps \cup {0}]
      /\ \A d \in Dumps : d \in Nat
      /\ refreshed \subseteq refreshed' /\ \A x \in Handlers : HandlerMove(x)
  BY RanksAreStable, LatchGrows, Moves, DumpNumbers DEF TypeOK
<1>p. \A i \in 1..Len(passes) : /\ passes[i] \in Dumps /\ HasRow(passes[i]) /\ passes[i] \in refreshed
                                /\ created'[passes[i]] = created[passes[i]]
  BY PassedRowsAreStable
<1>1. CASE passes' = passes
  <2>1. PassesFollowExtractions'
    BY <1>p, <1>1 DEF PassesFollowExtractions
  <2>2. ASSUME NEW x \in Handlers, handler'[x].phase = "passing", NEW i \in 1..Len(passes)
        PROVE  created'[passes[i]] < created'[handler'[x].dump]
    <3>1. HandlerMove(x) /\ handler'[x].dump = handler[x].dump /\ handler[x].dump \in Dumps
      BY <1>0, <2>2 DEF HandlerMove
    <3>2. CASE handler[x].phase = "passing"
      <4>1. HasRow(handler[x].dump)
        BY <3>1, <3>2, NamesAssumption DEF HandlersAreBusy, LegacyRowsAreComplete, HasRow
      <4>2. created[passes[i]] < created[handler[x].dump]
        BY <3>2 DEF PassesAreStamped
      <4>3. created'[handler[x].dump] = created[handler[x].dump]
        BY <3>1, <4>1, RanksAreStable
      <4> QED
        BY <1>p, <3>1, <4>2, <4>3
    <3>3. CASE Signal(x) /\ ShouldRefresh(handler[x].dump, handler[x].type)
      <4> DEFINE d == handler[x].dump
      <4>1. d \notin refreshed /\ created' = WithRow(d) /\ \A e \in Dumps : ~(created'[e] > created'[d])
        BY <3>3 DEF Signal, ShouldRefresh, Superseded, RecordExtractionSignal
      <4>2. passes[i] \in Dumps /\ passes[i] # d /\ created'[passes[i]] # 0
        BY <1>p, <4>1 DEF HasRow
      <4>3. created'[passes[i]] # created'[d]
        BY <1>0, <3>1, <4>2 DEF RowsAreRanked, HasRow
      <4>4. created'[passes[i]] \in Nat /\ created'[d] \in Nat
        BY <1>0, <3>1, <4>2
      <4>5. ~(created'[passes[i]] > created'[d])
        BY <4>1, <4>2
      <4> QED
        BY <3>1, <4>3, <4>4, <4>5
    <3> QED
      BY <2>2, <3>1, <3>2, <3>3 DEF HandlerMove
  <2>3. PassesAreStamped'
    BY <1>0, <1>1, <1>p, <2>2 DEF PassesAreStamped
  <2> QED
    BY <2>1, <2>3
<1>2. ASSUME NEW h \in Handlers, handler[h].phase = "passing", handler[h].dump \in Dumps,
             passes' = Append(passes, handler[h].dump), refreshed' = refreshed \cup {handler[h].dump},
             created' = created, \A x \in Handlers : handler'[x].phase # "passing"
      PROVE  PassesAreStamped' /\ PassesFollowExtractions'
  <2> DEFINE d == handler[h].dump
             n == Len(passes)
  <2>1. /\ n \in Nat /\ Len(passes') = n + 1 /\ passes'[n + 1] = d
        /\ \A i \in 1..n : passes'[i] = passes[i]
    BY <1>0, <1>2
  <2>2. \A i \in 1..n : created[passes[i]] < created[d]
    BY <1>2 DEF PassesAreStamped
  <2>3. \A i \in 1..(n + 1) : passes'[i] \in refreshed'
    BY <1>2, <1>p, <2>1
  <2>4. PassesAreStamped'
    BY <1>2, <2>1, <2>3 DEF PassesAreStamped
  <2>5. ASSUME NEW i \in 1..(n + 1), NEW j \in 1..(n + 1), i < j
        PROVE  created[passes'[i]] < created[passes'[j]]
    <3>1. i \in 1..n
      BY <2>1, <2>5
    <3>2. CASE j = n + 1
      BY <2>1, <2>2, <3>1, <3>2
    <3>3. CASE j \in 1..n
      BY <2>1, <2>5, <3>1, <3>3 DEF PassesFollowExtractions
    <3> QED
      BY <2>1, <3>2, <3>3
  <2> QED
    BY <1>2, <2>1, <2>4, <2>5 DEF PassesFollowExtractions
<1> QED
  BY <1>1, <1>2, PassChange

-----------------------------------------------------------------------------
(* The invariant and what it gives                                         *)

\* Nothing has happened yet.
LEMMA LatchInit == Init => LatchInv
<1> SUFFICES ASSUME Init PROVE LatchInv
  OBVIOUS
<1>1. TypeOK
  <2>1. handler \in [Handlers -> HandlerStates] /\ \A h \in Handlers : handler[h].phase = "free" /\ h # NoHandler
    BY FreeType, NamesAssumption DEF Init, Free
  <2>2. streak \in [Types -> 0..Cardinality(Dumps)] /\ faults \in 0..MaxFaults
    BY DumpNumbers, NamesAssumption DEF Init
  <2> QED
    BY <2>1, <2>2 DEF Init, TypeOK, Places
<1>2. RowsAreRanked
  <2>1. {e \in Dumps : HasRow(e)} = {}
    BY DEF Init, HasRow
  <2>2. Cardinality({e \in Dumps : HasRow(e)}) = 0
    BY <2>1, FS_EmptySet
  <2>3. \A d \in Dumps : created[d] = 0
    BY DEF Init
  <2>4. \A d \in Dumps : created[d] <= Cardinality({e \in Dumps : HasRow(e)})
    BY <2>2, <2>3
  <2> QED
    BY <2>3, <2>4 DEF RowsAreRanked, HasRow
<1>3. LegacyRowsAreComplete /\ PassesFollowExtractions
  BY DEF Init, LegacyRowsAreComplete, PassesFollowExtractions
<1>4. \A h \in Handlers : handler[h].phase = "free"
  BY DEF Init, Free
<1>5. HandlersAreBusy /\ PassesAreStamped
  BY <1>4 DEF HandlersAreBusy, PassesAreStamped, Init
<1>6. AcksAreCovered
  BY <1>4, NamesAssumption DEF Init, AcksAreCovered, Discharged
<1> QED
  BY <1>1, <1>2, <1>3, <1>5, <1>6 DEF LatchInv

\* Every step keeps it.
LEMMA LatchStep == LatchInv /\ [Next]_vars => LatchInv'
<1> SUFFICES ASSUME LatchInv, [Next]_vars PROVE LatchInv'
  OBVIOUS
<1>1. /\ TypeOK /\ RowsAreRanked /\ LegacyRowsAreComplete /\ HandlersAreBusy
      /\ AcksAreCovered /\ PassesAreStamped /\ PassesFollowExtractions
  BY DEF LatchInv
<1> QED
  BY <1>1, TypeStep, RanksAreStable, BusyStep, LegacyStep, CoveredStep, StampedStep DEF LatchInv

\* The inductive invariant holds in every reachable state.
THEOREM LatchInvariant == Spec => []LatchInv
  BY LatchInit, LatchStep, PTL DEF Spec

\* The variables keep their types, and derived_refresh_lock is held exactly while a pass runs.
THEOREM LatchTypes == Spec => []TypeOK
<1>1. LatchInv => TypeOK
  BY DEF LatchInv
<1> QED
  BY <1>1, LatchInvariant, PTL

\* Whatever markers are redelivered, whatever handlers fail or die and whatever processes come and
\* go without the relation, an extraction whose markers are all acked after their signals is
\* stamped or has been overtaken by a newer row: no pass is lost.
THEOREM NoPassIsLost == Spec => []SettledDumpIsRefreshed
<1>1. LatchInv => SettledDumpIsRefreshed
  BY DEF LatchInv, AcksAreCovered, SettledDumpIsRefreshed, SettledOnLatch, Discharged, Resolved
<1> QED
  BY <1>1, LatchInvariant, PTL

\* At most one pass per extraction, in the order in which the extractions reached the latch.
THEOREM PassesAreOrdered == Spec => []PassesFollowExtractions
<1>1. LatchInv => PassesFollowExtractions
  BY DEF LatchInv
<1> QED
  BY <1>1, LatchInvariant, PTL

\* The rows that a switch to the durable mode inherits are complete.
THEOREM InheritedRowsAreComplete == Spec => []LegacyRowsAreComplete
<1>1. LatchInv => LegacyRowsAreComplete
  BY DEF LatchInv
<1> QED
  BY <1>1, LatchInvariant, PTL

\* What is reported after a clean purge counts no veto of this extraction or an older one, since
\* the handler's signal is on the latch before it acks and counts.
THEOREM CleanPurgesAreReported == Spec => CleanPurgeEndsStreak
<1> DEFINE A == \A h \in Handlers :
                  LET m == handler[h]
                  IN  Report(h) /\ m.clean /\ Latched(m.dump)
                        => m.type \in vetoed[m.dump]
                           \/ streak'[m.type] <= Cardinality({e \in Dumps : e > m.dump /\ m.type \in vetoed[e]})
<1>1. LatchInv /\ [Next]_vars => [A]_vars
  <2> SUFFICES ASSUME LatchInv, NEW h \in Handlers, Report(h), Latched(handler[h].dump),
                      handler[h].type \notin vetoed[handler[h].dump]
               PROVE  streak'[handler[h].type]
                        <= Cardinality({e \in Dumps : e > handler[h].dump /\ handler[h].type \in vetoed[e]})
    OBVIOUS
  <2> DEFINE d == handler[h].dump
             t == handler[h].type
             Counted == {x \in Dumps : /\ t \in vetoed[x]
                                       /\ \A e \in Dumps : e > x => t \in vetoed[e] \/ t \notin signals[e]}
             Newer == {e \in Dumps : e > d /\ t \in vetoed[e]}
  <2>1. d \in Dumps /\ t \in Types /\ streak \in [Types -> 0..Cardinality(Dumps)]
    BY DEF LatchInv, TypeOK, HandlersAreBusy, HandlerStates, Report
  <2>2. t \in signals[d]
    BY <2>1 DEF LatchInv, HandlersAreBusy, Report
  <2>3. streak'[t] = Cardinality(Counted)
    BY <2>1 DEF Report, ConsecutivePurgeVetoes
  <2>4. Counted \subseteq Newer
    BY <2>1, <2>2, DumpNumbers
  <2>5. Newer \in SUBSET Dumps
    OBVIOUS
  <2> HIDE DEF Counted, Newer
  <2>6. Cardinality(Counted) <= Cardinality(Newer)
    BY <2>4, <2>5, DumpNumbers, FS_Subset
  <2> QED
    BY <2>3, <2>6 DEF Newer
<1> QED
  BY <1>1, LatchInvariant, PTL DEF Spec, CleanPurgeEndsStreak
=============================================================================
