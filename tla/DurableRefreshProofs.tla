------------------------ MODULE DurableRefreshProofs ------------------------
(***************************************************************************)
(* Proofs about DurableRefresh for every set of versions, types and        *)
(* workers and every number of faults.                                     *)
(*                                                                         *)
(* The argument has two parts.  DBInv says what the three relations look   *)
(* like between transactions, as a predicate on their contents, so that    *)
(* the two halves of record_durable_signal (reconcile, then accept) can be *)
(* treated one after the other although they are one step.  ClaimInv says  *)
(* what the workers' claims look like.  Their conjunction is inductive.    *)
(***************************************************************************)
EXTENDS DurableRefreshInv, RefreshHealth, OrderLemmas

-----------------------------------------------------------------------------
(* Versions in their order.                                                *)

\* Counting the elements of S up to u numbers them in increasing order from 1.
LEMMA RankOrder ==
    ASSUME NEW S \in SUBSET Nat, IsFiniteSet(S)
    PROVE  LET R(u) == Cardinality({x \in S : x <= u})
           IN  /\ Cardinality(S) \in Nat
               /\ \A u \in Nat : R(u) \in Nat /\ R(u) <= Cardinality(S)
               /\ \A u \in S : R(u) # 0
               /\ \A u, v \in S : u < v => R(u) < R(v)
               /\ \A u \in S : (\A x \in S : x <= u) => R(u) = Cardinality(S)
<1> DEFINE Upto(u) == {x \in S : x <= u}
<1>1. \A u : Upto(u) \in SUBSET S
  OBVIOUS
<1>2. \A y \in S : y \in Nat
  OBVIOUS
<1>3. \A u \in S : u \in Upto(u)
  BY <1>2
<1>4. \A u, v \in S : u < v => Upto(u) \in SUBSET Upto(v) /\ v \notin Upto(u)
  <2> SUFFICES ASSUME NEW u \in S, NEW v \in S, u < v
               PROVE  Upto(u) \in SUBSET Upto(v) /\ v \notin Upto(u)
    OBVIOUS
  <2>1. u \in Nat /\ v \in Nat
    BY <1>2
  <2>2. \A x \in S : x <= u => x <= v
    BY <1>2, <2>1
  <2>3. Upto(u) \in SUBSET Upto(v)
    BY <2>2
  <2>4. ~(v <= u)
    BY <2>1
  <2> QED
    BY <2>3, <2>4
<1>5. \A u \in S : (\A x \in S : x <= u) => Upto(u) = S
  OBVIOUS
<1> SUFFICES /\ Cardinality(S) \in Nat
             /\ \A u : Cardinality(Upto(u)) \in Nat /\ Cardinality(Upto(u)) <= Cardinality(S)
             /\ \A u \in S : Cardinality(Upto(u)) # 0
             /\ \A u, v \in S : u < v => Cardinality(Upto(u)) < Cardinality(Upto(v))
  BY <1>5
<1> HIDE DEF Upto
<1>6. Cardinality(S) \in Nat
  BY FS_CardinalityType
<1>7. \A u : /\ IsFiniteSet(Upto(u))
             /\ Cardinality(Upto(u)) \in Nat
             /\ Cardinality(Upto(u)) <= Cardinality(S)
  BY <1>1, FS_Subset, FS_CardinalityType
<1>8. \A u \in S : Cardinality(Upto(u)) # 0
  BY <1>3, <1>7, FS_EmptySet
<1>9. ASSUME NEW u \in S, NEW v \in S, u < v
      PROVE  Cardinality(Upto(u)) < Cardinality(Upto(v))
  <2>1. /\ Cardinality(Upto(u)) <= Cardinality(Upto(v))
        /\ Cardinality(Upto(v)) = Cardinality(Upto(u)) => Upto(v) = Upto(u)
    BY <1>4, <1>7, <1>9, FS_Subset
  <2>2. Upto(v) # Upto(u)
    BY <1>3, <1>4, <1>9
  <2> QED
    BY <2>1, <2>2, <1>7
<1> QED
  BY <1>6, <1>7, <1>8, <1>9

-----------------------------------------------------------------------------
(* Reconciliation.                                                         *)

\* What _reconcile_legacy computes, from the latch rows alone: the cursor ends at the newest
\* of its old version and the unplaced rows above it, and generations are handed out in
\* version order.
LEMMA ReconcileNumbers ==
    ASSUME DBInv(cursorGen, cursorVer, latched, signals, latchGen, refreshed, jobState, jobGen)
    PROVE  /\ ReconciledGen \in Nat /\ ReconciledVer \in Versions \cup {0}
           /\ ReconciledLatchGen \in [Versions -> Nat]
           /\ ReconciledVer >= cursorVer /\ ReconciledGen >= cursorGen
           /\ Newer = {} => ReconciledVer = cursorVer /\ ReconciledGen = cursorGen
           /\ Newer # {} => ReconciledVer \in Newer /\ ReconciledGen > cursorGen
           /\ Placed = Newer
           /\ \A u \in Newer : /\ u <= ReconciledVer
                               /\ cursorGen < ReconciledLatchGen[u]
                               /\ ReconciledLatchGen[u] <= ReconciledGen
           /\ \A u, v \in Newer : u < v => ReconciledLatchGen[u] < ReconciledLatchGen[v]
           /\ Newer # {} => ReconciledLatchGen[ReconciledVer] = ReconciledGen
           /\ \A u \in Versions \ Newer : ReconciledLatchGen[u] = latchGen[u]
<1> USE DEF DBInv, DBType
<1>1. Newer \in SUBSET Versions /\ Versions \subseteq Nat /\ 0 \notin Versions
  BY VersionsAssumption DEF Newer, Unplaced
<1>2. Newer \in SUBSET Nat /\ IsFiniteSet(Newer)
  BY <1>1, VersionsAssumption, FS_Subset
<1>3. Placed = Newer
  <2>1. cursorVer \notin Unplaced
    BY <1>1 DEF Unplaced, GenInv
  <2>2. \A u \in Unplaced : u \in Nat
    BY <1>1 DEF Unplaced
  <2>3. \A u \in Unplaced : u >= cursorVer <=> u > cursorVer
    BY <1>1, <2>1, <2>2
  <2> QED
    BY <2>3 DEF Placed, Newer
<1>4. /\ Cardinality(Newer) \in Nat
      /\ \A u \in Nat : Rank(u) \in Nat /\ Rank(u) <= Cardinality(Newer)
      /\ \A u \in Newer : Rank(u) # 0
      /\ \A u, v \in Newer : u < v => Rank(u) < Rank(v)
      /\ \A u \in Newer : (\A x \in Newer : x <= u) => Rank(u) = Cardinality(Newer)
  BY <1>2, RankOrder DEF Rank
<1>5. Newer = {} => Cardinality(Newer) = 0
  BY FS_EmptySet
<1>6. Newer # {} => /\ ReconciledVer \in Newer
                    /\ \A x \in Newer : x <= ReconciledVer
  BY <1>2, GreatestExists DEF ReconciledVer
<1>7. \A u \in Newer : ReconciledLatchGen[u] = cursorGen + Rank(u)
  BY <1>1, <1>3 DEF ReconciledLatchGen
<1>8. \A u \in Versions \ Newer : ReconciledLatchGen[u] = latchGen[u]
  BY <1>3 DEF ReconciledLatchGen
<1>9. ReconciledLatchGen \in [Versions -> Nat]
  <2>1. \A u \in Versions : Rank(u) \in Nat
    BY <1>1, <1>4
  <2> QED
    BY <2>1 DEF ReconciledLatchGen
<1>10. \A u \in Newer : u > cursorVer /\ u \in Nat
  BY <1>2 DEF Newer
<1>11. Newer = {} => ReconciledVer = cursorVer /\ ReconciledGen = cursorGen
  BY <1>5 DEF ReconciledVer, ReconciledGen
<1>12. Newer # {} => /\ ReconciledGen > cursorGen
                     /\ ReconciledLatchGen[ReconciledVer] = ReconciledGen
  BY <1>4, <1>6, <1>7 DEF ReconciledGen
<1>13. \A u \in Newer : /\ cursorGen < ReconciledLatchGen[u]
                        /\ ReconciledLatchGen[u] <= ReconciledGen
  BY <1>4, <1>7, <1>10 DEF ReconciledGen
<1>14. \A u, v \in Newer : u < v => ReconciledLatchGen[u] < ReconciledLatchGen[v]
  BY <1>4, <1>7, <1>10
<1>15. ReconciledGen \in Nat /\ ReconciledVer \in Versions \cup {0}
  <2>1. ReconciledGen \in Nat
    BY <1>4 DEF ReconciledGen
  <2>2. ReconciledVer \in Versions \cup {0}
    BY <1>1, <1>6, <1>11
  <2> QED
    BY <2>1, <2>2
<1>16. ReconciledVer >= cursorVer /\ ReconciledGen >= cursorGen
  BY <1>1, <1>6, <1>10, <1>11, <1>12, <1>15
<1> QED
  BY <1>3, <1>6, <1>8, <1>9, <1>11, <1>12, <1>13, <1>14, <1>15, <1>16

\* The relations after _reconcile_legacy satisfy the invariant again, no unplaced row is left
\* above the cursor, and no lease is created.
LEMMA ReconcileKeepsDBInv ==
    ASSUME DBInv(cursorGen, cursorVer, latched, signals, latchGen, refreshed, jobState, jobGen)
    PROVE  /\ DBInv(ReconciledGen, ReconciledVer, latched, signals, ReconciledLatchGen,
                    refreshed, ReconciledJobState, ReconciledJobGen)
           /\ \A u \in refreshed : u <= ReconciledVer
           /\ \A u \in Versions : ReconciledJobState[u] = "leased" => jobState[u] = "leased"
           /\ \A u \in Versions : jobState[u] # "none" => ReconciledJobGen[u] = jobGen[u]
<1>1. DBType(cursorGen, cursorVer, latched, signals, latchGen, refreshed, jobState, jobGen)
  BY DEF DBInv
<1>2. GenInv(cursorGen, cursorVer, latched, latchGen, refreshed)
  BY DEF DBInv
<1>3. JobInv(cursorGen, cursorVer, signals, latchGen, refreshed, jobState, jobGen)
  BY DEF DBInv
<1>4. Versions \subseteq Nat /\ 0 \notin Versions
  BY VersionsAssumption
<1> DEFINE g == ReconciledGen
           c == ReconciledVer
           lg == ReconciledLatchGen
           js == ReconciledJobState
           jg == ReconciledJobGen
<1>5. /\ g \in Nat /\ c \in Versions \cup {0}
      /\ lg \in [Versions -> Nat]
      /\ c >= cursorVer /\ g >= cursorGen
      /\ Newer = {} => c = cursorVer /\ g = cursorGen
      /\ Newer # {} => c \in Newer /\ g > cursorGen
      /\ Placed = Newer
      /\ \A u \in Newer : u <= c /\ cursorGen < lg[u] /\ lg[u] <= g
      /\ \A u, v \in Newer : u < v => lg[u] < lg[v]
      /\ Newer # {} => lg[c] = g
      /\ \A u \in Versions \ Newer : lg[u] = latchGen[u]
  BY ReconcileNumbers
<1>6. \A u \in Newer : u \in latched /\ u \in Versions /\ u > cursorVer /\ latchGen[u] = 0
  BY <1>1 DEF Newer, Unplaced, DBType
<1>7. \A u \in Newer : jobState[u] = "none"
  BY <1>3, <1>6 DEF JobInv
<1>8. \A u \in Versions : Owed(u) <=> /\ u \in Newer
                                      /\ u \notin refreshed
                                      /\ Complete(signals[u])
  BY <1>5, <1>7 DEF Owed
<1>9. \A u \in Versions : jg[u] = IF Owed(u) THEN lg[u] ELSE jobGen[u]
  BY DEF ReconciledJobGen
<1>10. \A u \in Versions :
          js[u] = IF /\ (IF Owed(u) THEN "pending" ELSE jobState[u]) \in Active
                     /\ jg[u] < (IF Newer = {} THEN 0 ELSE g)
                  THEN "superseded"
                  ELSE IF Owed(u) THEN "pending" ELSE jobState[u]
  BY DEF ReconciledJobState, SupersedeBelow
<1>11. jg \in [Versions -> Nat]
  BY <1>1, <1>5 DEF ReconciledJobGen, DBType
<1>12. js \in [Versions -> JobStates]
  BY <1>1 DEF ReconciledJobState, SupersedeBelow, DBType, JobStates
<1> HIDE DEF g, c, lg, js, jg
<1>13. \A u \in refreshed : u <= c
  <2> TAKE u \in refreshed
  <2>1. u \in latched /\ u \in Versions /\ u \in Nat
    BY <1>1, <1>4 DEF DBType
  <2>2. cursorVer \in Nat /\ c \in Nat /\ c >= cursorVer
    BY <1>1, <1>4, <1>5 DEF DBType
  <2>3. CASE latchGen[u] # 0
    <3>1. u <= cursorVer
      BY <1>2, <2>1, <2>3 DEF GenInv
    <3> QED
      BY <2>1, <2>2, <3>1
  <2>4. CASE latchGen[u] = 0 /\ u > cursorVer
    BY <1>5, <2>1, <2>4 DEF Newer, Unplaced
  <2>5. CASE latchGen[u] = 0 /\ ~(u > cursorVer)
    BY <2>1, <2>2, <2>5
  <2> QED
    BY <2>3, <2>4, <2>5
<1>14. DBType(g, c, latched, signals, lg, refreshed, js, jg)
  BY <1>1, <1>5, <1>11, <1>12 DEF DBType
<1>15. GenInv(g, c, latched, lg, refreshed)
  <2>1. \A u \in Versions : lg[u] # 0 => u <= c /\ lg[u] <= g /\ u \in latched
    <3> SUFFICES ASSUME NEW u \in Versions, lg[u] # 0
                 PROVE  u <= c /\ lg[u] <= g /\ u \in latched
      OBVIOUS
    <3>1. CASE u \in Newer
      BY <1>5, <1>6, <3>1
    <3>2. CASE u \notin Newer
      <4>1. latchGen[u] # 0 /\ lg[u] = latchGen[u]
        BY <1>5, <3>2
      <4>2. u <= cursorVer /\ latchGen[u] <= cursorGen /\ u \in latched
        BY <1>2, <4>1 DEF GenInv
      <4>3. /\ u \in Nat /\ c \in Nat /\ cursorVer \in Nat
            /\ latchGen[u] \in Nat /\ cursorGen \in Nat /\ g \in Nat
        BY <1>1, <1>4, <1>5 DEF DBType
      <4> QED
        BY <1>5, <4>1, <4>2, <4>3
    <3> QED
      BY <3>1, <3>2
  <2>2. \A u, v \in Versions : lg[u] # 0 /\ lg[v] # 0 /\ u < v => lg[u] < lg[v]
    <3> SUFFICES ASSUME NEW u \in Versions, NEW v \in Versions,
                        lg[u] # 0, lg[v] # 0, u < v
                 PROVE  lg[u] < lg[v]
      OBVIOUS
    <3>0. /\ u \in Nat /\ v \in Nat /\ cursorVer \in Nat /\ cursorGen \in Nat
          /\ lg[u] \in Nat /\ lg[v] \in Nat
      BY <1>1, <1>4, <1>5 DEF DBType
    <3>1. CASE u \in Newer /\ v \in Newer
      BY <1>5, <3>1
    <3>2. CASE u \in Newer /\ v \notin Newer
      <4>1. v <= cursorVer
        BY <1>2, <1>5, <3>2 DEF GenInv
      <4>2. u > cursorVer
        BY <1>6, <3>2
      <4> QED
        BY <4>1, <4>2, <3>0
    <3>3. CASE u \notin Newer /\ v \in Newer
      <4>1. lg[u] <= cursorGen
        BY <1>2, <1>5, <3>3 DEF GenInv
      <4> QED
        BY <4>1, <1>5, <3>3, <3>0
    <3>4. CASE u \notin Newer /\ v \notin Newer
      BY <1>2, <1>5, <3>4 DEF GenInv
    <3> QED
      BY <3>1, <3>2, <3>3, <3>4
  <2>3. c # 0 => c \in latched /\ lg[c] = g /\ g # 0
    <3>1. CASE Newer = {}
      BY <1>1, <1>2, <1>5, <3>1 DEF GenInv, DBType
    <3>2. CASE Newer # {}
      <4>1. g > cursorGen /\ cursorGen \in Nat /\ g \in Nat
        BY <1>1, <1>5, <3>2 DEF DBType
      <4> QED
        BY <1>5, <1>6, <3>2, <4>1
    <3> QED
      BY <3>1, <3>2
  <2> QED
    BY <1>13, <2>1, <2>2, <2>3 DEF GenInv
<1>16. \A u \in Versions :
          js[u] = IF u \in Newer
                  THEN IF u \notin refreshed /\ Complete(signals[u])
                       THEN IF u = c THEN "pending" ELSE "superseded"
                       ELSE "none"
                  ELSE IF Newer # {} /\ jobState[u] \in Active THEN "superseded"
                       ELSE jobState[u]
  <2> TAKE u \in Versions
  <2>0. u \in Nat /\ lg[u] \in Nat /\ g \in Nat /\ jg[u] \in Nat /\ cursorGen \in Nat
    BY <1>1, <1>4, <1>5, <1>11 DEF DBType
  <2>1. CASE u \in Newer /\ Owed(u)
    <3>1. jg[u] = lg[u] /\ Newer # {}
      BY <1>9, <2>1
    <3>2. u # c => lg[u] < g
      <4>1. u # c => u < c
        BY <1>4, <1>5, <2>0, <2>1
      <4> QED
        BY <1>5, <2>1, <4>1
    <3>3. u = c => ~(lg[u] < g)
      BY <1>5, <2>0, <2>1
    <3>4. "pending" \in Active
      BY DEF Active
    <3> QED
      BY <1>8, <1>10, <2>1, <3>1, <3>2, <3>3, <3>4
  <2>2. CASE u \in Newer /\ ~Owed(u)
    <3>1. "none" \notin Active
      BY DEF Active
    <3> QED
      BY <1>7, <1>8, <1>10, <2>2, <3>1
  <2>3. CASE u \notin Newer /\ Newer = {}
    <3>1. ~(jg[u] < 0)
      BY <2>0
    <3> QED
      BY <1>8, <1>10, <2>3, <3>1
  <2>4. CASE u \notin Newer /\ Newer # {}
    <3>1. ~Owed(u) /\ jg[u] = jobGen[u]
      BY <1>8, <1>9, <2>4
    <3>2. jobState[u] \in Active => jobState[u] # "none"
      BY DEF Active
    <3>3. jobState[u] \in Active => jg[u] <= cursorGen
      BY <1>2, <1>3, <3>1, <3>2 DEF JobInv, GenInv
    <3>4. jobState[u] \in Active => jg[u] < g
      BY <1>5, <2>0, <2>4, <3>3
    <3> QED
      BY <1>10, <2>4, <3>1, <3>4
  <2> QED
    BY <2>1, <2>2, <2>3, <2>4
<1>17. \A u \in Versions : js[u] # "none" => jg[u] = lg[u]
  <2> TAKE u \in Versions
  <2>1. CASE u \in Newer
    BY <1>8, <1>9, <1>16, <2>1
  <2>2. CASE u \notin Newer
    BY <1>3, <1>5, <1>8, <1>9, <1>16, <2>2 DEF JobInv, Active
  <2> QED
    BY <2>1, <2>2
<1>18. JobInv(g, c, signals, lg, refreshed, js, jg)
  <2>1. \A u \in Versions : js[u] \in Active => u = c
    BY <1>3, <1>5, <1>16 DEF JobInv, Active
  <2>2. \A u \in Versions : js[u] # "none" => lg[u] # 0 /\ jg[u] = lg[u] /\ Complete(signals[u])
    <3> TAKE u \in Versions
    <3>1. CASE u \in Newer
      <4>1. lg[u] # 0
        BY <1>1, <1>5, <3>1 DEF DBType
      <4> QED
        BY <1>16, <1>17, <3>1, <4>1
    <3>2. CASE u \notin Newer
      BY <1>3, <1>5, <1>16, <1>17, <3>2 DEF JobInv, Active
    <3> QED
      BY <3>1, <3>2
  <2>3. \A u \in Versions : js[u] # "none" => (js[u] = "completed" <=> u \in refreshed)
    BY <1>3, <1>16 DEF JobInv, Active
  <2>4. c # 0 => js[c] # "superseded"
    BY <1>3, <1>5, <1>16 DEF JobInv
  <2>5. c # 0 /\ Complete(signals[c]) /\ c \notin refreshed => js[c] # "none"
    BY <1>3, <1>5, <1>16 DEF JobInv
  <2> QED
    BY <2>1, <2>2, <2>3, <2>4, <2>5 DEF JobInv
<1>19. \A u \in Versions : js[u] = "leased" => jobState[u] = "leased"
  BY <1>16
<1>20. \A u \in Versions : jobState[u] # "none" => jg[u] = jobGen[u]
  BY <1>7, <1>8, <1>9
<1> QED
  BY <1>13, <1>14, <1>15, <1>18, <1>19, <1>20 DEF DBInv, g, c, lg, js, jg

-----------------------------------------------------------------------------
(* Accepting a signal.                                                     *)

\* record_durable_signal leaves relations that satisfy the invariant: its second half accepts
\* the signal on top of what reconciliation produced.
LEMMA RecordSignalKeepsDBInv ==
    ASSUME NEW v \in Versions, NEW t \in Types, RecordSignal(v, t),
           DBInv(cursorGen, cursorVer, latched, signals, latchGen, refreshed, jobState, jobGen)
    PROVE  /\ DBInv(cursorGen', cursorVer', latched', signals', latchGen', refreshed,
                    jobState', jobGen')
           /\ cursorVer' >= cursorVer
           /\ \A u \in Versions : jobState'[u] = "leased"
                                    => jobState[u] = "leased" /\ jobGen'[u] = jobGen[u]
<1> DEFINE cg == ReconciledGen
           cv == ReconciledVer
           lg == ReconciledLatchGen
           js0 == ReconciledJobState
           jg0 == ReconciledJobGen
           gen == IF v > cv THEN cg + 1 ELSE cg
           ver == IF v > cv THEN v ELSE cv
           js == IF v > cv THEN SupersedeBelow(js0, jg0, gen) ELSE js0
           rowGen == IF lg[v] = 0 THEN (IF v < cv THEN 0 ELSE gen) ELSE lg[v]
           schedules == ~(v < cv) /\ v \notin refreshed /\ Complete(signals[v] \cup {t})
           js1 == IF schedules THEN UpsertState(js, v) ELSE js
           jg1 == IF schedules THEN UpsertGen(js, jg0, v, gen) ELSE jg0
           lg1 == [lg EXCEPT ![v] = rowGen]
           sg1 == [signals EXCEPT ![v] = @ \cup {t}]
<1>a. /\ cursorGen' = gen /\ cursorVer' = ver
      /\ latched' = latched \cup {v} /\ signals' = sg1 /\ latchGen' = lg1
      /\ jobState' = js1 /\ jobGen' = jg1
  BY DEF RecordSignal
<1>b. /\ DBInv(cg, cv, latched, signals, lg, refreshed, js0, jg0)
      /\ \A u \in refreshed : u <= cv
      /\ \A u \in Versions : js0[u] = "leased" => jobState[u] = "leased"
      /\ \A u \in Versions : jobState[u] # "none" => jg0[u] = jobGen[u]
  BY ReconcileKeepsDBInv
<1>c. cv >= cursorVer
  BY ReconcileNumbers
<1> HIDE DEF cg, cv, lg, js0, jg0
<1>d. /\ gen = (IF v > cv THEN cg + 1 ELSE cg)
      /\ ver = (IF v > cv THEN v ELSE cv)
      /\ js = (IF v > cv THEN SupersedeBelow(js0, jg0, gen) ELSE js0)
      /\ rowGen = (IF lg[v] = 0 THEN (IF v < cv THEN 0 ELSE gen) ELSE lg[v])
      /\ schedules <=> ~(v < cv) /\ v \notin refreshed /\ Complete(signals[v] \cup {t})
      /\ js1 = (IF schedules THEN UpsertState(js, v) ELSE js)
      /\ jg1 = (IF schedules THEN UpsertGen(js, jg0, v, gen) ELSE jg0)
      /\ lg1 = [lg EXCEPT ![v] = rowGen]
      /\ sg1 = [signals EXCEPT ![v] = @ \cup {t}]
  OBVIOUS
<1> HIDE DEF gen, ver, js, rowGen, schedules, js1, jg1, lg1, sg1
<1> SUFFICES /\ DBInv(gen, ver, latched \cup {v}, sg1, lg1, refreshed, js1, jg1)
             /\ ver >= cv
             /\ \A u \in Versions : js1[u] = "leased" => js0[u] = "leased"
             /\ \A u \in Versions : js0[u] # "none" => jg1[u] = jg0[u]
  <2>1. cv \in Nat /\ cursorVer \in Nat /\ ver \in Nat
    BY <1>b, <1>d, VersionsAssumption DEF DBInv, DBType
  <2> QED
    BY <1>a, <1>b, <1>c, <2>1
<1> USE <1>d
<1>1. DBType(cg, cv, latched, signals, lg, refreshed, js0, jg0)
  BY <1>b DEF DBInv
<1>2. GenInv(cg, cv, latched, lg, refreshed)
  BY <1>b DEF DBInv
<1>3. JobInv(cg, cv, signals, lg, refreshed, js0, jg0)
  BY <1>b DEF DBInv
<1>4. Versions \subseteq Nat /\ 0 \notin Versions
  BY VersionsAssumption
<1>5. v \in Nat /\ cv \in Nat /\ cg \in Nat /\ lg[v] \in Nat /\ gen \in Nat /\ rowGen \in Nat
  BY <1>1, <1>4 DEF DBType
<1>6. /\ lg1 \in [Versions -> Nat]
      /\ lg1[v] = rowGen
      /\ \A u \in Versions : u # v => lg1[u] = lg[u]
  BY <1>1, <1>5 DEF DBType
<1>7. /\ sg1 \in [Versions -> SUBSET Types]
      /\ sg1[v] = signals[v] \cup {t}
      /\ \A u \in Versions : u # v => sg1[u] = signals[u]
  BY <1>1 DEF DBType
<1>8. js \in [Versions -> JobStates]
  BY <1>1 DEF DBType, SupersedeBelow, JobStates
<1>9. /\ js1 \in [Versions -> JobStates]
      /\ jg1 \in [Versions -> Nat]
      /\ \A u \in Versions : u # v => js1[u] = js[u] /\ jg1[u] = jg0[u]
      /\ js1[v] = IF schedules /\ js[v] = "none" THEN "pending" ELSE js[v]
      /\ jg1[v] = IF schedules /\ js[v] = "none" THEN gen ELSE jg0[v]
  BY <1>1, <1>5, <1>8 DEF DBType, UpsertState, UpsertGen, JobStates
<1>10. \A u \in Versions : js[u] = IF v > cv /\ js0[u] \in Active THEN "superseded" ELSE js0[u]
  <2> TAKE u \in Versions
  <2>1. CASE v > cv
    <3>1. js0[u] \in Active => js0[u] # "none"
      BY DEF Active
    <3>2. js0[u] \in Active => jg0[u] <= cg
      BY <1>2, <1>3, <3>1 DEF JobInv, GenInv
    <3>3. jg0[u] \in Nat
      BY <1>1 DEF DBType
    <3>4. js0[u] \in Active => jg0[u] < gen
      BY <1>5, <2>1, <3>2, <3>3
    <3> QED
      BY <2>1, <3>4 DEF SupersedeBelow
  <2>2. CASE ~(v > cv)
    BY <2>2
  <2> QED
    BY <2>1, <2>2
<1>11. CASE v > cv
  <2>1. lg[v] = 0 /\ gen = cg + 1 /\ ver = v /\ rowGen = gen /\ v # cv
    BY <1>2, <1>5, <1>11 DEF GenInv
  <2>2. js0[v] = "none" /\ js[v] = "none" /\ v \notin refreshed
    BY <1>3, <1>5, <1>b, <1>10, <1>11, <2>1 DEF JobInv, Active
  <2>3. GenInv(gen, ver, latched \cup {v}, lg1, refreshed)
    <3>1. \A u \in Versions : u # v /\ lg1[u] # 0 => u < v /\ lg1[u] < gen /\ u \in latched
      <4> SUFFICES ASSUME NEW u \in Versions, u # v, lg1[u] # 0
                   PROVE  u < v /\ lg1[u] < gen /\ u \in latched
        OBVIOUS
      <4>1. u <= cv /\ lg1[u] <= cg /\ u \in latched
        BY <1>2, <1>6 DEF GenInv
      <4>2. u \in Nat /\ lg1[u] \in Nat
        BY <1>4, <1>6
      <4> QED
        BY <1>5, <1>11, <2>1, <4>1, <4>2
    <3>2. \A u \in Versions : lg1[u] # 0 =>
              u <= ver /\ lg1[u] <= gen /\ u \in latched \cup {v}
      <4> SUFFICES ASSUME NEW u \in Versions, lg1[u] # 0
                   PROVE  u <= v /\ lg1[u] <= gen /\ u \in latched \cup {v}
        BY <2>1
      <4>1. u \in Nat /\ lg1[u] \in Nat
        BY <1>4, <1>6
      <4>2. CASE u = v
        BY <1>5, <1>6, <2>1, <4>2
      <4>3. CASE u # v
        BY <1>5, <3>1, <4>1, <4>3
      <4> QED
        BY <4>2, <4>3
    <3>3. \A u, x \in Versions : lg1[u] # 0 /\ lg1[x] # 0 /\ u < x => lg1[u] < lg1[x]
      <4> SUFFICES ASSUME NEW u \in Versions, NEW x \in Versions,
                          lg1[u] # 0, lg1[x] # 0, u < x
                   PROVE  lg1[u] < lg1[x]
        OBVIOUS
      <4>1. u \in Nat /\ x \in Nat
        BY <1>4
      <4>2. CASE x = v
        BY <1>6, <2>1, <3>1, <4>1, <4>2
      <4>3. CASE x # v /\ u # v
        BY <1>2, <1>6, <4>3 DEF GenInv
      <4>4. CASE x # v /\ u = v
        BY <1>5, <3>1, <4>1, <4>4
      <4> QED
        BY <4>2, <4>3, <4>4
    <3>4. \A u \in refreshed : u <= ver
      <4> TAKE u \in refreshed
      <4>1. u \in Nat /\ u <= cv
        BY <1>1, <1>4, <1>b DEF DBType
      <4> QED
        BY <1>5, <1>11, <2>1, <4>1
    <3> QED
      BY <1>5, <1>6, <2>1, <3>2, <3>3, <3>4 DEF GenInv
  <2>4. JobInv(gen, ver, sg1, lg1, refreshed, js1, jg1)
    <3>1. \A u \in Versions : js1[u] \in Active => u = ver
      BY <1>9, <1>10, <1>11, <2>1 DEF Active
    <3>2. ASSUME NEW u \in Versions, js1[u] # "none"
          PROVE  /\ lg1[u] # 0 /\ jg1[u] = lg1[u] /\ Complete(sg1[u])
                 /\ js1[u] = "completed" <=> u \in refreshed
      <4>1. CASE u = v
        BY <1>5, <1>6, <1>7, <1>9, <2>1, <2>2, <3>2, <4>1
      <4>2. CASE u # v
        BY <1>3, <1>6, <1>7, <1>9, <1>10, <3>2, <4>2 DEF JobInv, Active
      <4> QED
        BY <4>1, <4>2
    <3>3. js1[ver] # "superseded"
      BY <1>9, <2>1, <2>2
    <3>4. Complete(sg1[ver]) => js1[ver] # "none"
      BY <1>5, <1>7, <1>9, <1>11, <2>1, <2>2
    <3> QED
      BY <3>1, <3>2, <3>3, <3>4 DEF JobInv
  <2>5. DBType(gen, ver, latched \cup {v}, sg1, lg1, refreshed, js1, jg1)
    BY <1>1, <1>5, <1>6, <1>7, <1>9, <2>1 DEF DBType
  <2>6. \A u \in Versions : js1[u] = "leased" => js0[u] = "leased"
    BY <1>9, <1>10
  <2>7. \A u \in Versions : js0[u] # "none" => jg1[u] = jg0[u]
    BY <1>9, <2>2
  <2> QED
    BY <1>5, <1>11, <2>1, <2>3, <2>4, <2>5, <2>6, <2>7 DEF DBInv
<1>12. CASE ~(v > cv)
  <2>1. gen = cg /\ ver = cv /\ js = js0
    BY <1>12
  <2>2. cv \in Versions /\ cv # 0
    BY <1>1, <1>4, <1>5, <1>12 DEF DBType
  <2>3. lg[cv] = cg /\ cg # 0
    BY <1>2, <2>2 DEF GenInv
  <2>4. lg1 = lg
    <3>1. lg[v] = 0 => v # cv
      BY <2>3
    <3>2. rowGen = lg[v]
      BY <1>5, <1>12, <3>1
    <3> QED
      BY <1>1, <3>2 DEF DBType
  <2>5. GenInv(gen, ver, latched \cup {v}, lg1, refreshed)
    BY <1>2, <2>1, <2>4 DEF GenInv
  <2>6. schedules => v = cv
    BY <1>5, <1>12
  <2>7. JobInv(gen, ver, sg1, lg1, refreshed, js1, jg1)
    <3>1. \A u \in Versions : js1[u] \in Active => u = ver
      BY <1>3, <1>9, <2>1, <2>6 DEF JobInv, Active
    <3>2. ASSUME NEW u \in Versions, js1[u] # "none"
          PROVE  /\ lg1[u] # 0 /\ jg1[u] = lg1[u] /\ Complete(sg1[u])
                 /\ js1[u] = "completed" <=> u \in refreshed
      <4>1. CASE u = v /\ schedules /\ js[v] = "none"
        BY <1>7, <1>9, <2>1, <2>3, <2>4, <2>6, <4>1
      <4>2. CASE ~(u = v /\ schedules /\ js[v] = "none")
        <5>1. js1[u] = js0[u] /\ jg1[u] = jg0[u]
          BY <1>9, <2>1, <4>2
        <5>2. lg[u] # 0 /\ jg0[u] = lg[u] /\ Complete(signals[u])
              /\ (js0[u] = "completed" <=> u \in refreshed)
          BY <1>3, <3>2, <5>1 DEF JobInv
        <5>3. Complete(sg1[u])
          BY <1>7, <5>2 DEF Complete
        <5> QED
          BY <2>4, <5>1, <5>2, <5>3
      <4> QED
        BY <4>1, <4>2
    <3>3. js1[ver] # "superseded"
      BY <1>3, <1>9, <2>1, <2>2 DEF JobInv
    <3>4. Complete(sg1[ver]) /\ ver \notin refreshed => js1[ver] # "none"
      <4>1. CASE v = cv
        BY <1>5, <1>7, <1>9, <2>1, <4>1
      <4>2. CASE v # cv
        BY <1>3, <1>7, <1>9, <2>1, <2>2, <4>2 DEF JobInv
      <4> QED
        BY <4>1, <4>2
    <3> QED
      BY <3>1, <3>2, <3>3, <3>4 DEF JobInv
  <2>8. DBType(gen, ver, latched \cup {v}, sg1, lg1, refreshed, js1, jg1)
    BY <1>1, <1>5, <1>6, <1>7, <1>9, <2>1 DEF DBType
  <2>9. /\ \A u \in Versions : js1[u] = "leased" => js0[u] = "leased"
        /\ \A u \in Versions : js0[u] # "none" => jg1[u] = jg0[u]
    BY <1>9, <2>1
  <2> QED
    BY <1>5, <2>1, <2>5, <2>7, <2>8, <2>9 DEF DBInv
<1> QED
  BY <1>11, <1>12

-----------------------------------------------------------------------------
(* The invariant holds initially and every action preserves it.            *)

\* Every pre-cutover state satisfies the invariant.
LEMMA InitIInv == Init => IInv
<1> SUFFICES ASSUME Init PROVE IInv
  OBVIOUS
<1> USE DEF Init
<1>1. TypeOK
  <2>1. NoClaim \in Claims
    BY DEF NoClaim, Claims
  <2>2. 0 \in 0..MaxFaults
    BY FaultsAssumption
  <2> QED
    BY <2>1, <2>2 DEF TypeOK, JobStates, PCs, Deliveries
<1>2. DBInv(cursorGen, cursorVer, latched, signals, latchGen, refreshed, jobState, jobGen)
  BY DEF DBInv, DBType, GenInv, JobInv, JobStates, Active
<1>3. ClaimInv
  BY VersionsAssumption DEF ClaimInv, OwnsLease, NoClaim
<1> QED
  BY <1>1, <1>2, <1>3 DEF IInv, DeliveryInv, PublishedInv

\* A step that creates no lease and gives no worker a new claim keeps the claims apart.
LEMMA ClaimsSurvive ==
    ASSUME ClaimInv, TypeOK, TypeOK',
           \A w \in Workers : \/ claim'[w] = claim[w] /\ (pc'[w] = "idle" <=> pc[w] = "idle")
                              \/ claim'[w] = NoClaim /\ pc'[w] = "idle",
           epoch' = epoch,
           \A u \in Versions : jobState'[u] = "leased"
                                   => jobState[u] = "leased" /\ jobGen'[u] = jobGen[u]
    PROVE  ClaimInv'
<1>1. NoClaim.version = 0 /\ 0 \notin Versions
  BY VersionsAssumption DEF NoClaim
<1>2. \A w \in Workers : pc'[w] = "idle" <=> claim'[w] = NoClaim
  BY DEF ClaimInv
<1>3. \A w \in Workers : claim'[w].version # 0 => claim'[w] = claim[w]
  BY <1>1
<1>4. \A w \in Workers : claim'[w].version # 0 => claim'[w].epoch <= epoch'[claim'[w].version]
  BY <1>3 DEF ClaimInv
<1>5. \A w, x \in Workers :
        claim'[w].version # 0 /\ claim'[w].version = claim'[x].version
            /\ claim'[w].epoch = claim'[x].epoch => w = x
  BY <1>3 DEF ClaimInv
<1>6. \A w \in Workers : OwnsLease(w)' => claim'[w].generation = jobGen'[claim'[w].version]
  BY <1>1, <1>3 DEF ClaimInv, OwnsLease
<1> QED
  BY <1>2, <1>4, <1>5, <1>6 DEF ClaimInv

\* Startup reconciliation preserves the invariant.
LEMMA ReconcileLegacyStep == IInv /\ ReconcileLegacy => IInv'
<1> SUFFICES ASSUME IInv, ReconcileLegacy PROVE IInv'
  OBVIOUS
<1> USE DEF ReconcileLegacy
<1>1. /\ DBInv(cursorGen, cursorVer, latched, signals, latchGen, refreshed, jobState, jobGen)'
      /\ \A u \in Versions : jobState'[u] = "leased" => jobState[u] = "leased"
      /\ \A u \in Versions : jobState[u] # "none" => jobGen'[u] = jobGen[u]
  BY ReconcileKeepsDBInv DEF IInv
<1>2. TypeOK'
  BY <1>1 DEF IInv, DBInv, DBType, TypeOK, FreshDeadlines, workerVars, brokerVars
<1>3. ClaimInv'
  BY <1>1, <1>2, ClaimsSurvive DEF IInv, workerVars
<1>4. DeliveryInv' /\ PublishedInv'
  BY DEF IInv, DeliveryInv, PublishedInv, brokerVars
<1> QED
  BY <1>1, <1>2, <1>3, <1>4 DEF IInv

\* Recording a signal preserves the invariant: reconcile, then accept.
LEMMA RecordSignalStep ==
    ASSUME NEW v \in Versions, NEW t \in Types, IInv, RecordSignal(v, t)
    PROVE  IInv'
<1>1. /\ latched' = latched \cup {v}
      /\ signals' = [signals EXCEPT ![v] = @ \cup {t}]
      /\ FreshDeadlines
      /\ recorded' = recorded \cup {<<v, t>>}
      /\ UNCHANGED <<refreshed, malformed, epoch, acked, workerVars, published, faults>>
  BY DEF RecordSignal
<1>2. DBInv(cursorGen, cursorVer, latched, signals, latchGen, refreshed, jobState, jobGen)'
  BY <1>1, RecordSignalKeepsDBInv DEF IInv
<1>3. \A u \in Versions : jobState'[u] = "leased"
                              => jobState[u] = "leased" /\ jobGen'[u] = jobGen[u]
  BY RecordSignalKeepsDBInv DEF IInv
<1>4. TypeOK'
  <2>1. DBType(cursorGen', cursorVer', latched', signals', latchGen', refreshed', jobState', jobGen')
    BY <1>2 DEF DBInv
  <2>2. lapsed' \in SUBSET {u \in Versions : jobState'[u] \in {"retry", "leased"}}
    BY <1>1 DEF IInv, TypeOK, FreshDeadlines
  <2>3. recorded' \in SUBSET Deliveries
    BY <1>1 DEF IInv, TypeOK, Deliveries
  <2> QED
    BY <1>1, <2>1, <2>2, <2>3 DEF DBType, IInv, TypeOK, workerVars
<1>5. ClaimInv'
  BY <1>1, <1>3, <1>4, ClaimsSurvive DEF IInv, workerVars
<1>6. DeliveryInv'
  <2> SUFFICES ASSUME NEW x \in Versions, NEW y \in Types, <<x, y>> \in recorded' \cup acked'
               PROVE  x \in latched' /\ y \in signals'[x]
    BY DEF DeliveryInv
  <2>1. CASE <<x, y>> = <<v, t>>
    BY <1>1, <2>1 DEF IInv, TypeOK
  <2>2. CASE <<x, y>> # <<v, t>>
    <3>1. x \in latched /\ y \in signals[x]
      BY <1>1, <2>2 DEF IInv, DeliveryInv
    <3> QED
      BY <1>1, <3>1 DEF IInv, TypeOK
  <2> QED
    BY <2>1, <2>2
<1>7. PublishedInv'
  BY <1>1 DEF IInv, PublishedInv
<1> QED
  BY <1>2, <1>4, <1>5, <1>6, <1>7 DEF IInv

\* Steps that touch no row but a deadline column, give no worker a new claim and hand back
\* deliveries at most, preserve the invariant once the types are right.
LEMMA RelationsUntouched ==
    ASSUME IInv, TypeOK',
           UNCHANGED <<cursorGen, cursorVer, latched, signals, latchGen, refreshed,
                       jobState, jobGen, epoch, published>>,
           recorded' \cup acked' \subseteq recorded \cup acked,
           \A w \in Workers : \/ claim'[w] = claim[w] /\ (pc'[w] = "idle" <=> pc[w] = "idle")
                              \/ claim'[w] = NoClaim /\ pc'[w] = "idle"
    PROVE  IInv'
<1>1. DBInv(cursorGen, cursorVer, latched, signals, latchGen, refreshed, jobState, jobGen)'
  BY DEF IInv
<1>2. ClaimInv'
  BY ClaimsSurvive DEF IInv
<1>3. DeliveryInv' /\ PublishedInv'
  BY DEF IInv, DeliveryInv, PublishedInv
<1> QED
  BY <1>1, <1>2, <1>3 DEF IInv

\* What the step lemmas take from the release of a worker and from a counted fault.
LEMMA ReleaseTypes ==
    ASSUME TypeOK, NEW w \in Workers, Release(w)
    PROVE  /\ pc' \in [Workers -> PCs] /\ claim' \in [Workers -> Claims]
           /\ lost' \in SUBSET Workers
           /\ \A x \in Workers : \/ claim'[x] = claim[x] /\ pc'[x] = pc[x]
                                 \/ claim'[x] = NoClaim /\ pc'[x] = "idle"
<1>1. NoClaim \in Claims
  BY DEF NoClaim, Claims
<1> QED
  BY <1>1 DEF TypeOK, Release, PCs

\* The fault counter stays within its bound.
LEMMA FaultType == TypeOK /\ Fault => faults' \in 0..MaxFaults
  BY FaultsAssumption DEF TypeOK, Fault

\* The operator's repair of a malformed key preserves the invariant.
LEMMA RepairLegacyRowStep == IInv /\ RepairLegacyRow => IInv'
<1> SUFFICES ASSUME IInv, RepairLegacyRow PROVE IInv'
  OBVIOUS
<1> USE DEF RepairLegacyRow, jobVars, brokerVars, workerVars
<1>1. TypeOK'
  BY DEF IInv, TypeOK
<1> QED
  BY <1>1, RelationsUntouched

\* A veto creates at most a row without a generation, above or below the cursor.
LEMMA RecordPurgeVetoStep ==
    ASSUME NEW v \in Versions, NEW t \in Types, IInv, RecordPurgeVeto(v, t)
    PROVE  IInv'
<1> USE DEF RecordPurgeVeto, jobVars, brokerVars, workerVars
<1>1. TypeOK'
  BY DEF IInv, TypeOK
<1>2. DBInv(cursorGen, cursorVer, latched, signals, latchGen, refreshed, jobState, jobGen)'
  BY DEF IInv, DBInv, DBType, GenInv, JobInv
<1>3. ClaimInv'
  BY <1>1, ClaimsSurvive DEF IInv
<1>4. DeliveryInv' /\ PublishedInv'
  BY DEF IInv, DeliveryInv, PublishedInv
<1> QED
  BY <1>1, <1>2, <1>3, <1>4 DEF IInv

\* Acking a recorded delivery, or receiving it again, preserves the invariant.
LEMMA DeliveryStep ==
    ASSUME NEW v \in Versions, NEW t \in Types, IInv, Ack(v, t) \/ Redeliver(v, t)
    PROVE  IInv'
<1> USE DEF Ack, Redeliver, latchVars, jobVars, workerVars
<1>1. recorded' \cup acked' \subseteq recorded \cup acked
  OBVIOUS
<1>2. TypeOK'
  <2>1. recorded' \in SUBSET Deliveries /\ acked' \in SUBSET Deliveries
    BY <1>1 DEF IInv, TypeOK
  <2> QED
    BY <2>1 DEF IInv, TypeOK
<1> QED
  BY <1>1, <1>2, RelationsUntouched

\* The worker steps that write no row: taking the lock, the fences and failures of a pass, a
\* stopped process and a heartbeat that gives up.
LEMMA WorkerMemoryStep ==
    ASSUME NEW w \in Workers, IInv,
           \/ BeforeRefresh(w) \/ Fenced(w) \/ PassFails(w) \/ WorkerStops(w) \/ HeartbeatLost(w)
    PROVE  IInv'
<1> USE DEF latchVars, jobVars, brokerVars
<1>0. TypeOK
  BY DEF IInv
<1>1. CASE BeforeRefresh(w)
  <2>1. TypeOK'
    BY <1>0, <1>1 DEF BeforeRefresh, TypeOK, PCs
  <2> QED
    BY <1>0, <1>1, <2>1, RelationsUntouched DEF BeforeRefresh, TypeOK
<1>2. CASE Fenced(w)
  <2>1. TypeOK'
    BY <1>0, <1>2 DEF Fenced, TypeOK, PCs
  <2> QED
    BY <1>0, <1>2, <2>1, RelationsUntouched DEF Fenced, TypeOK
<1>3. CASE PassFails(w)
  <2>1. TypeOK'
    BY <1>0, <1>3, FaultType DEF PassFails, TypeOK, PCs
  <2> QED
    BY <1>0, <1>3, <2>1, RelationsUntouched DEF PassFails, TypeOK
<1>4. CASE WorkerStops(w)
  <2>1. TypeOK'
    BY <1>0, <1>4, FaultType, ReleaseTypes DEF WorkerStops, TypeOK
  <2> QED
    BY <1>0, <1>4, <2>1, ReleaseTypes, RelationsUntouched DEF WorkerStops
<1>5. CASE HeartbeatLost(w)
  <2>1. TypeOK'
    BY <1>0, <1>5, FaultType DEF HeartbeatLost, TypeOK
  <2> QED
    BY <1>0, <1>5, <2>1, RelationsUntouched DEF HeartbeatLost
<1> QED
  BY <1>1, <1>2, <1>3, <1>4, <1>5

\* A deadline passing changes no column but the deadline's.
LEMMA DeadlineStep ==
    ASSUME NEW v \in Versions, IInv, DeadlinePasses(v) \/ HeartbeatStalls(v)
    PROVE  IInv'
<1> USE DEF latchVars, brokerVars, workerVars
<1>1. TypeOK'
  BY FaultType DEF IInv, TypeOK, DeadlinePasses, HeartbeatStalls
<1> QED
  BY <1>1, RelationsUntouched DEF DeadlinePasses, HeartbeatStalls

\* A fresh lease has an epoch above every earlier claim's, so whoever held the row before no
\* longer owns it.
LEMMA LeaseDueJobStep ==
    ASSUME NEW w \in Workers, NEW u \in Versions, IInv, LeaseDueJob(w, u)
    PROVE  IInv'
<1> USE DEF LeaseDueJob, latchVars, brokerVars
<1> DEFINE c == [version |-> u, generation |-> jobGen[u], epoch |-> epoch[u] + 1]
<1>0. TypeOK /\ ClaimInv /\ 0 \notin Versions
  BY VersionsAssumption DEF IInv
<1>1. jobState[u] \in Active /\ jobState[u] # "none"
  BY DEF DueJob, Due, Active
<1>2. epoch' \in [Versions -> Nat] /\ epoch'[u] = epoch[u] + 1
      /\ \A x \in Versions : epoch'[x] >= epoch[x]
  BY <1>0 DEF TypeOK
<1>3. c \in Claims
  BY <1>0 DEF TypeOK, Claims
<1>4. TypeOK'
  BY <1>0, <1>2, <1>3 DEF TypeOK, FreshDeadlines, JobStates, PCs
<1>5. DBInv(cursorGen, cursorVer, latched, signals, latchGen, refreshed, jobState, jobGen)'
  <2>1. \A x \in Versions : jobState'[x] = IF x = u THEN "leased" ELSE jobState[x]
    BY <1>0 DEF TypeOK
  <2>2. JobInv(cursorGen, cursorVer, signals, latchGen, refreshed, jobState, jobGen)
    BY DEF IInv, DBInv
  <2>3. JobInv(cursorGen, cursorVer, signals, latchGen, refreshed, jobState, jobGen)'
    <3>1. jobState[u] # "completed" /\ u \notin refreshed
      BY <1>1, <2>2 DEF JobInv, Active
    <3>2. cursorVer \in Versions \cup {0}
      BY <1>0 DEF TypeOK
    <3> QED
      BY <1>1, <2>1, <2>2, <3>1, <3>2 DEF JobInv, Active
  <2>4. DBType(cursorGen, cursorVer, latched, signals, latchGen, refreshed, jobState, jobGen)'
    BY <1>4 DEF DBType, TypeOK
  <2> QED
    BY <2>3, <2>4 DEF IInv, DBInv
<1>6. \A x \in Workers : claim'[x] = IF x = w THEN c ELSE claim[x]
  BY <1>0 DEF TypeOK
<1>7. \A x \in Workers : x # w => pc'[x] = pc[x]
  BY <1>0 DEF TypeOK
<1>8. pc'[w] = "claimed" /\ c # NoClaim
  <2>1. c.version # NoClaim.version
    BY <1>0 DEF NoClaim
  <2> QED
    BY <1>0, <2>1 DEF TypeOK
<1>9. \A x \in Workers : claim[x].version = u => claim[x].epoch < c.epoch
  <2> TAKE x \in Workers
  <2>1. claim[x].epoch \in Nat /\ epoch[u] \in Nat
    BY <1>0 DEF TypeOK, Claims
  <2>2. claim[x].version = u => claim[x].epoch <= epoch[u]
    BY <1>0 DEF ClaimInv
  <2> QED
    BY <2>1, <2>2
<1>10. ClaimInv'
  <2>1. \A x \in Workers : pc'[x] = "idle" <=> claim'[x] = NoClaim
    BY <1>0, <1>6, <1>7, <1>8 DEF ClaimInv
  <2>2. \A x \in Workers : claim'[x].version # 0 => claim'[x].epoch <= epoch'[claim'[x].version]
    <3> SUFFICES ASSUME NEW x \in Workers, claim'[x].version # 0
                 PROVE  claim'[x].epoch <= epoch'[claim'[x].version]
      OBVIOUS
    <3>1. CASE x = w
      BY <1>2, <1>6, <3>1
    <3>2. CASE x # w
      <4>1. claim[x].epoch \in Nat /\ claim[x].version \in Versions
        BY <1>0, <1>6, <3>2 DEF TypeOK, Claims
      <4>2. claim[x].epoch <= epoch[claim[x].version]
        BY <1>0, <1>6, <3>2 DEF ClaimInv
      <4>3. /\ epoch[claim[x].version] \in Nat /\ epoch'[claim[x].version] \in Nat
            /\ epoch'[claim[x].version] >= epoch[claim[x].version]
        BY <1>0, <1>2, <4>1 DEF TypeOK
      <4> QED
        BY <1>6, <3>2, <4>1, <4>2, <4>3
    <3> QED
      BY <3>1, <3>2
  <2>3. ASSUME NEW x \in Workers, NEW y \in Workers,
               claim'[x].version # 0, claim'[x].version = claim'[y].version,
               claim'[x].epoch = claim'[y].epoch
        PROVE  x = y
    <3>0. \A z \in Workers : claim[z].epoch \in Nat
      BY <1>0 DEF TypeOK, Claims
    <3>1. c.epoch \in Nat /\ c.version = u
      BY <1>3 DEF Claims
    <3>2. CASE x = w /\ y # w
      BY <1>6, <1>9, <2>3, <3>0, <3>1, <3>2
    <3>3. CASE x # w /\ y = w
      BY <1>6, <1>9, <2>3, <3>0, <3>1, <3>3
    <3>4. CASE x # w /\ y # w
      BY <1>0, <1>6, <2>3, <3>4 DEF ClaimInv
    <3> QED
      BY <3>2, <3>3, <3>4
  <2>4. ASSUME NEW x \in Workers, OwnsLease(x)'
        PROVE  claim'[x].generation = jobGen'[claim'[x].version]
    <3>1. CASE x = w
      BY <1>6, <3>1
    <3>2. CASE x # w
      <4>1. claim[x].version # u
        <5>1. claim[x].epoch \in Nat /\ epoch'[u] = c.epoch /\ c.epoch \in Nat
          BY <1>0, <1>2, <1>3 DEF TypeOK, Claims
        <5> QED
          BY <1>6, <1>9, <2>4, <3>2, <5>1 DEF OwnsLease
      <4>2. OwnsLease(x)
        BY <1>0, <1>6, <2>4, <3>2, <4>1 DEF OwnsLease, TypeOK
      <4> QED
        BY <1>0, <1>6, <3>2, <4>2 DEF ClaimInv
    <3> QED
      BY <3>1, <3>2
  <2> QED
    BY <2>1, <2>2, <2>3, <2>4 DEF ClaimInv
<1>11. DeliveryInv' /\ PublishedInv'
  BY DEF IInv, DeliveryInv, PublishedInv
<1> QED
  BY <1>4, <1>5, <1>10, <1>11 DEF IInv

\* A job that loses its lease goes back to retry, never to superseded, because a live job
\* always belongs to the cursor.
LEMMA BackToRetry ==
    ASSUME IInv, NEW u \in Versions, jobState[u] \in Active,
           jobState' = [jobState EXCEPT ![u] = "retry"],
           UNCHANGED <<cursorGen, cursorVer, latched, signals, latchGen, refreshed, jobGen>>
    PROVE  DBInv(cursorGen, cursorVer, latched, signals, latchGen, refreshed, jobState, jobGen)'
<1>1. JobInv(cursorGen, cursorVer, signals, latchGen, refreshed, jobState, jobGen)
  BY DEF IInv, DBInv
<1>2. jobState' \in [Versions -> JobStates]
  BY DEF IInv, TypeOK, JobStates
<1>3. \A x \in Versions : jobState'[x] = IF x = u THEN "retry" ELSE jobState[x]
  BY DEF IInv, TypeOK
<1>4. u \notin refreshed /\ jobState[u] # "none" /\ cursorVer = u
  BY <1>1 DEF JobInv, Active
<1>5. JobInv(cursorGen, cursorVer, signals, latchGen, refreshed, jobState, jobGen)'
  BY <1>1, <1>3, <1>4 DEF JobInv, Active
<1>6. DBType(cursorGen, cursorVer, latched, signals, latchGen, refreshed, jobState, jobGen)'
  BY <1>2 DEF IInv, DBInv, DBType
<1> QED
  BY <1>5, <1>6 DEF IInv, DBInv

\* A live job carries the cursor's generation and version.
LEMMA LiveJobIsCursors ==
    ASSUME IInv, NEW u \in Versions, jobState[u] \in Active
    PROVE  u = cursorVer /\ jobGen[u] = cursorGen
<1>1. u = cursorVer /\ jobState[u] # "none" /\ jobGen[u] = latchGen[u]
  BY DEF IInv, DBInv, JobInv, Active
<1>2. u # 0
  BY VersionsAssumption
<1> QED
  BY <1>1, <1>2 DEF IInv, DBInv, GenInv

\* Fencing an expired lease preserves the invariant.
LEMMA FenceDueJobStep ==
    ASSUME NEW w \in Workers, NEW u \in Versions, IInv, FenceDueJob(w, u)
    PROVE  IInv'
<1> USE DEF FenceDueJob, latchVars, brokerVars, workerVars
<1>1. jobState[u] \in Active
  BY DEF DueJob, Due, Active
<1>2. jobState' = [jobState EXCEPT ![u] = "retry"]
  BY <1>1, LiveJobIsCursors
<1>3. DBInv(cursorGen, cursorVer, latched, signals, latchGen, refreshed, jobState, jobGen)'
  BY <1>1, <1>2, BackToRetry
<1>4. TypeOK'
  BY <1>2 DEF IInv, TypeOK, FreshDeadlines, JobStates
<1>5. ClaimInv'
  <2>1. \A x \in Versions : jobState'[x] = "leased" => jobState[x] = "leased"
    BY <1>2 DEF IInv, TypeOK
  <2> QED
    BY <1>4, <2>1, ClaimsSurvive DEF IInv
<1>6. DeliveryInv' /\ PublishedInv'
  BY DEF IInv, DeliveryInv, PublishedInv
<1> QED
  BY <1>3, <1>4, <1>5, <1>6 DEF IInv

\* Recording a failure puts the job back if the claimant still owns it, and does nothing else.
LEMMA MarkAfterFailureStep ==
    ASSUME NEW w \in Workers, IInv, MarkAfterFailure(w)
    PROVE  IInv'
<1> USE DEF MarkAfterFailure, latchVars, brokerVars
<1> DEFINE u == claim[w].version
<1>0. TypeOK /\ ClaimInv
  BY DEF IInv
<1>1. /\ pc' \in [Workers -> PCs] /\ claim' \in [Workers -> Claims] /\ lost' \in SUBSET Workers
      /\ \A x \in Workers : \/ claim'[x] = claim[x] /\ pc'[x] = pc[x]
                            \/ claim'[x] = NoClaim /\ pc'[x] = "idle"
  BY <1>0, ReleaseTypes
<1>2. /\ DBInv(cursorGen, cursorVer, latched, signals, latchGen, refreshed, jobState, jobGen)'
      /\ \A x \in Versions : jobState'[x] = "leased" => jobState[x] = "leased"
  <2>1. CASE OwnsLease(w)
    <3>1. u \in Versions /\ jobState[u] = "leased" /\ claim[w].generation = jobGen[u]
      BY <1>0, <2>1 DEF OwnsLease, ClaimInv
    <3>2. jobState[u] \in Active
      BY <3>1 DEF Active
    <3>3. CursorIsClaim(w)
      BY <3>1, <3>2, LiveJobIsCursors DEF CursorIsClaim
    <3>4. jobState' = [jobState EXCEPT ![u] = "retry"]
      BY <2>1, <3>3
    <3>5. \A x \in Versions : jobState'[x] = "leased" => jobState[x] = "leased"
      BY <1>0, <3>4 DEF TypeOK
    <3> HIDE DEF u
    <3> QED
      BY <3>1, <3>2, <3>4, <3>5, BackToRetry
  <2>2. CASE ~OwnsLease(w)
    BY <2>2 DEF IInv
  <2> QED
    BY <2>1, <2>2
<1>3. TypeOK'
  <2>1. jobState' \in [Versions -> JobStates]
    BY <1>2 DEF DBInv, DBType
  <2> QED
    BY <1>0, <1>1, <2>1 DEF TypeOK, FreshDeadlines
<1>4. ClaimInv'
  BY <1>0, <1>1, <1>2, <1>3, ClaimsSurvive
<1>5. DeliveryInv' /\ PublishedInv'
  BY DEF IInv, DeliveryInv, PublishedInv
<1> QED
  BY <1>2, <1>3, <1>4, <1>5 DEF IInv

\* The commit of a pass is the commit of the cursor's own complete version, which is newer
\* than everything published before.
LEMMA CommitsForCursor ==
    ASSUME NEW w \in Workers, IInv, Commits(w)
    PROVE  /\ claim[w].version = cursorVer /\ cursorVer \in Versions
           /\ cursorVer \notin refreshed /\ Complete(signals[cursorVer])
           /\ jobState[cursorVer] = "leased"
           /\ published <= cursorVer
<1>1. /\ claim[w].version = cursorVer /\ cursorVer \in Versions
      /\ jobState[cursorVer] = "leased" /\ cursorVer \notin refreshed
  BY DEF Commits, PassesFence, CursorIsClaim, OwnsLease, Stampable
<1>2. Complete(signals[cursorVer])
  BY <1>1 DEF IInv, DBInv, JobInv
<1>3. published <= cursorVer
  <2>1. CASE published \in refreshed
    BY <1>1, <2>1, VersionsAssumption DEF IInv, DBInv, GenInv
  <2>2. CASE published = 0
    BY <1>1, <2>2, VersionsAssumption
  <2> QED
    BY <2>1, <2>2 DEF IInv, PublishedInv
<1> QED
  BY <1>1, <1>2, <1>3

\* Committing a pass, whether or not the reply arrives, preserves the invariant.
LEMMA CommitStep ==
    ASSUME NEW w \in Workers, IInv, BeforeCommit(w) \/ CommitReplyLost(w)
    PROVE  IInv'
<1> USE DEF brokerVars
<1>0. TypeOK /\ ClaimInv /\ Commits(w)
  BY DEF IInv, BeforeCommit, CommitReplyLost
<1>1. /\ claim[w].version = cursorVer /\ cursorVer \in Versions
      /\ cursorVer \notin refreshed /\ Complete(signals[cursorVer])
      /\ jobState[cursorVer] = "leased"
      /\ published <= cursorVer
  BY <1>0, CommitsForCursor
<1>2. /\ refreshed' = refreshed \cup {cursorVer}
      /\ jobState' = [jobState EXCEPT ![cursorVer] = "completed"]
      /\ published' = cursorVer
      /\ cursorVer \in latched
      /\ FreshDeadlines
      /\ UNCHANGED <<cursorGen, cursorVer, latched, signals, latchGen, malformed, jobGen,
                     epoch, recorded, acked>>
  BY <1>0, <1>1 DEF Commits, Stampable
<1>3. /\ pc' \in [Workers -> PCs] /\ claim' \in [Workers -> Claims] /\ lost' \in SUBSET Workers
      /\ faults' \in 0..MaxFaults
      /\ \A x \in Workers :
            \/ claim'[x] = claim[x] /\ (pc'[x] = "idle" <=> pc[x] = "idle")
            \/ claim'[x] = NoClaim /\ pc'[x] = "idle"
  <2>1. CASE BeforeCommit(w)
    BY <1>0, <2>1, ReleaseTypes DEF BeforeCommit, TypeOK
  <2>2. CASE CommitReplyLost(w)
    BY <1>0, <2>2, FaultType DEF CommitReplyLost, Commits, TypeOK, PCs
  <2> QED
    BY <2>1, <2>2
<1>4. \A x \in Versions : jobState'[x] = IF x = cursorVer THEN "completed" ELSE jobState[x]
  BY <1>0, <1>2 DEF TypeOK
<1>5. TypeOK'
  BY <1>0, <1>1, <1>2, <1>3 DEF TypeOK, FreshDeadlines, JobStates
<1>6. DBInv(cursorGen, cursorVer, latched, signals, latchGen, refreshed, jobState, jobGen)'
  <2>1. DBType(cursorGen, cursorVer, latched, signals, latchGen, refreshed, jobState, jobGen)'
    BY <1>5 DEF DBType, TypeOK
  <2>2. GenInv(cursorGen, cursorVer, latched, latchGen, refreshed)'
    <3>1. cursorVer \in Nat
      BY <1>1, VersionsAssumption
    <3> QED
      BY <1>2, <3>1 DEF IInv, DBInv, GenInv
  <2>3. JobInv(cursorGen, cursorVer, signals, latchGen, refreshed, jobState, jobGen)'
    BY <1>1, <1>2, <1>4 DEF IInv, DBInv, JobInv, Active
  <2> QED
    BY <2>1, <2>2, <2>3 DEF DBInv
<1>7. ClaimInv'
  BY <1>0, <1>2, <1>3, <1>4, <1>5, ClaimsSurvive
<1>8. DeliveryInv'
  BY <1>2 DEF IInv, DeliveryInv
<1>9. PublishedInv'
  <2>1. ASSUME NEW x \in refreshed PROVE x <= cursorVer
    BY <1>1, <2>1, VersionsAssumption DEF IInv, DBInv, GenInv
  <2>2. cursorVer <= cursorVer
    BY <1>1, VersionsAssumption
  <2> QED
    BY <1>2, <2>1, <2>2 DEF PublishedInv
<1> QED
  BY <1>5, <1>6, <1>7, <1>8, <1>9 DEF IInv

-----------------------------------------------------------------------------
(* The theorems.                                                           *)

\* Every step of the specification preserves the invariant.
LEMMA NextIInv == IInv /\ [Next]_vars => IInv'
<1> SUFFICES ASSUME IInv, [Next]_vars PROVE IInv'
  OBVIOUS
<1>1. CASE ReconcileLegacy
  BY <1>1, ReconcileLegacyStep
<1>2. CASE RepairLegacyRow
  BY <1>2, RepairLegacyRowStep
<1>3. CASE Terminal
  BY <1>3, RecordPurgeVetoStep, RecordSignalStep, DeliveryStep DEF Terminal
<1>4. ASSUME NEW w \in Workers, Worker(w) PROVE IInv'
  BY <1>4, LeaseDueJobStep, FenceDueJobStep, WorkerMemoryStep, CommitStep, MarkAfterFailureStep
     DEF Worker
<1>5. ASSUME NEW v \in Versions, DeadlinePasses(v) \/ HeartbeatStalls(v) PROVE IInv'
  BY <1>5, DeadlineStep
<1>6. CASE UNCHANGED vars
  <2>1. TypeOK'
    BY <1>6 DEF IInv, TypeOK, vars, latchVars, jobVars, brokerVars, workerVars
  <2> QED
    BY <1>6, <2>1, RelationsUntouched DEF vars, latchVars, jobVars, brokerVars, workerVars
<1> QED
  BY <1>1, <1>2, <1>3, <1>4, <1>5, <1>6 DEF Next

\* The inductive invariant holds in every reachable state.
THEOREM InductiveInvariant == Spec => []IInv
  BY InitIInv, NextIInv, PTL DEF Spec

\* Types are right in every reachable state, the lease deadlines' included.
THEOREM TypeCorrect == Spec => []TypeOK
<1>1. IInv => TypeOK
  BY DEF IInv
<1> QED
  BY <1>1, InductiveInvariant, PTL

\* claim_due_job and the two fences only ever meet live jobs of the cursor's own version.
THEOREM ActiveJobIsCurrentAlways == Spec => []ActiveJobIsCurrent
<1>1. IInv => ActiveJobIsCurrent
  BY LiveJobIsCursors DEF ActiveJobIsCurrent
<1> QED
  BY <1>1, InductiveInvariant, PTL

\* Generations follow the source order however signals, vetoes and legacy rows arrive.
THEOREM GenerationsFollowVersionsAlways == Spec => []GenerationsFollowVersions
<1>1. IInv => GenerationsFollowVersions
  BY DEF IInv, DBInv, GenInv, GenerationsFollowVersions
<1> QED
  BY <1>1, InductiveInvariant, PTL

\* No crash, expiry, failure path or superseding version loses the owed pass.
THEOREM NoLostObligationAlways == Spec => []NoLostObligation
<1>1. ASSUME IInv PROVE NoLostObligation
  <2> SUFFICES ASSUME cursorVer # 0, Complete(signals[cursorVer]), cursorVer \notin refreshed
               PROVE  jobState[cursorVer] \in Active
    BY DEF NoLostObligation
  <2>1. cursorVer \in Versions /\ jobState[cursorVer] \in JobStates
    BY <1>1 DEF IInv, TypeOK
  <2>2. jobState[cursorVer] \notin {"none", "superseded", "completed"}
    BY <1>1, <2>1 DEF IInv, DBInv, JobInv
  <2> QED
    BY <2>1, <2>2 DEF JobStates, Active
<1> QED
  BY <1>1, InductiveInvariant, PTL

\* The stamp and the completed job are one transaction.
THEOREM StampedIffCompletedAlways == Spec => []StampedIffCompleted
<1>1. IInv => StampedIffCompleted
  BY DEF IInv, DBInv, JobInv, StampedIffCompleted
<1> QED
  BY <1>1, InductiveInvariant, PTL

\* Job rows and obligations agree in every reachable state.
THEOREM JobsMatchObligationsAlways == Spec => []JobsMatchObligations
BY ActiveJobIsCurrentAlways, NoLostObligationAlways, StampedIffCompletedAlways, PTL DEF JobsMatchObligations

\* However leases expire, stall and are reclaimed, at most one claimant passes _owns_lease.
THEOREM AtMostOneOwnerAlways == Spec => []AtMostOneOwner
<1>1. IInv => AtMostOneOwner
  <2> SUFFICES ASSUME IInv, NEW w \in Workers, NEW x \in Workers, OwnsLease(w), OwnsLease(x)
               PROVE  w = x
    BY DEF AtMostOneOwner
  <2>1. claim[w].version \in Versions /\ claim[x].version \in Versions /\ 0 \notin Versions
    BY VersionsAssumption DEF OwnsLease
  <2>2. jobState[claim[w].version] \in Active /\ jobState[claim[x].version] \in Active
    BY DEF OwnsLease, Active
  <2>3. claim[w].version = claim[x].version
    BY <2>1, <2>2, LiveJobIsCursors
  <2> QED
    BY <2>1, <2>3 DEF OwnsLease, IInv, ClaimInv
<1> QED
  BY <1>1, InductiveInvariant, PTL

\* A signal that was acked is in the database and stays there.
THEOREM AckedSignalIsDurableAlways == Spec => []AckedSignalIsDurable
<1>1. IInv => AckedSignalIsDurable
  BY DEF IInv, DeliveryInv, AckedSignalIsDurable
<1> QED
  BY <1>1, InductiveInvariant, PTL

\* Only the commit of a pass changes what is published or stamped.
LEMMA OnlyCommitsPublish ==
    ASSUME [Next]_vars
    PROVE  \/ UNCHANGED <<refreshed, published>>
           \/ \E w \in Workers : Commits(w)
<1> USE DEF latchVars
<1>1. CASE UNCHANGED vars
  BY <1>1 DEF vars
<1>2. CASE ReconcileLegacy \/ RepairLegacyRow \/ Terminal
  BY <1>2, ZenonT(30) DEF ReconcileLegacy, RepairLegacyRow, Terminal, RecordPurgeVeto, RecordSignal, Ack,
              Redeliver
<1>3. ASSUME NEW w \in Workers, Worker(w)
      PROVE  UNCHANGED <<refreshed, published>> \/ Commits(w)
  BY <1>3 DEF Worker, LeaseDueJob, FenceDueJob, BeforeRefresh, BeforeCommit, CommitReplyLost,
              Fenced, PassFails, MarkAfterFailure, WorkerStops, HeartbeatLost
<1>4. CASE \E v \in Versions : DeadlinePasses(v) \/ HeartbeatStalls(v)
  BY <1>4 DEF DeadlinePasses, HeartbeatStalls
<1> QED
  BY <1>1, <1>2, <1>3, <1>4 DEF Next

\* The derived relations never go back to an older dump version.
THEOREM PublishedNeverRegressesAlways == Spec => PublishedNeverRegresses
<1>1. IInv /\ [Next]_vars => [published' >= published]_published
  <2> SUFFICES ASSUME IInv, [Next]_vars, published' # published PROVE published' >= published
    OBVIOUS
  <2>1. PICK w \in Workers : Commits(w)
    BY OnlyCommitsPublish
  <2>2. published' = cursorVer /\ published <= cursorVer
    BY <2>1, CommitsForCursor DEF Commits
  <2>3. published \in Nat /\ cursorVer \in Nat
    BY VersionsAssumption DEF IInv, TypeOK
  <2> QED
    BY <2>2, <2>3
<1> QED
  BY <1>1, InductiveInvariant, PTL DEF Spec, PublishedNeverRegresses

\* The steps other than a commit only move the cursor forward and add signals.
LEMMA CursorAndSignalsGrow ==
    ASSUME IInv, [Next]_vars
    PROVE  /\ cursorVer' >= cursorVer /\ cursorVer' \in Versions \cup {0}
           /\ signals' \in [Versions -> SUBSET Types]
           /\ \A v \in Versions : signals[v] \subseteq signals'[v]
<1>0. /\ cursorVer \in Versions \cup {0} /\ cursorVer >= cursorVer
      /\ signals \in [Versions -> SUBSET Types]
  BY VersionsAssumption DEF IInv, TypeOK
<1>1. CASE UNCHANGED <<cursorVer, signals>>
  BY <1>0, <1>1
<1>2. CASE ReconcileLegacy
  BY <1>0, <1>2, ReconcileNumbers DEF IInv, ReconcileLegacy
<1>3. ASSUME NEW v \in Versions, NEW t \in Types, RecordSignal(v, t)
      PROVE  /\ cursorVer' >= cursorVer /\ cursorVer' \in Versions \cup {0}
             /\ signals' \in [Versions -> SUBSET Types]
             /\ \A u \in Versions : signals[u] \subseteq signals'[u]
  <2>1. IInv'
    BY <1>3, RecordSignalStep
  <2>2. cursorVer' >= cursorVer
    BY <1>3, RecordSignalKeepsDBInv DEF IInv
  <2>3. \A u \in Versions : signals[u] \subseteq signals'[u]
    BY <1>0, <1>3 DEF RecordSignal
  <2> QED
    BY <2>1, <2>2, <2>3 DEF IInv, TypeOK
<1>4. \/ UNCHANGED <<cursorVer, signals>>
      \/ ReconcileLegacy
      \/ \E v \in Versions, t \in Types : RecordSignal(v, t)
  BY DEF Next, vars, latchVars, workerVars, jobVars, brokerVars, RepairLegacyRow,
         Terminal, RecordPurgeVeto, Ack, Redeliver, Worker, LeaseDueJob, FenceDueJob,
         BeforeRefresh, BeforeCommit, CommitReplyLost, Commits, Fenced, PassFails,
         MarkAfterFailure, WorkerStops, HeartbeatLost, DeadlinePasses, HeartbeatStalls
<1> QED
  BY <1>1, <1>2, <1>3, <1>4

\* The protocol implements its contract: initial states map to initial states, a commit is the
\* publication of the current, complete and unpublished version, and every other step accepts
\* signals or stutters.
THEOREM ImplementsContractAlways == Spec => ImplementsContract
<1>1. Init => Contract!Init
  BY DEF Init, Contract!Init
<1>2. IInv /\ [Next]_vars => [Contract!Next]_Contract!vars
  <2> SUFFICES ASSUME IInv, [Next]_vars PROVE [Contract!Next]_Contract!vars
    OBVIOUS
  <2>1. ASSUME NEW w \in Workers, Commits(w) PROVE Contract!Publish
    BY <2>1, CommitsForCursor DEF Commits, Contract!Publish, Complete
  <2>2. CASE UNCHANGED <<refreshed, published>>
    <3>1. cursorVer' \in {v \in Versions : v >= cursorVer} \cup {cursorVer}
      BY CursorAndSignalsGrow, VersionsAssumption DEF IInv, TypeOK
    <3> QED
      BY <2>2, <3>1, CursorAndSignalsGrow DEF Contract!Next, Contract!Accept
  <2> QED
    BY <2>1, <2>2, OnlyCommitsPublish DEF Contract!Next
<1> QED
  BY <1>1, <1>2, InductiveInvariant, PTL DEF Spec, ImplementsContract, Contract!Spec

-----------------------------------------------------------------------------
(* What read_refresh_health reports is true.  The report reads the job     *)
(* rows in generation order, and a version stamped before the cutover has  *)
(* no job row, so the newest completed job says what is published only     *)
(* because LegacyStampInv holds.                                           *)

\* The newest row of some states is a row of one of them with the greatest generation, which is
\* the one of the greatest version; there is none only when no row is in one of them.
LEMMA NewestOfRows ==
    ASSUME IInv, NEW states, "none" \notin states
    PROVE  /\ NewestOf(states) = 0 => \A u \in Versions : jobState[u] \notin states
           /\ NewestOf(states) # 0 =>
                /\ NewestOf(states) \in Versions
                /\ jobState[NewestOf(states)] \in states
                /\ \A x \in Versions : jobState[x] \in states => jobGen[x] <= jobGen[NewestOf(states)]
<1> DEFINE rows == {u \in JobRows : jobState[u] \in states}
<1>1. rows \in SUBSET Versions /\ \A u \in Versions : u \in rows <=> jobState[u] \in states
  BY DEF JobRows
<1>2. CASE rows = {}
  BY <1>1, <1>2 DEF NewestOf
<1>3. CASE rows # {}
  <2>1. NewestOf(states) = CHOOSE u \in rows : \A x \in rows : jobGen[x] <= jobGen[u]
    BY <1>3 DEF NewestOf
  <2>2. \A u \in rows : u \in Versions /\ jobState[u] # "none"
    BY <1>1
  <2> HIDE DEF rows
  <2>3. rows \in SUBSET Nat /\ IsFiniteSet(rows)
    BY <1>1, FS_Subset, VersionsAssumption
  <2>4. PICK m \in rows : \A x \in rows : x <= m
    BY <1>3, <2>3, GreatestExists
  <2>5. ASSUME NEW x \in rows PROVE jobGen[x] <= jobGen[m]
    <3>1. /\ jobGen[x] = latchGen[x] /\ jobGen[m] = latchGen[m] /\ latchGen[x] # 0 /\ latchGen[m] # 0
          /\ jobGen[x] \in Nat /\ jobGen[m] \in Nat
      BY <2>2 DEF IInv, DBInv, DBType, JobInv
    <3>2. x \in Nat /\ m \in Nat /\ x <= m
      BY <2>3, <2>4
    <3>3. x < m => latchGen[x] < latchGen[m]
      BY <2>2, <3>1 DEF IInv, DBInv, GenInv
    <3> QED
      BY <3>1, <3>2, <3>3
  <2>6. NewestOf(states) \in rows /\ \A x \in rows : jobGen[x] <= jobGen[NewestOf(states)]
    BY <2>1, <2>5
  <2>7. NewestOf(states) # 0
    BY <1>1, <2>6, VersionsAssumption
  <2> QED
    BY <1>1, <2>6, <2>7
<1> QED
  BY <1>2, <1>3

\* While a live job is reported, its state is the phase.
LEMMA ActivePhase == ActiveVersion # 0 => Phase = jobState[ActiveVersion]
  BY DEF Phase, Waiting

\* Only a commit completes a job, and no row is ever deleted.
LEMMA OnlyCommitsComplete ==
    ASSUME IInv, [Next]_vars, ~ \E w \in Workers : Commits(w)
    PROVE  \A u \in Versions : /\ jobState'[u] = "completed" => jobState[u] = "completed"
                               /\ jobState'[u] = "none" => jobState[u] = "none"
<1>0. jobState \in [Versions -> JobStates]
  BY DEF IInv, TypeOK
<1>1. CASE UNCHANGED jobState
  BY <1>1
<1>2. \A u \in Versions : /\ ReconciledJobState[u] = "completed" => jobState[u] = "completed"
                          /\ ReconciledJobState[u] = "none" => jobState[u] = "none"
  BY <1>0 DEF ReconciledJobState, SupersedeBelow, Active
<1>3. CASE ReconcileLegacy
  BY <1>2, <1>3 DEF ReconcileLegacy
<1>4. ASSUME NEW v \in Versions, NEW t \in Types, RecordSignal(v, t), NEW u \in Versions
      PROVE  /\ jobState'[u] = "completed" => jobState[u] = "completed"
             /\ jobState'[u] = "none" => jobState[u] = "none"
  <2>1. PICK js, g : /\ jobState' = js \/ jobState' = UpsertState(js, v)
                     /\ js = ReconciledJobState \/ js = SupersedeBelow(ReconciledJobState, ReconciledJobGen, g)
    BY <1>4 DEF RecordSignal
  <2>2. js \in [Versions -> JobStates]
    <3>1. ReconciledJobState \in [Versions -> JobStates]
      BY <1>0 DEF ReconciledJobState, SupersedeBelow, JobStates
    <3> QED
      BY <2>1, <3>1 DEF SupersedeBelow, JobStates
  <2>3. /\ js[u] = "completed" => ReconciledJobState[u] = "completed"
        /\ js[u] = "none" => ReconciledJobState[u] = "none"
    BY <2>1 DEF SupersedeBelow
  <2>4. /\ jobState'[u] = "completed" => js[u] = "completed"
        /\ jobState'[u] = "none" => js[u] = "none"
    BY <2>1, <2>2 DEF UpsertState
  <2> QED
    BY <1>2, <2>3, <2>4
<1>5. CASE Terminal
  BY <1>1, <1>4, <1>5 DEF Terminal, RecordPurgeVeto, Ack, Redeliver, jobVars
<1>6. ASSUME NEW w \in Workers, Worker(w), NEW u \in Versions
      PROVE  /\ jobState'[u] = "completed" => jobState[u] = "completed"
             /\ jobState'[u] = "none" => jobState[u] = "none"
  <2>1. CASE UNCHANGED jobState
    BY <2>1
  <2>2. CASE \E x \in Versions : LeaseDueJob(w, x) \/ FenceDueJob(w, x)
    BY <1>0, <2>2 DEF LeaseDueJob, FenceDueJob
  <2>3. CASE MarkAfterFailure(w)
    BY <1>0, <2>3 DEF MarkAfterFailure
  <2>4. CASE BeforeRefresh(w) \/ Fenced(w) \/ PassFails(w) \/ WorkerStops(w) \/ HeartbeatLost(w)
    BY <2>1, <2>4 DEF BeforeRefresh, Fenced, PassFails, WorkerStops, HeartbeatLost, jobVars
  <2>5. CASE BeforeCommit(w) \/ CommitReplyLost(w)
    BY <2>5 DEF BeforeCommit, CommitReplyLost
  <2> QED
    BY <1>6, <2>2, <2>3, <2>4, <2>5 DEF Worker
<1>7. CASE RepairLegacyRow \/ \E v \in Versions : DeadlinePasses(v) \/ HeartbeatStalls(v)
  BY <1>1, <1>7 DEF RepairLegacyRow, DeadlinePasses, HeartbeatStalls, jobVars
<1>8. CASE UNCHANGED vars
  BY <1>1, <1>8 DEF vars, jobVars
<1> QED
  BY <1>3, <1>5, <1>6, <1>7, <1>8 DEF Next

\* A commit completes the cursor's job, and no stamped version is above the cursor.
LEMMA LegacyStampStep == IInv /\ LegacyStampInv /\ [Next]_vars => LegacyStampInv'
<1> SUFFICES ASSUME IInv, LegacyStampInv, [Next]_vars PROVE LegacyStampInv'
  OBVIOUS
<1>0. refreshed \subseteq Versions /\ jobState \in [Versions -> JobStates]
  BY DEF IInv, TypeOK
<1>1. CASE \E w \in Workers : Commits(w)
  <2>1. PICK w \in Workers : Commits(w)
    BY <1>1
  <2>2. claim[w].version = cursorVer /\ cursorVer \in Versions
    BY <2>1 DEF Commits, PassesFence, CursorIsClaim, OwnsLease
  <2>3. refreshed' = refreshed \cup {cursorVer} /\ jobState' = [jobState EXCEPT ![cursorVer] = "completed"]
    BY <2>1, <2>2 DEF Commits
  <2>4. \A u \in refreshed : u <= cursorVer
    BY <2>2, VersionsAssumption DEF IInv, DBInv, GenInv
  <2>5. ASSUME NEW u \in refreshed', NEW x \in Versions, jobState'[u] = "none", jobState'[x] = "completed"
        PROVE  u < x
    <3>1. u \in refreshed /\ u # cursorVer /\ jobState[u] = "none"
      BY <1>0, <2>2, <2>3, <2>5
    <3>2. CASE x = cursorVer
      <4>1. u \in Nat /\ cursorVer \in Nat
        BY <1>0, <2>2, <3>1, VersionsAssumption
      <4> QED
        BY <2>4, <3>1, <3>2, <4>1
    <3>3. CASE x # cursorVer
      BY <1>0, <2>3, <2>5, <3>1, <3>3 DEF LegacyStampInv
    <3> QED
      BY <3>2, <3>3
  <2> QED
    BY <2>5 DEF LegacyStampInv
<1>2. CASE ~ \E w \in Workers : Commits(w)
  <2>1. refreshed' = refreshed
    BY <1>2, OnlyCommitsPublish
  <2>2. \A u \in Versions : /\ jobState'[u] = "completed" => jobState[u] = "completed"
                            /\ jobState'[u] = "none" => jobState[u] = "none"
    BY <1>2, OnlyCommitsComplete
  <2> QED
    BY <1>0, <2>1, <2>2 DEF LegacyStampInv
<1> QED
  BY <1>1, <1>2

\* The invariant the reports rest on.
LEMMA HealthInductive == Spec => [](IInv /\ LegacyStampInv)
<1>1. Init => LegacyStampInv
  BY DEF Init, LegacyStampInv
<1> QED
  BY <1>1, LegacyStampStep, InductiveInvariant, PTL DEF Spec

\* "An acked but stuck job never looks successful": when read_refresh_health reports no phase
\* and a version is accepted, that version's pass is stamped.
THEOREM IdlePhaseMeansPublishedAlways == Spec => []IdlePhaseMeansPublished
<1>1. IInv => IdlePhaseMeansPublished
  <2> SUFFICES ASSUME IInv, Phase = "none", cursorVer # 0 PROVE cursorVer \in refreshed
    BY DEF IdlePhaseMeansPublished
  <2>1. ActiveVersion = 0
    <3> SUFFICES ASSUME ActiveVersion # 0 PROVE FALSE
      OBVIOUS
    <3>1. jobState[ActiveVersion] \in Active
      BY NewestOfRows DEF ActiveVersion, Active
    <3>2. Phase = jobState[ActiveVersion]
      BY ActivePhase
    <3> QED
      BY <3>1, <3>2 DEF Active
  <2>2. ~Waiting
    BY <2>1 DEF Phase
  <2>3. NewestCompletedVersion = cursorVer
    BY <2>1, <2>2 DEF Waiting
  <2>4. cursorVer \in Versions /\ jobState[cursorVer] = "completed"
    BY <2>3, NewestOfRows DEF NewestCompletedVersion
  <2> QED
    BY <2>4 DEF IInv, DBInv, JobInv
<1> QED
  BY <1>1, InductiveInvariant, PTL

\* read_refresh_health asks for more signals only while signals are missing or nothing is owed.
THEOREM WaitingMeansNothingIsOwedAlways == Spec => []WaitingMeansNothingIsOwed
<1>1. IInv => WaitingMeansNothingIsOwed
  <2> SUFFICES ASSUME IInv, Phase = "waiting_for_signals", cursorVer \notin refreshed,
                      Complete(signals[cursorVer])
               PROVE  FALSE
    BY DEF WaitingMeansNothingIsOwed
  <2>1. TypeOK
    BY DEF IInv
  <2>2. ActiveVersion = 0
    <3> SUFFICES ASSUME ActiveVersion # 0 PROVE FALSE
      OBVIOUS
    <3>1. jobState[ActiveVersion] \in Active
      BY NewestOfRows DEF ActiveVersion, Active
    <3>2. Phase = jobState[ActiveVersion]
      BY ActivePhase
    <3> QED
      BY <3>1, <3>2 DEF Active
  <2>3. \A u \in Versions : jobState[u] \notin Active
    BY <2>2, NewestOfRows DEF ActiveVersion, Active
  <2>4. Waiting
    BY <2>2 DEF Phase
  <2>5. cursorVer \in Versions
    BY <2>1, <2>4 DEF Waiting, TypeOK
  <2>6. jobState[cursorVer] \in Active
    <3>1. /\ cursorVer # 0 /\ jobState[cursorVer] # "none" /\ jobState[cursorVer] # "superseded"
          /\ jobState[cursorVer] # "completed" /\ jobState[cursorVer] \in JobStates
      BY <2>1, <2>5, VersionsAssumption DEF IInv, DBInv, JobInv, TypeOK
    <3> QED
      BY <3>1 DEF JobStates, Active
  <2> QED
    BY <2>3, <2>5, <2>6
<1> QED
  BY <1>1, InductiveInvariant, PTL

\* The version read_refresh_health names as newest completed is the one whose pass last
\* committed to the derived relations.
THEOREM NewestCompletedIsPublishedAlways == Spec => []NewestCompletedIsPublished
<1>1. IInv /\ LegacyStampInv => NewestCompletedIsPublished
  <2> DEFINE c == NewestCompletedVersion
  <2> SUFFICES ASSUME IInv, LegacyStampInv, c # 0 PROVE c = published
    BY DEF NewestCompletedIsPublished
  <2>1. TypeOK
    BY DEF IInv
  <2>2. /\ c \in Versions /\ jobState[c] = "completed"
        /\ \A x \in Versions : jobState[x] = "completed" => jobGen[x] <= jobGen[c]
    BY NewestOfRows DEF NewestCompletedVersion
  <2> HIDE DEF c
  <2>3. c \in refreshed /\ c <= published
    BY <2>2 DEF IInv, DBInv, JobInv, PublishedInv
  <2>4. published \in refreshed /\ published \in Versions
    BY <2>1, <2>2, <2>3, VersionsAssumption DEF IInv, PublishedInv, TypeOK
  <2>5. c \in Nat /\ published \in Nat /\ c # 0
    BY <2>2, <2>4, VersionsAssumption
  <2>6. jobState[published] # "none"
    BY <2>2, <2>3, <2>4, <2>5 DEF LegacyStampInv
  <2>7. jobState[published] = "completed"
    BY <2>4, <2>6 DEF IInv, DBInv, JobInv
  <2>8. /\ jobGen[c] = latchGen[c] /\ jobGen[published] = latchGen[published]
        /\ latchGen[c] # 0 /\ latchGen[published] # 0
    BY <2>2, <2>4, <2>7 DEF IInv, DBInv, JobInv
  <2>9. c < published => latchGen[c] < latchGen[published]
    BY <2>2, <2>4, <2>8 DEF IInv, DBInv, GenInv
  <2>10. latchGen[c] \in Nat /\ latchGen[published] \in Nat
    BY <2>1, <2>2, <2>4 DEF TypeOK
  <2>11. ~(latchGen[c] < latchGen[published])
    BY <2>2, <2>4, <2>7, <2>8, <2>10
  <2> QED
    BY <2>3, <2>5, <2>9, <2>11
<1> QED
  BY <1>1, HealthInductive, PTL

\* The health report tells the truth in every reachable state.
THEOREM HealthTellsTheTruthAlways == Spec => []HealthTellsTheTruth
BY IdlePhaseMeansPublishedAlways, WaitingMeansNothingIsOwedAlways, NewestCompletedIsPublishedAlways, PTL
DEF HealthTellsTheTruth
=============================================================================
