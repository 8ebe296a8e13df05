---------------------------- MODULE RefreshHealth ----------------------------
(***************************************************************************)
(* What read_refresh_health reports about the rows of DurableRefresh.      *)
(*                                                                         *)
(* The report is computed from the cursor and the job rows alone; it never *)
(* looks at refreshed_at.  The properties compare it with the truth: which *)
(* version's pass is stamped and which the derived relations hold.  Ages   *)
(* and counts are left out; the phase decides which age limit applies.     *)
(***************************************************************************)
EXTENDS DurableRefresh

JobRows == {u \in Versions : jobState[u] # "none"}

BrokenNewestOf(states) ==
    LET rows == {u \in JobRows : jobState[u] \in states}
    IN  IF rows = {} THEN 0
        ELSE CHOOSE u \in rows : \A x \in rows : jobGen[x] >= jobGen[u]

\* The first row, in generation order from the newest, whose state is one of states.
NewestOf(states) ==
    LET rows == {u \in JobRows : jobState[u] \in states}
    IN  IF rows = {} THEN 0
        ELSE CHOOSE u \in rows : \A x \in rows : jobGen[x] <= jobGen[u]

NewestCompletedVersion == NewestOf({"completed"})

BrokenActiveVersion == NewestOf({"pending", "leased"})

ActiveVersion == NewestOf(Active)

BrokenWaiting == ActiveVersion = 0 /\ cursorVer # 0 /\ NewestCompletedVersion = 0

Waiting == ActiveVersion = 0 /\ cursorVer # 0 /\ NewestCompletedVersion # cursorVer

\* The reported phase; "none" stands for null.
Phase ==
    CASE ActiveVersion # 0 -> jobState[ActiveVersion]
      [] Waiting           -> "waiting_for_signals"
      [] OTHER             -> "none"

-----------------------------------------------------------------------------

\* "An acked but stuck job never looks successful": health reports no phase only when there is
\* no accepted version, or when the newest accepted version's pass really is stamped.
IdlePhaseMeansPublished ==
    Phase = "none" /\ cursorVer # 0 => cursorVer \in refreshed

\* Health asks for more signals only when signals are missing or nothing is owed: a version
\* with all of its signals that still needs its pass is always reported by its job's state,
\* whose age limit is minutes, never by the 24-hour limit of waiting_for_signals.
WaitingMeansNothingIsOwed ==
    Phase = "waiting_for_signals" =>
        cursorVer \in refreshed \/ ~Complete(signals[cursorVer])

\* The version reported as newest completed is the one the derived relations hold.
NewestCompletedIsPublished ==
    NewestCompletedVersion # 0 => NewestCompletedVersion = published

\* What read_refresh_health reports hides no owed pass and claims none that was not published.
HealthTellsTheTruth == IdlePhaseMeansPublished /\ WaitingMeansNothingIsOwed /\ NewestCompletedIsPublished

=============================================================================
