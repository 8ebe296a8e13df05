--------------------------- MODULE InlineLatchInv ---------------------------
(***************************************************************************)
(* The inductive invariant of InlineLatch, in named parts.                 *)
(***************************************************************************)
EXTENDS InlineLatch

HasRow(d) == created[d] # 0

\* The rows are ranked without gaps or ties, so that a new row outranks them all.
RowsAreRanked ==
    /\ \A d \in Dumps : created[d] <= Cardinality({e \in Dumps : HasRow(e)})
    /\ \A d, e \in Dumps : d # e /\ HasRow(d) => created[d] # created[e]

\* A busy handler has a delivery; a pass is run for a complete extraction that the latch knows, and
\* what the latch can record is recorded before the ack.
HandlersAreBusy ==
    \A h \in Handlers :
        /\ handler[h].phase # "free" => handler[h].dump \in Dumps
        /\ handler[h].phase = "passing" => /\ Latched(handler[h].dump)
                                           /\ Types \subseteq signals[handler[h].dump]
        /\ handler[h].phase \in {"acking", "reporting"} /\ Latched(handler[h].dump)
             => handler[h].type \in signals[handler[h].dump]

\* The delivery is acked with its signal, or its live handler has only that ack left.
Discharged(d, t) ==
    \/ msg[d][t] = "acked"
    \/ \E h \in Handlers : /\ Latched(d) /\ handler[h].phase = "acking" /\ handler[h].alive
                           /\ handler[h].dump = d /\ handler[h].type = t

\* Stamped, or a row was created later than its own.
Resolved(d) == d \in refreshed \/ \E e \in Dumps : created[e] > created[d]

\* Nobody gets past recording a signal without having recorded it, and whoever was the last of
\* an extraction to get past it left the extraction resolved.
AcksAreCovered ==
    \A d \in Dumps :
        /\ \A t \in Types : Discharged(d, t) => t \in signals[d]
        /\ (\A t \in Types : Discharged(d, t)) => Resolved(d)

\* The passes are the stamps; a running pass is for a row created after all rows that had one,
\* and not stamped itself.
PassesAreStamped ==
    /\ \A i \in 1..Len(passes) : passes[i] \in refreshed
    /\ \A h \in Handlers : handler[h].phase = "passing" =>
         \A i \in 1..Len(passes) : created[passes[i]] < created[handler[h].dump]

LatchInv ==
    /\ TypeOK /\ RowsAreRanked /\ LegacyRowsAreComplete /\ HandlersAreBusy
    /\ AcksAreCovered /\ PassesAreStamped /\ PassesFollowExtractions
=============================================================================
