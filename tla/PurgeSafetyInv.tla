--------------------------- MODULE PurgeSafetyInv ---------------------------
(***************************************************************************)
(* The inductive invariant of PurgeSafety, in named parts.                 *)
(***************************************************************************)
EXTENDS PurgeSafety

-----------------------------------------------------------------------------
(* Deliveries, handlers and rows                                           *)

Published(m) == m[1] <= started /\ m[2] \in dump[m[1]]

\* Only what an extraction has published is anywhere.
DeliveriesArePublished ==
    /\ started <= limits.dumps
    /\ \A d \in Dumps : marker[d] # "unsent" => d <= started
    /\ \A m \in Deliveries : msg[m] # "unsent" <=> Published(m)
    /\ \A m \in behind \cup ghosts \cup owed : Published(m)

\* A free handler has nothing, a busy one a started dump, and a dump at most one live handler.
HandlersAreDistinct ==
    \A h \in Handlers :
        /\ handler[h].phase = "free" => handler[h] = Free
        /\ handler[h].phase # "free" => handler[h].dump \in Dumps /\ handler[h].dump <= started
        /\ \A g \in Handlers : handler[g].alive /\ handler[h].alive /\ handler[g].dump = handler[h].dump
                => g = h

BaseInv == TypeOK /\ DeliveriesArePublished /\ HandlersAreDistinct /\ AckedRecordIsWritten

-----------------------------------------------------------------------------
(* What spares the dump                                                    *)

\* The row was refreshed in this dump or later, or has been deleted: no purge of this dump can
\* take it.
Refreshed(m) == row[m[2]] >= m[1]
Safe(m)      == Refreshed(m) \/ m[1] \in latchVeto
Pending(m)   == m \in Held \cup ghosts \cup owed
Noted(m)     == msg[m] = "dlq" \/ m \in flagged
Excused(m)   == Safe(m) \/ m \in forgotten
Of(d)        == {m \in Deliveries : m[1] = d /\ m[2] \in dump[d]}

\* Refreshed, forgotten, or vetoed on a latch that this process cannot read.
Purgeable(m) == Refreshed(m) \/ m \in forgotten \/ (~declared /\ m[1] \in latchVeto)

\* The deliveries: those out of the way are safe, and those behind the marker are safe or
\* forgotten, or the engine or the flag remembers them.
DeliveriesAreAccounted ==
    /\ flagged # {} => dlqNacks
    /\ \A m \in Deliveries : /\ msg[m] = "done" => Refreshed(m)
                             /\ msg[m] = "cleared" => m[1] \in latchVeto
                             /\ msg[m] = "ready" /\ m \in behind => Excused(m) \/ Pending(m) \/ Noted(m)

\* The handlers: each phase has excluded another way for a delivery not to be safe.
HandlersHaveExcluded ==
    \A h \in Handlers :
        LET d == handler[h].dump
            p == handler[h].phase
        IN  /\ p = "flushing" => \A m \in Of(d) : Excused(m) \/ Pending(m) \/ Noted(m)
            /\ p = "vetting"  => \A m \in Of(d) : Excused(m) \/ Noted(m)
            /\ p = "checking" => \A m \in Of(d) : Excused(m)
            /\ p = "purging"  => \A m \in Of(d) : Purgeable(m)
            /\ p \in {"recording", "acking"} /\ ~handler[h].vetoed => \A m \in Of(d) : Purgeable(m)
            /\ p \in {"recording", "acking"} /\ handler[h].vetoed /\ declared => d \in latchVeto
            /\ p = "vetoing" => handler[h].vetoed
            /\ p \in {"flushing", "vetting", "checking", "purging"} => ~handler[h].vetoed

\* What is settled with a latch is safe or forgotten.
SettledIsSafe == \A d \in Dumps : marker[d] = "done" => \A m \in Of(d) : Excused(m)

PurgeInv == BaseInv /\ DeliveriesAreAccounted /\ HandlersHaveExcluded /\ SettledIsSafe
=============================================================================
