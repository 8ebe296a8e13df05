--------------------------- MODULE BatchEngineInv ---------------------------
(***************************************************************************)
(* The inductive invariant of BatchEngine.                                 *)
(*                                                                         *)
(* Everything the loader holds is one line, from the head of the batch to  *)
(* the last delivery in submit.  A settlement takes a delivery out of the  *)
(* middle of the line and the oldest entry out of the observer, so the two *)
(* drift apart; what stays true is that entries are never older than the   *)
(* deliveries beside them, and exact where the channel is alive and where  *)
(* deliveries wait in submit.                                              *)
(***************************************************************************)
EXTENDS BatchEngine

Held == flush.batch \o pending \o waiting

\* Who is in line: deliveries in order of arrival, those of a lost channel first, and a record
\* has at most one live delivery.
InLine(H) ==
    /\ \A i, j \in DOMAIN H : i < j => H[i].age >= H[j].age
    /\ \A i, j \in DOMAIN H : i < j /\ H[i].live => H[j].live
    /\ \A i, j \in DOMAIN H : i # j /\ H[i].live /\ H[j].live => H[i].rec # H[j].rec

\* The observer's entries A beside the line H, whose first m deliveries have a place.
Entries(H, A, m) ==
    /\ Len(A) = Len(H)
    /\ \A i, j \in DOMAIN A : i < j => A[i] >= A[j]
    /\ \A i \in DOMAIN H : A[i] <= H[i].age
    /\ \A i \in DOMAIN H : H[i].live \/ i > m => A[i] = H[i].age

Flushes == [pc : {"idle", "write", "settle"}, batch : Seq(Deliveries), parts : Seq([lo : Nat, hi : Nat]),
            rejected : SUBSET Nat]
Observers == [accepted : Seq(Ages), held : Ages \cup {None}, settled : Ages, veto : BOOLEAN]
Stages == {"running", "stopping", "flushing", "closing", "draining", "pool_closed", "pool_kept"}

\* The types of the variables.
Typed ==
    /\ kinds \in {c.kinds : c \in Cases}
    /\ queue \subseteq Records /\ acked \subseteq Records /\ dead \subseteq Records
    /\ stored \subseteq Records /\ lingering \subseteq SUBSET Records
    /\ returns \in [Records -> 0..MaxRequeues]
    /\ waited \in [Records -> Ages \cup {None}] /\ kept \in [Records -> Ages \cup {None}]
    /\ waiting \in Seq(Deliveries) /\ pending \in Seq(Deliveries)
    /\ flush \in Flushes /\ obs \in Observers
    /\ attempts \in 0..(MaxPoisonRetries - 1) /\ tries \in 0..MaxFlushRetries
    /\ stage \in Stages

\* Each record is in one place: at the broker, acked, dead-lettered or in hand.
OnePlace ==
    /\ \A r \in Records : r \in queue \cup acked \cup dead \cup Unsettled
    /\ queue \cap acked = {} /\ queue \cap dead = {} /\ queue \cap Unsettled = {}
    /\ acked \cap dead = {} /\ acked \cap Unsettled = {} /\ dead \cap Unsettled = {}

\* What is known of a batch while it is written and settled: each delivery is rejected, which only
\* a record that fails alone is, or committed, or in a part that is still to be written.
FlushInv ==
    /\ flush.pc = "idle" <=> flush.batch = <<>>
    /\ flush.pc = "write" <=> flush.parts # <<>>
    /\ flush.rejected \subseteq DOMAIN flush.batch
    /\ \A i \in flush.rejected : kinds[flush.batch[i].rec] = "poison"
    /\ \A k \in DOMAIN flush.parts : /\ 1 <= flush.parts[k].lo /\ flush.parts[k].lo <= flush.parts[k].hi
                                     /\ flush.parts[k].hi <= Len(flush.batch)
    /\ \A i \in DOMAIN flush.batch :
         \/ i \in flush.rejected \/ flush.batch[i].rec \in stored
         \/ \E k \in DOMAIN flush.parts : i \in flush.parts[k].lo .. flush.parts[k].hi

\* What the stages of the teardown have left behind.
StageInv ==
    /\ stage \in {"draining", "pool_closed"} => Unsettled = {}
    /\ stage = "pool_closed" => lingering = {} /\ flush.pc = "idle"

\* A wait that the observer keeps is as long as waits can get, and some record has waited so long.
HeldIsOld == obs.held # None => obs.held = MaxAge /\ \E r \in Records : waited[r] = MaxAge

\* A live delivery is no older than the wait of its record.
WaitsCoverAges == \A i \in DOMAIN Held : Held[i].live => waited[Held[i].rec] >= Held[i].age

\* What the observer knows of the wait of a record in hand: the wait it keeps, the entry of the
\* delivery, or nothing, when the type has had a settlement since the delivery was accepted.
KeptIsSeen ==
    /\ \A i \in DOMAIN Held :
         Held[i].live => \/ kept[Held[i].rec] <= obs.held \/ kept[Held[i].rec] <= Held[i].age
                         \/ obs.settled <= Held[i].age
    /\ \A r \in queue : kept[r] # None => obs.held # None
    /\ \A r \in Records : r \in acked \cup dead \/ kinds[r] = "malformed" => kept[r] = None

LineInv == InLine(Held) /\ Entries(Held, obs.accepted, Places) /\ Places <= MaxPending

WaitInv == HeldIsOld /\ WaitsCoverAges /\ KeptIsSeen

EngineInv == Typed /\ LineInv /\ OnePlace /\ FlushInv /\ StageInv /\ SettlementsAreEarned /\ WaitInv
=============================================================================
