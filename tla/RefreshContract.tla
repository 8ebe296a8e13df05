-------------------------- MODULE RefreshContract --------------------------
(***************************************************************************)
(* What the durable refresh promises to the rest of the system, with no    *)
(* cursor generations, jobs, leases, workers or failures: the newest       *)
(* accepted dump version only moves forward, signals are never forgotten,  *)
(* and the derived relations are rebuilt for the newest version, once,     *)
(* after all of its types have signalled.                                  *)
(***************************************************************************)
EXTENDS Naturals

CONSTANTS Versions, Types

VARIABLES
    current,    \* the newest accepted version, 0 before the first
    signalled,  \* the types that have signalled each version
    done,       \* versions that owe no pass any more
    published   \* the version the derived relations were last rebuilt for

vars == <<current, signalled, done, published>>

Init ==
    /\ current = 0
    /\ signalled \in [Versions -> SUBSET Types]
    /\ done \in SUBSET Versions
    /\ published \in done \cup {0}

\* Signals are recorded and, possibly, a newer version becomes the current one.
Accept ==
    /\ current' \in {v \in Versions : v >= current} \cup {current}
    /\ signalled' \in [Versions -> SUBSET Types]
    /\ \A v \in Versions : signalled[v] \subseteq signalled'[v]
    /\ UNCHANGED <<done, published>>

\* The pass for the current version takes effect.
Publish ==
    /\ current \in Versions \ done
    /\ Types \subseteq signalled[current]
    /\ done' = done \cup {current}
    /\ published' = current
    /\ UNCHANGED <<current, signalled>>

Next == Accept \/ Publish

Spec == Init /\ [][Next]_vars

\* A version that is complete and stays the newest one is published.
FairSpec == Spec /\ WF_vars(Publish)
=============================================================================
