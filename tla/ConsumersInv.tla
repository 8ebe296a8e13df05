---------------------------- MODULE ConsumersInv ----------------------------
(***************************************************************************)
(* The inductive invariant of Consumers, in named parts.                   *)
(***************************************************************************)
EXTENDS Consumers

\* A handler pauses only behind a closed gate, so that neither the checker nor the recovery
\* loop takes its message back while it holds the lock.
PausesCloseTheGate == lock \in Types => gateClosed

\* Every tag, whatever became of its subscription, is one of the current transport: what the
\* client library heals by itself is never on a transport the process has forgotten.
TagsHaveATransport ==
    \A t \in Types : sub[t] # "none" \/ t \in orphan => transport # "none"

ConsumersInv ==
    /\ TypeOK
    /\ PausesCloseTheGate
    /\ TagsHaveATransport
    /\ UnsettledTerminalHasReset
    /\ OpenGateOwesNoConsumer

\* Before the first durable pause the recovery loop rests, so that the checker is the only task
\* that starts a consumer, and it starts none that is there already.
OneStarter ==
    /\ orphan = {}
    /\ ~gateClosed /\ ~resetPending /\ resumeTypes = {} /\ lock = "free"
    /\ task["durable"] = IdleTask
    /\ task["checker"].cur \in Types => sub[task["checker"].cur] = "none"

\* The schema was there at the start and no durable commit has failed yet.
BeforeAnyPause == pauses = 0 => OneStarter

-----------------------------------------------------------------------------
(* The first extraction, before anything fails                             *)

Published(t, k) == msg[t][k] # "unpublished"

\* The extractor's order, which the queue keeps: a marker is in its handler only when nothing of
\* its type is queued, and a type is signalled only when all of it has been published.
MessagesInOrder ==
    \A t \in Types :
        /\ Published(t, "file_complete") => Published(t, "record")
        /\ Published(t, "extraction_complete") => Published(t, "file_complete")
        /\ t \in signalled => Published(t, "extraction_complete")
        /\ msg[t]["extraction_complete"] \in {"running", "marked"} =>
              msg[t]["record"] # "ready" /\ msg[t]["file_complete"] # "ready"

\* A grace timer runs for a live consumer of a finished file, and when it cancels the consumer of a
\* signalled type nothing of that type is queued.
TimersFollowMarkers ==
    \A t \in Types :
        /\ sub[t] \in {"none", "live"}
        /\ timer[t] \in {"armed", "cancelling"} => t \in completed /\ sub[t] = "live"
        /\ timer[t] = "cancelling" /\ t \in signalled => ~Ready(t)

\* A type without a consumer is waiting for a full recovery, is on a closed transport, or has
\* finished its file and, once signalled, has nothing queued.
Covered(t) ==
    \/ sub[t] = "live"
    \/ task["checker"].pc \in {"close", "connect"}
    \/ task["checker"].pc = "recover" /\ t \in task["checker"].todo
    \/ Tags = {} /\ transport = "none"
    \/ t \in completed /\ (t \in signalled => ~Ready(t))

FirstLoad ==
    /\ MessagesInOrder
    /\ TimersFollowMarkers
    /\ transport # "undeclared"
    /\ \A t \in Types : Covered(t)

\* Nothing has failed yet.
BeforeAnyFault == round = 1 /\ faults = 0 /\ pauses = 0 => FirstLoad
=============================================================================
