--------------------------- MODULE MCPurgeSafety ---------------------------
(* Small instances of PurgeSafety. *)
EXTENDS PurgeSafetyInv, TLC

MCDumps == 1..2
MCOneDump == 1..1
OneDump(faultBound, kinds) == [dumps |-> 1, handlers |-> 2, faults |-> faultBound, outage |-> kinds]
TwoDumps == [dumps |-> 2, handlers |-> 1, faults |-> 1, outage |-> {"hold"}]

\* One dump and two handlers, under two faults of every kind or three with restarts; two dumps under
\* one fault.
MCSafetyLimits == {OneDump(2, OutageKinds), OneDump(3, {"restart", "nolatch"}), TwoDumps}
\* One dump under two faults with a latch, or under one fault of any kind.
MCLivenessLimits == {OneDump(2, {"hold", "restart", "unnoted"}), OneDump(1, OutageKinds)}
RecordsAndHandlers == Permutations(Records) \cup Permutations(Handlers)
=============================================================================
