------------------------- MODULE MCDurableRefresh -------------------------
(* Small instances of DurableRefresh and of its health report for TLC. *)
EXTENDS DurableRefreshInv, RefreshHealth, TLC

TypesAndWorkers == Permutations(Types) \cup Permutations(Workers)
=============================================================================
