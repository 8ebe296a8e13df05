----------------------------- MODULE MCConsumers -----------------------------
(* Small instances of Consumers for TLC; the data types are interchangeable. *)
EXTENDS ConsumersInv, TLC

TypeSymmetry == Permutations(Types)
=============================================================================
