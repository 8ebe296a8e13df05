---------------------------- MODULE MCInlineLatch ----------------------------
(* Small instances of InlineLatch; types and handlers are interchangeable. *)
EXTENDS InlineLatchInv, TLC

MCDumps == 1..2
HandlerSymmetry == Permutations(Handlers)
=============================================================================
