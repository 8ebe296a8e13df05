--------------------------- MODULE MCRecordWrites ---------------------------
(* Small instances of RecordWrites. *)
EXTENDS RecordWritesInv, TLC

DocsAndWriters == Permutations(Docs) \cup Permutations(Writers)
=============================================================================
