----------------------------- MODULE MCGraphRows -----------------------------
(* Small instances of GraphRows: row 1 is a person, 2 a member_of edge that  *)
(* an older version of artist 1 asserted, 3 and 4 are same_as edges of the   *)
(* releases 2 and 3.                                                         *)
EXTENDS GraphRowsInv, TLC

MCAdditive == <<[docs |-> {1}, rows |-> {2}], [docs |-> {2, 3}, rows |-> {3, 4}]>>
MCContents == <<{{}}, {{1, 3}}, {{4}, {1, 3, 4}}>>
WriterSymmetry == Permutations(Writers)
=============================================================================
