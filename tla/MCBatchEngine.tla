---------------------------- MODULE MCBatchEngine ----------------------------
(* Small instances of BatchEngine. *)
EXTENDS BatchEngineInv

Case(K, f, l, r, time) ==
    {[kinds |-> k, budget |-> [faults |-> f, losses |-> l, restarts |-> r, time |-> time]] : k \in K}

Two == {<<"good", "good">>, <<"poison", "good">>}
Three == {<<"good", "poison", "good">>, <<"poison", "good", "poison">>, <<"malformed", "good", "good">>}
Four == {<<"good", "good", "good", "good">>}

MCCases == Case(Two, 1, 1, 0, TRUE) \cup Case(Two, 1, 0, 1, TRUE)
           \cup Case(Three, 1, 1, 0, FALSE) \cup Case(Three, 1, 0, 1, FALSE)
           \cup Case(Four, 1, 0, 1, FALSE) \cup Case(Two, 2, 0, 1, FALSE)
=============================================================================
