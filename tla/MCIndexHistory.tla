--------------------------- MODULE MCIndexHistory ---------------------------
(* Small instance of IndexHistory: two ids, two objects, three calls per id. *)
EXTENDS IndexHistory, TLC

CONSTANTS i1, i2, o1, o2

MCId == {i1, i2}
MCObject == {o1, o2}

Symmetry == Permutations(MCId) \cup Permutations(MCObject)
=============================================================================
