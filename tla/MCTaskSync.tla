------------------------------ MODULE MCTaskSync ------------------------------
(* Model values for model checking TaskSync.                               *)
EXTENDS TaskSync, TLC

CONSTANTS l1, l2

TwoLists == {l1, l2}

\* No action and no property tells one list from another.
SymLists == Permutations(TwoLists)
==============================================================================
