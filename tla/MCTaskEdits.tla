----------------------------- MODULE MCTaskEdits -----------------------------
(* Model values for model checking TaskEdits.                              *)
EXTENDS TaskEdits, TLC

CONSTANTS l1, l2, p1, p2

TwoLists  == {l1, l2}
TwoProcs  == {p1, p2}
TwoTitles == {1, 2}

\* Lists and processes are only compared.
Symmetric == Permutations(TwoLists) \cup Permutations(TwoProcs)
==============================================================================
