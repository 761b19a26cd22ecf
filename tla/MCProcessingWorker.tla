------------------------- MODULE MCProcessingWorker --------------------------
(* Model values and symmetry for model checking ProcessingWorker.          *)
EXTENDS ProcessingWorkerRefinement, TLC

CONSTANTS t1, t2, w1, w2, s1

OneTask    == {t1}
TwoTasks   == {t1, t2}
OneWorker  == {w1}
TwoWorkers == {w1, w2}

\* Every record has a source task of its own, or all stand for one.
OwnSource == [t \in Tasks |-> t]
OneSource == [t \in Tasks |-> s1]

NoAdmin  == {}
RowAdmin == {"reprocess", "import"}
RecordAdmin == {"retry", "reclassify"}

Symmetry == Permutations(Tasks) \cup Permutations(Workers)
==============================================================================
