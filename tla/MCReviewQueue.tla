---------------------------- MODULE MCReviewQueue ----------------------------
(* Model values for model checking ReviewQueue.                            *)
EXTENDS ReviewQueue, TLC

CONSTANTS t1, t2, w1, c1, c2, m1

OneTask  == {t1}
TwoTasks == {t1, t2}

NoActor     == {}
OneWorker   == {w1}
OneChat     == {c1}
TwoChats    == {c1, c2}
OneRequest  == {m1}

Symmetry == Permutations(Tasks) \cup Permutations(Chats)
==============================================================================
