SPECIFICATION Spec
CONSTANTS
  l1 = l1
  l2 = l2
  p1 = p1
  p2 = p2
  Lists <- TwoLists
  Procs <- TwoProcs
  Titles <- TwoTitles
  MaxOps = 2
  MaxUserOps = 1
  MaxFaults = 1
INVARIANTS TypeOK RollbacksAreSerial SecondDecisionOverlaps EveryChangeIsOnRecord SerialEditsKeepTheTask
PROPERTIES EditsKeepUserText
CHECK_DEADLOCK FALSE
SYMMETRY Symmetric
