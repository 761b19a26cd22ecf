SPECIFICATION Spec
CONSTANTS
  l1 = l1
  l2 = l2
  p1 = p1
  p2 = p2
  Lists <- TwoLists
  Procs <- TwoProcs
  Titles <- TwoTitles
  MaxOps = 2
  MaxUserOps = 0
  MaxFaults = 0
PROPERTY RollbackRestoresList
CHECK_DEADLOCK FALSE
