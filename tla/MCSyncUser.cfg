SPECIFICATION FairSpec
CONSTANTS
  l1 = l1
  l2 = l2
  Lists <- TwoLists
  MaxTasks = 2
  MaxIds = 4
  MaxForms = 2
  Threshold = 2
  MaxFaults = 1
  MaxUpsets = 3
  MaxRuns = 0
  Requests = {"edit"}
  ConfirmMoves = TRUE
PROPERTIES DeletedNeedsConsecutiveMisses RecordsCatchUp
