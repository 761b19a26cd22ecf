SPECIFICATION Spec
CONSTANTS
  l1 = l1
  l2 = l2
  Lists <- TwoLists
  MaxTasks = 2
  MaxIds = 4
  MaxForms = 1
  Threshold = 2
  MaxFaults = 1
  MaxUpsets = 1
  MaxRuns = 2
  Requests = {"edit", "rewrite", "rollback", "import"}
  ConfirmMoves = TRUE
INVARIANTS TypeOK
PROPERTIES ProposedTasksCarryTheirId OnlyDuplicatesBlockSync
SYMMETRY SymLists
