SPECIFICATION Spec
CONSTANTS
  t1 = t1
  t2 = t2
  w1 = w1
  w2 = w2
  s1 = s1
  NoRow = NoRow
  Tasks <- TwoTasks
  Source <- OneSource
  Workers <- TwoWorkers
  MaxStamp = 2
  MaxRetries = 1
  BufferSize = 1
  AdminActions <- RowAdmin
  MaxCrashes = 1
  MaxRateLimits = 0
  MaxSkips = 1
  MaxOverruns = 1
CHECK_DEADLOCK FALSE
SYMMETRY Symmetry
INVARIANTS TypeOK SupersededBySurvivor
