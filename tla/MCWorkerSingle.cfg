SPECIFICATION Spec
CONSTANTS
  t1 = t1
  t2 = t2
  w1 = w1
  w2 = w2
  s1 = s1
  NoRow = NoRow
  Tasks <- TwoTasks
  Source <- OwnSource
  Workers <- OneWorker
  MaxStamp = 2
  MaxRetries = 2
  BufferSize = 1
  AdminActions <- NoAdmin
  MaxCrashes = 1
  MaxRateLimits = 0
  MaxSkips = 0
  MaxOverruns = 0
CHECK_DEADLOCK FALSE
SYMMETRY Symmetry
INVARIANTS FailedIffExhausted NoTaskStranded BufferBound
PROPERTIES DeadRowsStayDead ImplementsLifecycle
