SPECIFICATION FairSpec
CONSTANTS
  t1 = t1
  t2 = t2
  w1 = w1
  w2 = w2
  s1 = s1
  NoRow = NoRow
  Tasks <- TwoTasks
  Source <- OwnSource
  Workers <- OneWorker
  MaxStamp = 1
  MaxRetries = 1
  BufferSize = 1
  AdminActions <- NoAdmin
  MaxCrashes = 0
  MaxRateLimits = 0
  MaxSkips = 1
  MaxOverruns = 0
CHECK_DEADLOCK FALSE
PROPERTY
BufferRefills
