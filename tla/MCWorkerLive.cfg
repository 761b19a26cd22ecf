SPECIFICATION FairSpec
CONSTANTS
  t1 = t1
  t2 = t2
  w1 = w1
  w2 = w2
  s1 = s1
  NoRow = NoRow
  Tasks <- OneTask
  Source <- OwnSource
  Workers <- OneWorker
  MaxStamp = 3
  MaxRetries = 2
  BufferSize = 1
  AdminActions <- RecordAdmin
  MaxCrashes = 1
  MaxRateLimits = 1
  MaxSkips = 0
  MaxOverruns = 0
CHECK_DEADLOCK FALSE
PROPERTY EveryRowSettles
