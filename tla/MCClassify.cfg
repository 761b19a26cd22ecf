SPECIFICATION FairSpec
CONSTANTS
  openai = openai
  ollama = ollama
  w = w
  c1 = c1
  r1 = r1
  r2 = r2
  m1 = m1
  m2 = m2
  Capacity = 2
  Interval = 2
  Amount = 1
  Limited <- Cloud
  Local <- AtHome
  Rows <- OneRow
  Requests <- OneCaller
  Worker = w
  Projects <- TwoProjects
  Personal = 1
  Models <- TwoModels
  EnvConfig <- Environment
  Settings <- Stored
  MaxRequests = 2
  MaxSaves = 2
INVARIANTS TypeOK RateKept WaitEarnsAToken ConfidenceIsEarned
PROPERTIES EveryAttemptEnds ServedWhenLocal
