SPECIFICATION Spec
CONSTANTS
  t1 = t1
  t2 = t2
  w1 = w1
  c1 = c1
  c2 = c2
  m1 = m1
  NoSession = NoSession
  Tasks <- TwoTasks
  Workers <- OneWorker
  Chats <- OneChat
  Apps <- OneRequest
  MaxSessions = 3
  MaxSendFailures = 1
  MaxPauses = 0
  MaxCrashes = 1
SYMMETRY Symmetry
INVARIANTS TypeOK ActiveBound NoProposalLost
PROPERTY ShowsOnlyUndecided
