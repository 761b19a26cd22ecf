SPECIFICATION FairSpec
CONSTANTS
  t1 = t1
  t2 = t2
  w1 = w1
  c1 = c1
  c2 = c2
  m1 = m1
  NoSession = NoSession
  Tasks <- OneTask
  Workers <- OneWorker
  Chats <- OneChat
  Apps <- OneRequest
  MaxSessions = 2
  MaxSendFailures = 1
  MaxPauses = 1
  MaxCrashes = 1
PROPERTY EveryProposalReviewed
