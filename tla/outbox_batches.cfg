SPECIFICATION FairSpec
CONSTANTS
  w1 = w1
  w2 = w2
  ann = ann
  bob = bob
  Workers = {w1, w2}
  Entities = {ann}
  BatchLimit = 2
  MaxAttempts = 2
  SlowBudget = 2
  MaxVersions = 3
  MaxTransactions = 3
  MaxAborts = 1
INVARIANT TypeOK
INVARIANT BatchIsCurrent
INVARIANT PublishedWasSent
PROPERTY SettledUnlessExpiring
CHECK_DEADLOCK FALSE
