SPECIFICATION FairSpec
CONSTANTS
  j1 = j1
  j2 = j2
  Jobs = {j1, j2}
  NoJob = NoJob
  Out = Out
  Clients = {c1, c2}
  QueueOf <- OneQueue
  Priority <- FirstUrgent
  Key <- SharedKey
  MaxAttempts <- OnceThenTwice
  Lease = 2
  MaxDelay = 0
  RetryBase = 1
  RetryMax = 1
  Batch = 1
  Scan = 1
  TTL = 1
  Horizon = 1
INVARIANTS
  NoJobLost
  ExclusiveLease
  OneJobPerKey
PROPERTIES
  KeepsContract
  JobsSettle
