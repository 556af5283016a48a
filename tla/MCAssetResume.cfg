SPECIFICATION FairSpec
CONSTANTS
  NoWorker = NoWorker
  Workers = {w1}
  a1 = a1
  a2 = a2
  j1 = j1
  j2 = j2
  Assets = {a1, a2}
  Jobs = {j1, j2}
  AssetOf <- OwnAsset
  Parked = {j1, j2}
  MaxAttempts = 2
  Deliveries = 3
  AutoReady = TRUE
  Limit <- OneCrash
  MaxEvents = 1
CHECK_DEADLOCK FALSE
PROPERTIES
  JobsSettle
  StepWoken
