SPECIFICATION Spec
CONSTANTS
  NoWorker = NoWorker
  Workers = {w1, w2}
  a1 = a1
  a2 = a2
  j1 = j1
  j2 = j2
  Assets = {a1}
  Jobs = {j1, j2}
  AssetOf <- OneAsset
  Parked = {j1}
  MaxAttempts = 1
  Deliveries = 2
  AutoReady = TRUE
  Limit <- OneOfEach
  MaxEvents = 2
SYMMETRY WorkerSymmetry
CHECK_DEADLOCK FALSE
INVARIANTS
  NothingIsForgotten
  ReadyWasScanned
  VerdictsAgree
PROPERTIES
  PublishedByHolder
