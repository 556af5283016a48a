SPECIFICATION FairSpec
CONSTANTS
  NoWorker = NoWorker
  w1 = w1
  w2 = w2
  Workers = {w1, w2}
  N = 2
  Deps <- Chain
  ReviewSteps = {}
  CaptureSteps = {1}
  CaptureWorkers = {w2}
  Materialized = {1}
  MaxAttempts = 1
  MaxCrashes = 0
  MaxLapses = 1
  MaxCalls = 1
  MaxEvents = 2
CHECK_DEADLOCK FALSE
PROPERTIES
  WorkRunsOut
  RunCatchesUp
