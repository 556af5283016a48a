SPECIFICATION Spec
CONSTANTS
  NoWorker = NoWorker
  Workers = {w1, w2}
  N = 2
  Deps <- Chain
  ReviewSteps = {1}
  CaptureSteps = {}
  CaptureWorkers = {}
  Materialized = {1, 2}
  MaxAttempts = 2
  MaxCrashes = 1
  MaxLapses = 1
  MaxCalls = 1
  MaxEvents = 2
SYMMETRY WorkerSymmetry
CONSTRAINT FewAttempts
CHECK_DEADLOCK FALSE
INVARIANTS
  OutcomeIsInHand
  WaitingCanStart
  TerminalRunIsTrue
PROPERTIES
  ImplementsLifecycle
  ResultFromLeaseHolder
