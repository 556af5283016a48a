SPECIFICATION FairBuildSpec
CONSTANTS
  w1 = w1
  w2 = w2
  c1 = c1
  c2 = c2
  a1 = a1
  a2 = a2
  NoWorker = NoWorker
  NoCall = NoCall
  Workers = {w1, w2}
  Calls = {c1, c2}
  Assets = {a1, a2}
  Found <- MCFound
  Budget = 1
  MaxEvents = 2
CHECK_DEADLOCK FALSE
INVARIANTS DeliveredUntilEnded CompletedAfterAnalysis FollowsWhatItAcquired
PROPERTIES BuildEnds
