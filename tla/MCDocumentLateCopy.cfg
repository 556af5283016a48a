SPECIFICATION Spec
CONSTANTS
  w1 = w1
  w2 = w2
  q1 = q1
  q2 = q2
  r1 = r1
  p1 = p1
  p2 = p2
  NoWorker = NoWorker
  NoRequest = NoRequest
  NoRun = NoRun
  Workers = {w1, w2}
  Requests = {q1, q2}
  Runs = {r1}
  Publishers = {p1, p2}
  MaxAttempts = 2
  MaxEvents = 0
CHECK_DEADLOCK FALSE
INVARIANTS ErasedForGood
