SPECIFICATION Spec
CONSTANTS
  NoWorker = NoWorker
  Workers = {w1, w2}
  N = 2
  ClipCost = 1
  RunBudget = 2
  Costs = {0, 1, 2}
SYMMETRY WorkerSymmetry
INVARIANTS
  AtMostOnePaidTask
  PaidTaskNeverForgotten
  BooksMatchProvider
PROPERTIES
  ImplementsContract
