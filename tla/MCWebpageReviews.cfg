CONSTANTS
  c1 = c1
  c2 = c2
  x = x
  y = y
  None = None
  Clients = {c1, c2}
  Choices = {x, y}
  MaxAttempts <- Tries
  MaxEvents = 2
SPECIFICATION Spec
SYMMETRY Same
CHECK_DEADLOCK FALSE
INVARIANTS
  WorkedFromApproved
PROPERTIES
  AnswersAreTrue
