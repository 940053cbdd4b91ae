SPECIFICATION Spec
CONSTANTS
  W = {1, 2}
  N = 2
  Attempts = 2
  MaxEvents = 2
INVARIANTS
  CancelWins
  CompletedIsWhole
  Accounted
CHECK_DEADLOCK FALSE
