SPECIFICATION Spec
CONSTANTS
  W = {1, 2}
  N = 2
  Attempts = 2
  MaxEvents = 2
INVARIANT ReplayedDispatchAttaches
CHECK_DEADLOCK FALSE
