SPECIFICATION Spec
CONSTANTS
  W = {1}
  N = 2
  Attempts = 2
  MaxEvents = 2
INVARIANT AcknowledgedCancelStops
CHECK_DEADLOCK FALSE
