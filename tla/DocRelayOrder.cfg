SPECIFICATION Spec
CONSTANTS
  None = None
  r1 = r1
  k1 = k1
  Runs = {r1}
  Relays = {k1}
  BatchSize = 2
  MaxEntries = 2
  MaxFailures = 1
  Slow = FALSE
INVARIANTS
  RunOrderKept
CHECK_DEADLOCK FALSE
