SPECIFICATION FairSpec
CONSTANTS
  None = None
  r1 = r1
  k1 = k1
  k2 = k2
  Runs = {r1}
  Relays = {k1, k2}
  BatchSize = 1
  MaxEntries = 2
  MaxFailures = 1
  Slow = TRUE
INVARIANTS
  NoAuditLoss
  NothingStranded
PROPERTIES
  Drains
CHECK_DEADLOCK FALSE
