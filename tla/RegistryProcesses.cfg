SPECIFICATION FairSpec
CONSTANTS
  None = None
  a1 = a1
  i1 = i1
  i2 = i2
  q1 = q1
  r1 = r1
  r2 = r2
  Requests = {r1, r2}
  StreamRequests = {r1}
  Instances = {i1, i2}
  MaxConcurrent = 1
  MaxQueued = 1
  Interactions = {}
  Responses = {q1}
  AheRecords = {a1}
  MaxClaims = 2
  MaxEvents = 1
  Faults = {"crash", "shutdown", "error"}
INVARIANTS
  RunningWithinLimit
PROPERTIES
  Settles
CHECK_DEADLOCK FALSE
