SPECIFICATION Spec
CONSTANTS
  None = None
  i1 = i1
  i2 = i2
  q1 = q1
  q2 = q2
  r1 = r1
  v1 = v1
  Requests = {r1}
  StreamRequests = {r1}
  Instances = {i1, i2}
  MaxConcurrent = 1
  MaxQueued = 0
  Interactions = {v1}
  Responses = {q1, q2}
  AheRecords = {}
  MaxClaims = 4
  MaxEvents = 2
  Faults = {"crash", "cancel", "timeout", "error"}
INVARIANTS
  CountersAgree
PROPERTIES
  WaitingIsHeld
  LifecycleSpec
SYMMETRY Processes
CHECK_DEADLOCK FALSE
