SPECIFICATION Spec
CONSTANTS
  None = None
  i1 = i1
  i2 = i2
  q1 = q1
  r1 = r1
  Requests = {r1}
  StreamRequests = {r1}
  Instances = {i1, i2}
  MaxConcurrent = 1
  MaxQueued = 0
  Interactions = {}
  Responses = {q1}
  AheRecords = {}
  MaxClaims = 2
  MaxEvents = 1
  Faults = {"error", "crash"}
INVARIANTS
  FailureIsOfThisExecution
CHECK_DEADLOCK FALSE
