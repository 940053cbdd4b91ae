SPECIFICATION Spec
CONSTANTS
  None = None
  a1 = a1
  i1 = i1
  i2 = i2
  q1 = q1
  r1 = r1
  v1 = v1
  Requests = {r1}
  StreamRequests = {r1}
  Instances = {i1, i2}
  MaxConcurrent = 1
  MaxQueued = 0
  Interactions = {}
  Responses = {q1}
  AheRecords = {a1}
  MaxClaims = 2
  MaxEvents = 2
  Faults = {"redis", "expiry", "cancel"}
INVARIANTS
  TypeOK
  IndexAgreement
  FencesOrdered
  AheEventOnce
  TerminalStreamHasDone
PROPERTIES
  TerminalIsFinal
  StaleTaskFenced
SYMMETRY Processes
CHECK_DEADLOCK FALSE
