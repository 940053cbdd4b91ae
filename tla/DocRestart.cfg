SPECIFICATION Spec
CONSTANTS
  Designs <- MCDesigns
  Contexts <- MCContexts
  MaxAdded = 1
  TargetPins = 2
  MaxBatches = 3
  DirectPins <- MCDirectPins
  MergeRetries = 1
  RoundLimit = 4
  TotalLimit = 5
  MaxRepairs = 1
  MaxFaults = 1
PROPERTIES
  AcceptedStepKept
CHECK_DEADLOCK FALSE
