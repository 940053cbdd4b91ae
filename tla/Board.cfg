SPECIFICATION Spec
CONSTANTS
  Open = 1
  Errs = {"drill"}
  Leaves <- MCLeaves
  Requirements <- MCRequirements
  Planned = {2}
  Silks = {TRUE}
  RouteBudget = 2
  Seeds = 1
  MaxCandidates = 1
  MaxRepairs = 2
  MaxLayouts = 2
  MaxFaults = 1
INVARIANTS
  FilesAgree
  ReleasedBoard
PROPERTIES
  RepairsMonotone
CHECK_DEADLOCK FALSE
