SPECIFICATION Spec
CONSTANTS
  N = 4
  Prints <- MCPrints
  Checked = {4}
  Troubles = {{"design"}}
  Details = {0}
  Blocking = {"infra"}
  LlmSteps = {3}
  CustomRepair = {4}
  Deterministic = {4}
  AllowDesign = {}
  Incremental = {2}
  Progress = {3}
  Owner <- MCOwner
  Merges <- MCMerges
  Swaps <- MCNone
  Substitutes <- MCNone
  RepairRelease = TRUE
  Agentic = TRUE
  Learned = FALSE
  Retries = 1
  Stagnation = 1
  DesignStagnation = 1
  MaxRepairs = 1
  MaxSame = 1
  MaxDesignStep = 1
  MaxDesignTotal = 1
  MaxReplan = 1
  MaxTurnsStep = 1
  MaxTurnsTotal = 1
  Tokens = {1}
  Reopened = {2, 4}
  MaxStarts = 2
  MaxFaults = 1
  Untils = {3, 4}
  Modes = {"legacy", "stepwise"}
INVARIANTS
  SavedState
  CheckedOnWhatIsSaved
  NeverRefused
  BudgetsKept
CHECK_DEADLOCK FALSE
