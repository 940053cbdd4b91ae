SPECIFICATION Spec
CONSTANTS
  Keys = {"k1", "k2"}
  Patches <- MCPatches
  Envs <- MCEnvs
  Base <- MCBase
  Low <- MCLow
  Denied = {"tests"}
  Sealed = {"tests"}
  Reserved = {"aux"}
  Immutable = {"truth"}
  MaxChangedFiles = 1
  MaxAddedLines = 1
  MaxAttempts = 2
  MaxFaults = 3
INVARIANTS
  CandidateFollowsTrial
  OneProof
PROPERTIES
  PassedIsClean
CHECK_DEADLOCK FALSE
