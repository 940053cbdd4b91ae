SPECIFICATION Spec
CONSTANTS
  MaxRequests = 2
  MaxBoards = 2
  MaxAnswers = 2
  MaxCrashes = 1
  Asks <- OpenHoles
  Research <- TwoFindings
  Catalog <- Hits
  Errors = {0}
  Boards <- TwoBoards
  Intents = {"build", "review", "research", "parts", "diagnose", "clarify"}
  Limit = 2
INVARIANT ReleasedAsReviewed
CHECK_DEADLOCK FALSE
