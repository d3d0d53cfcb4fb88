SPECIFICATION FairSpec
CONSTANTS
  WorldSize = 2
  Reported = {0, 1}
  SlowStarts = TRUE
  MaxRetries = 2
  MaxCrashes = 1
  Deletable = TRUE
ACTION_CONSTRAINTS
  DeletedInService
  ReadsFirst
INVARIANT InsideStateMachine
PROPERTIES
  Converges
  NobodyLeftBehind
CHECK_DEADLOCK FALSE
