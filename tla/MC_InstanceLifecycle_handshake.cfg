SPECIFICATION Spec
CONSTANTS
  WorldSize = 3
  Reported = {0, 1}
  SlowStarts = FALSE
  MaxRetries = 1
  MaxCrashes = 0
  Deletable = FALSE
CONSTRAINT KeepsUp
INVARIANT RestsServing
CHECK_DEADLOCK FALSE
