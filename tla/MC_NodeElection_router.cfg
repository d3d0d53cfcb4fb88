SPECIFICATION Spec
CONSTANTS
  Nodes = {1, 2}
  Noticing = {1, 2}
  InitSeniority <- NobodyForced
  Timely = TRUE
  MaxFlaps = 0
  MaxCommands = 0
  MaxCrashes = 0
INVARIANTS
  RoutersFollow
CHECK_DEADLOCK FALSE
