SPECIFICATION FairSpec
CONSTANTS
  Nodes = {1, 2}
  Noticing = {1}
  InitSeniority <- NobodyForced
  Timely = FALSE
  MaxFlaps = 1
  MaxCommands = 0
  MaxCrashes = 1
PROPERTIES
  EventuallySettled
CHECK_DEADLOCK FALSE
