SPECIFICATION Spec
CONSTANTS
  Nodes = {1, 2, 3}
  Noticing = {1}
  InitSeniority <- NobodyForced
  Timely = TRUE
  MaxFlaps = 0
  MaxCommands = 1
  MaxCrashes = 1
CONSTRAINT
  OneUpset
INVARIANTS
  TypeOK
  OneMaster
  NobodyStaysPaused
CHECK_DEADLOCK FALSE
