SPECIFICATION PrefixCacheSpec
CONSTANTS
  Prompts <- SomePrompts
  ImageTokens = {}
  StepSize = 2
  MinHit = 2
  RemoteMin = 4
  MaxRequests = 2
INVARIANT
  StatePutBack
CHECK_DEADLOCK FALSE
