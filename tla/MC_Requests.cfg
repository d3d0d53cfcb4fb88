SPECIFICATION FairRequests
CONSTANTS
  Commands = {c1}
  Instances = {i1}
  Kind <- TextOnly
  LastChunk = 2
  MaxFaults = 1
INVARIANTS
  OneGeneration
PROPERTIES
  StreamEnds
CHECK_DEADLOCK FALSE
