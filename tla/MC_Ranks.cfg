SPECIFICATION RanksSpec
CONSTANTS
  NRanks = 2
  Tasks = {1, 2}
  Arrivals <- LaterFirst
  Engines = {"batch", "sequential"}
  MaxConcurrent = 1
  Chunks <- OneChunk
  MaxTokens = 2
  CheckEvery = 1
  MaxCancels = 1
  WorldSize = 3
  MaxChunks = 3
  MaxDecoded = 1
  MaxServed = 2
  Layouts <- SomeLayouts
INVARIANTS
  Agreed
  PassesKeptApart
  InStep
PROPERTIES
  RanksEnd
CHECK_DEADLOCK FALSE
