SPECIFICATION ServingSpec
CONSTANTS
  Shards = {s1}
  MaxLive = 2
  MaxUpsets = 1
  RepoFiles = {f1, f2}
  SizeOf <- FileSizes
  ShardCalls = {1, 2}
  MaxAttempts = 1
  Troubles = {"drop", "commit"}
  WorldSize = 1
  Reported = {}
  SlowStarts = FALSE
  MaxRetries = 1
  MaxCrashes = 1
  Deletable = TRUE
  Uploads = {"u1", "u2"}
  Workloads <- SharedImages
  PartsOf <- ImageParts
  MaxSessions = 2
  MaxLost = 1
  MaxMessages = 3
  ThinkTags <- SomeTags
  MaxParts = 5
  Prompts <- SomePrompts
  ImageTokens = {"i1", "i2"}
  StepSize = 2
  MinHit = 2
  RemoteMin = 4
  MaxRequests = 3
  TokenTexts <- TagTokens
  MaxGenerated = 4
  Types = {"object", "array", "integer", "number", "boolean", "string", "null"}
  InnerTypes = {"integer", "object", "string"}
  MaxFed = 5
  MaxCalls = 2
  NumImages = 2
  NumPartials = 2
  NumChunks = 2
  PayloadSizes <- Payloads
  CacheSize = 2
  MaxArchives = 1
  MaxLogs = 2
  MaxReads = 2
ACTION_CONSTRAINT FirstOnes
INVARIANTS
  BooksAreTrue
  WholeFiles
  CompletionsExpected
  RightImages
  RepliesWhole
  PromptIsConversation
  ReuseIsExact
  SaidIsTold
  LogReadExactly
PROPERTIES
  Obtained
  FilesArrive
  StopsWithInstance
  ImagesArrive
CHECK_DEADLOCK FALSE
