SPECIFICATION Spec
CONSTANTS
  r1 = r1
  r2 = r2
  p1 = p1
  q = q
  worker = worker
  api = api
  Routers = {r1, r2}
  Producers = {p1}
  Foreign = {q}
  Consumers = {worker, api}
  Home <- OneHome
  Traces <- SecondIsTrace
  Master = "master"
  Session = "session"
  StaleLocal <- OldLocal
  StaleGlobal <- OldGlobal
  Lossy = FALSE
  ReplayLimit = 1
  MaxEvents = 3
INVARIANTS
  TypeOK
  IndexedOnce
  ProducerOrder
  NothingForgotten
  ReplicasReadTheLog
  NoIndexConflict
PROPERTY
  ImplementsReplicatedLog
CHECK_DEADLOCK FALSE
