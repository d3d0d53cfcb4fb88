SPECIFICATION FairSpec
CONSTANTS
  r1 = r1
  r2 = r2
  p1 = p1
  q = q
  worker = worker
  api = api
  Routers = {r1}
  Producers = {p1}
  Foreign = {q}
  Consumers = {worker}
  Home <- OneHome
  Traces <- NoTraces
  Master = "master"
  Session = "session"
  StaleLocal <- NoMessages
  StaleGlobal <- NoMessages
  Lossy = TRUE
  ReplayLimit = 1
  MaxEvents = 2
PROPERTIES
  EventuallyIndexed
  EventuallyApplied
CHECK_DEADLOCK FALSE
