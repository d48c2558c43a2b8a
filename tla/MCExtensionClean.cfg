SPECIFICATION Spec
CONSTANTS
  Processors = {p1, p2}
  Data = {d1, d2}
  MaxQueueSize = 2
  Requests = {1, 2}
  Handlers = {h1}
  MaxGet = 2
  NoRequest = 0
  MaxRedeliveries = 0
  Faults = {}
INVARIANTS TypeOK FlushedBeforeFreeze NothingLostAtShutdown ComesUp
PROPERTIES IsLifecycle InvocationReleased ShutdownEnds
CHECK_DEADLOCK FALSE
