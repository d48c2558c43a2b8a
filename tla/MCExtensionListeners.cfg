SPECIFICATION Safety
CONSTANTS
  Processors = {p1, p2}
  Data = {d1}
  MaxQueueSize = 1
  Requests = {1}
  Handlers = {h1}
  MaxGet = 2
  NoRequest = 0
  MaxRedeliveries = 0
  Faults = {"signal"}
INVARIANT ComponentsOutliveListeners
CHECK_DEADLOCK FALSE
