SPECIFICATION ProcessSpec
CONSTANTS
  Processors = {p1}
  Data = {}
  MaxQueueSize = 1
  Requests = {1, 2}
  Handlers = {h1}
  MaxGet = 2
  NoRequest = 0
  MaxRedeliveries = 0
  Faults = {"signal"}
PROPERTY CancelEndsRun
CHECK_DEADLOCK FALSE
