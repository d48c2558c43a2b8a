SPECIFICATION Spec
CONSTANTS
  Processors = {p1}
  Data = {d1, d2, d3, d4}
  MaxQueueSize = 2
  EarlyStop = TRUE
INVARIANTS WaitNotReused AtMostOneForwarder NothingInFlightAtRest OneStopLeftOver FlushedAtRest
PROPERTY StopsReturnUnlessStranded
CHECK_DEADLOCK FALSE
