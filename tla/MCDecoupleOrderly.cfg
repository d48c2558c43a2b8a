SPECIFICATION Spec
CONSTANTS
  Processors = {p1}
  Data = {d1, d2, d3}
  MaxQueueSize = 1
  EarlyStop = FALSE
INVARIANTS TypeOK WaitNotReused
PROPERTIES IsGate StopsReturn
CHECK_DEADLOCK FALSE
