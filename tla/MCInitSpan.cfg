SPECIFICATION Spec
CONSTANTS
  Handlers = {h1, h2}
  Threads = {h1, h2, o1}
  Signals = {"traces", "logs"}
  Unparsable = {3}
  Feed <- ThreeInits
  Calls <- OneCall
  Failures = 1
INVARIANTS TypeOK InitSpanKept LogsComplete
SYMMETRY HandlerSymmetry
CHECK_DEADLOCK FALSE
