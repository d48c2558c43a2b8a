SPECIFICATION Spec
CONSTANTS
  Handlers = {h1}
  Threads = {h1, o1, o2}
  Signals = {"traces"}
  Unparsable = {}
  Feed <- OneInit
  Calls <- MarkedCalls
  Failures = 1
INVARIANTS FunctionSpansPass MarkedSpansPass LinkedOnce NeverHoldsBoth InitSpanJoins
SYMMETRY ServerSymmetry
CHECK_DEADLOCK FALSE
