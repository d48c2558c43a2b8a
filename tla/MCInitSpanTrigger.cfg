SPECIFICATION Spec
CONSTANTS
  Handlers = {h1}
  Threads = {h1, o1}
  Signals = {"traces", "logs"}
  Unparsable = {}
  Feed <- OneInit
  Calls <- TwoCalls
  Failures = 0
INVARIANT InitSpanJoinsTrigger
CHECK_DEADLOCK FALSE
