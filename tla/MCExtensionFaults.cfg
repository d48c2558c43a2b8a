SPECIFICATION Safety
CONSTANTS
  Processors = {p1}
  Data = {d1}
  MaxQueueSize = 2
  Requests = {1, 2}
  Handlers = {h1, h2}
  MaxGet = 2
  NoRequest = 0
  MaxRedeliveries = 1
  Faults = {"signal", "collector", "start", "api", "telemetry"}
INVARIANTS NoExportWhileFrozen FinishedAfterDone ShutdownDrains StartReportsService PanicsOnlyTogether
PROPERTY IsLifecycle
SYMMETRY SystemSymmetry
CHECK_DEADLOCK FALSE
