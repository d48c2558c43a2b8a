SPECIFICATION Spec
CONSTANTS
  Pipelines = {traces, metrics}
  MaxLength = 2
  Exporters = {otlp, awss3}
  QueueTypes = {otlp}
  Registered <- DecoupleChain
INVARIANT EveryBatchDecoupled
CHECK_DEADLOCK FALSE
