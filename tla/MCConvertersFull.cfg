SPECIFICATION Spec
CONSTANTS
  Pipelines = {traces, metrics}
  MaxLength = 3
  Exporters = {otlp, awss3}
  QueueTypes = {otlp}
  Registered <- FullChain
INVARIANTS TypeOK OnlyWhatIsNeeded ConvertMakesProgress 
CHECK_DEADLOCK FALSE
