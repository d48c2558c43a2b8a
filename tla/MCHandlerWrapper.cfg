SPECIFICATION Spec
CONSTANTS
  MaxInvocations = 2
  MaxProcesses = 2
  MaxCalls = 2
  Results = {r1}
  Errors = {e1}
  LoadError = LoadError
  Nothing = Nothing
  Lost = Lost
INVARIANTS TypeOK FirstWordCounts SettledMeansDecided
PROPERTIES IsAnswerOnce HangsOnlyForCallback
CHECK_DEADLOCK FALSE
