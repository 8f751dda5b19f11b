CONSTANTS
  WarmupSpec = 8
  WarmupPlain = 2
  ForcePlainEvery = 32
  WarmupForcePlainEvery = 4
  ProbePair = 2
  BackoffStart = 32
  BackoffCap = 256
  MaxCommit = 16
SPECIFICATION PauseSpec
INVARIANTS
  PlainStaysFresh
  WarmsUpEarly
  ForcedOnlyWhenStale
  ProbesOnTime
PROPERTIES
  BackoffDiscipline
  KeepsTrying
