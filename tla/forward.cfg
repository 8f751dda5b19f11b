CONSTANTS
  Config <- MCConfig
  Cases <- MCCases
SPECIFICATION Spec
INVARIANTS
  SeesItsWindow
  WritesOnce
  SwitchesInvisible
  FailsOnlyForCause
  RecordTrue
CHECK_DEADLOCK FALSE
