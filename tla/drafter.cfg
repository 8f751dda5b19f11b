CONSTANTS
  Tokens = {a, b}
  NoToken = NoToken
  ModelLayers = 3
  ModelEmbd = 64
  DraftLayers = 2
  MaxCtx = 5
  PrefillChunk = 2
  DraftMax = 2
  Files <- MCFiles
  Calls = 2
  Unwritten = Unwritten
SPECIFICATION Spec
CHECK_DEADLOCK FALSE
INVARIANTS
  FusedFromItsForward
  DraftsSeeTheirContext
