CONSTANTS
  a = a
  close = close
  Tokens = {a, close, eog}
  Bytes <- MCBytes
  Eog = {eog}
  ThinkClose = close
  Prompts <- MCPrompts
  Budgets = {0, 3, 4}
  MaxNew = 4
  MaxCtx = 6
  PrefillChunk = 2
  Floors = {0, 2}
  DraftMax = 3
  DraftMin = 2
  BlockSize = 3
  Noise = Noise
  Unwritten = Unwritten
SPECIFICATION Spec
INVARIANTS
  BudgetSuffices
  CachesAtBoundary
  OneDrawPerToken
  ExitState
  StopsWithinRound
PROPERTIES
  ImplementsStream
  Terminates
