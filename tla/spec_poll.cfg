CONSTANTS
  a = a
  close = close
  Tokens = {a, close, eog}
  Bytes <- MCBytes
  Eog = {eog}
  ThinkClose = close
  Prompts <- MCPrompts
  Budgets = {4}
  MaxNew = 4
  MaxCtx = 7
  PrefillChunk = 2
  Floors = {0}
  DraftMax = 2
  DraftMin = 0
  BlockSize = 3
  Noise = Noise
  Unwritten = Unwritten
SPECIFICATION Spec
INVARIANTS
  PolledPerToken
