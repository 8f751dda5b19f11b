CONSTANTS
  a = a
  close = close
  lead = lead
  tail = tail
  both = both
  none = none
  Tokens = {a, close, eog, lead, tail, both, none}
  Bytes <- MCBytes
  Eog = {eog}
  ThinkClose = close
  Prompts <- MCPrompts
  Budgets = {0, 2, 3, 4}
  MaxNew = 4
  MaxCtx = 5
  PrefillChunk = 2
  Floors = {0, 2}
SPECIFICATION Spec
INVARIANTS
  BudgetSuffices
  ExitState
  PolledPerToken
PROPERTIES
  ImplementsStream
  TextIsReply
  Terminates
