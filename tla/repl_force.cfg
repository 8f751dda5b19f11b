CONSTANTS
  Replies <- MCReplies
  MaxTurns = 3
  MaxQueue = 2
SPECIFICATION Spec
\* The program quits.
CHECK_DEADLOCK FALSE
INVARIANTS
  ForcedOnlyIfWedged
