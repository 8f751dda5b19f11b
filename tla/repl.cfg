CONSTANTS
  Replies <- MCReplies
  MaxTurns = 3
  MaxQueue = 1
SPECIFICATION Spec
\* The program quits.
CHECK_DEADLOCK FALSE
INVARIANTS
  NoRequestLost
  Alternates
  NextPromptReplays
PROPERTIES
  KeyEndsReply
