SPECIFICATION Spec
CONSTANTS
  Ranks = {0, 1}
  Worlds <- Again
  NoValue = NoValue
INVARIANT Associated
CHECK_DEADLOCK FALSE
