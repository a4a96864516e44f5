SPECIFICATION FairSpec
CONSTANTS
  Ranks = {0, 1, 2}
  Worlds <- Usual
  NoValue = NoValue
INVARIANTS TypeOK TypeKnown SameCollectives Associated
PROPERTY SetupEnds
CHECK_DEADLOCK FALSE
