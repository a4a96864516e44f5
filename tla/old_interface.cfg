CONSTANTS
  Worlds <- OldWorlds
  NoValue = NoValue
  MaxRank = 3
SPECIFICATION FairSpec
INVARIANTS TypeOK Merged FieldsArrive BuffersAlive
PROPERTIES LoopsOrdered Ends
