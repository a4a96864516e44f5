SPECIFICATION Spec
CONSTANTS
  Kinds = {"int", "str"}
  Characters <- Letters
  Names <- SomeNames
  Values <- SomeValues
  Junk = Junk
  None = None
  MaxParam = 3
  StrSize = 3
  NStr = 1
INVARIANTS ReadBack InBounds IInv
CHECK_DEADLOCK FALSE
