SPECIFICATION Spec
CONSTANTS
  Root = root
  Locals = {l1}
  Remotes = {r1}
  Names = {a, b}
  Vals = {v1, v2}
  NoName = NoName
  NoVal = NoVal
  NoProc = NoProc
  MaxParam = 2
  LateCount = TRUE
  FairLock = FALSE
  MaxCalls = 3
  ReadKinds = {"get", "is", "nget"}
  SelfReaders = {root}
PROPERTY Refines
SYMMETRY Symm
CHECK_DEADLOCK FALSE
