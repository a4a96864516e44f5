SPECIFICATION FairSpec
CONSTANTS
  Root = root
  Locals = {l1}
  Remotes = {}
  Names = {a}
  Vals = {v1}
  NoName = NoName
  NoVal = NoVal
  NoProc = NoProc
  MaxParam = 1
  LateCount = FALSE
  FairLock = TRUE
  MaxCalls = 3
  ReadKinds = {"get"}
  SelfReaders = {root, l1}
PROPERTY OwnReadReturns
CHECK_DEADLOCK FALSE
