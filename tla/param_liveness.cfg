SPECIFICATION FairSpec
CONSTANTS
  Root = root
  Locals = {l1}
  Remotes = {r1, r2}
  Names = {a}
  Vals = {v1}
  NoName = NoName
  NoVal = NoVal
  NoProc = NoProc
  MaxParam = 1
  LateCount = FALSE
  FairLock = TRUE
  MaxCalls = 3
  ReadKinds = {"get"}
  SelfReaders = {}
PROPERTIES ReadReturns CallReturns
CHECK_DEADLOCK FALSE
