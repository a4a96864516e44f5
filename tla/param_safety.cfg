SPECIFICATION Spec
CONSTANTS
  Root = root
  Locals = {l1}
  Remotes = {}
  Names = {a, b, c}
  Vals = {v1, v2}
  NoName = NoName
  NoVal = NoVal
  NoProc = NoProc
  MaxParam = 2
  LateCount = FALSE
  FairLock = FALSE
  MaxCalls = 3
  ReadKinds = {"get", "is", "list"}
  SelfReaders = {root, l1}
SYMMETRY Symm
INVARIANTS TypeOK SnapshotCoherent NoSpuriousAbort IInv
CHECK_DEADLOCK FALSE
