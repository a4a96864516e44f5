SPECIFICATION Spec
CONSTANTS
  r1 = r1  r2 = r2
  Name = Name  Message = Message  Opaque = Opaque
  NULL = NULL  Freed = Freed  Unset = Unset
  Plans <- MCPlans
  Sizes = {0, 1}
  MaxRanks <- AllRanks
  SockCap = 2
  Counts = {0, 1}
  Strings = {"s"}
  StdTypes = {"FACE_TRIA3"}
  HoTypes = {"FACE_TRIAHO"}
INVARIANTS TypeOK StreamsAgree NothingLeft CallsArrive CopiesAgree ElementsCounted CalledBeforeReturn
PROPERTY EveryCallReturns
