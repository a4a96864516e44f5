CONSTANTS
  Ranks = {0, 1, 2}
  Worlds <- DataWorlds
  MaxTag = 2147483647
  NoData = NoData
SPECIFICATION FairSpec
INVARIANTS TypeOK Delivered NotRefused FreedOnce
PROPERTIES ExchangesEnd
