SPECIFICATION AnsSpec
CONSTANTS
  x = x y = y X = X
  Name = {x, y, X}
  Lower <- MCLower
  Info = {atom, juno}
  Place = {p1}
  KeyRank <- MCKeyRank
  MIN_POOL_ASSETS = 2
  MAX_POOL_ASSETS = 3
  MAX_LIMIT = 2
  MaxList = 1
  AssetName = {X, y}
  DexName = {X, y}
  BookName = {X}
  PoolInput <- MCPools
  MaxDexes = 2
  MaxPools = 2
  Absent = Absent
INVARIANTS AnsTypeOK PairingsMatchPools NamesFindBack PagingMissesNothing
CHECK_DEADLOCK FALSE
