SPECIFICATION Spec
CONSTANTS
  juno = juno ann = ann bob = bob
  Addr <- MCAddr
  Asset = {juno}
  Unit = 2
  MAX_UNSUBS = 2
  Configs <- MCConfigs
  Period = 1
  Payment <- MCPayment
  U64 = 6
  MaxTime = 3
  MaxUntil = 5
SYMMETRY AddrSymmetry
INVARIANTS CountMatchesList SecondsRewardedOnce IncomeTracksSubscribers
PROPERTIES PaidTimeIsServed
CHECK_DEADLOCK FALSE
