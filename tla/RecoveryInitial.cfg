SPECIFICATION RecoverySpec
CONSTANTS
  InitialHeight = 2
  MsgsPerHeight = 2
  AppBehind = 0
  MaxHeight = 3
  MaxCrashes = 2
INVARIANTS
  StoreOneAhead
CHECK_DEADLOCK FALSE
