SPECIFICATION RecoverySpec
CONSTANTS
  InitialHeight = 1
  MsgsPerHeight = 2
  AppBehind = 1
  MaxHeight = 3
  MaxCrashes = 2
INVARIANTS
  ReplayFindsValidators
CHECK_DEADLOCK FALSE
