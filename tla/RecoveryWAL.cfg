SPECIFICATION RecoverySpec
CONSTANTS
  InitialHeight = 1
  MsgsPerHeight = 2
  AppBehind = 0
  MaxHeight = 3
  MaxCrashes = 2
INVARIANTS
  WALReplayed
CHECK_DEADLOCK FALSE
