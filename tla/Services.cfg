SPECIFICATION Spec
CONSTANTS
  InitialHeight = 1
  MsgsPerHeight = 2
  AppBehind = 0
  MaxHeight = 3
  MaxCrashes = 2
  MaxConns = 3
  MaxSigns = 2
  MaxNodeStarts = 1
  n1 = n1
  n2 = n2
  n3 = n3
  None = None
INVARIANTS
  Restartable
  StoresAgree
  AnswerMatches
PROPERTIES
  Recovers
  
  DeadDropped
  EvictedLeaves
  
CHECK_DEADLOCK FALSE
