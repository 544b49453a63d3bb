SPECIFICATION GroupSpec
CONSTANTS
  n1 = n1
  n2 = n2
  None = None
  Peers = {n1, n2}
  Honest = {n1}
  Late = {n2}
  Top = 3
  BadBlocks = {"uncommitted"}
  MaxPending = 2
  MaxRequesters = 2
  MaxPerPeer = 2
  MaxJoins = 2
  StatusHeights <- MCStatusHeights
  Workers = {1, 2}
  Nodes = {n1, n2}
  PeerList <- MCPeerList
  Reliable = {n1}
  Answers = {"old", "nil"}
  StartHeight = 3
  StopHeight = 2
  InitialHeight = 1
  OldHeight = 1
  ValidatorsAt <- MCValidatorsAt
  MaxRetries = 2
  MayCancel = TRUE
  Nil = Nil
INVARIANTS
  
  RequestsAccounted
  
  
PROPERTIES
  
  FinishSwitches
  
CHECK_DEADLOCK FALSE
