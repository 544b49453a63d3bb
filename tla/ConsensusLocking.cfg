SPECIFICATION Spec
CONSTANTS
  v1 = v1
  v2 = v2
  v3 = v3
  A = A
  B = B
  Validators = {v1, v2, v3}
  Self = v1
  VotingPower <- MCVotingPower
  Power <- MCPower
  PeerVotes <- LockVotes
  PeerProposals <- MCProposals
  Blocks = {A, B}
  ValidBlocks = {A, B}
  Nil = Nil
  None = None
  Proposer <- MCProposer
  NewBlock <- MCNewBlock
  WaitForTxs = FALSE
  EmptyBlocksInterval = FALSE
  SkipTimeoutCommit = FALSE
  ProofHeights = {1}
  MaxRound = 1
  MaxHeight = 1
SYMMETRY MCSymmetry
INVARIANTS
  LocksJustified
PROPERTIES
  HRSAdvances
  ImplementsVoter
CHECK_DEADLOCK FALSE
