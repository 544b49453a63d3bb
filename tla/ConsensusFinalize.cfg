SPECIFICATION Spec
CONSTANTS
  v1 = v1
  v2 = v2
  v3 = v3
  A = A
  B = B
  Validators = {v1, v2, v3}
  Self = v1
  VotingPower <- MCVotingPower
  Power <- MCPower
  PeerVotes <- CommitVotes
  PeerProposals <- MCProposals
  Blocks = {A, B}
  ValidBlocks = {A}
  Nil = Nil
  None = None
  Proposer <- MCProposer
  NewBlock <- NewBlockA
  WaitForTxs = FALSE
  EmptyBlocksInterval = FALSE
  SkipTimeoutCommit = FALSE
  ProofHeights = {1}
  MaxRound = 1
  MaxHeight = 1
INVARIANTS
  FinalizesWhenItCan
CHECK_DEADLOCK FALSE
