SPECIFICATION Spec
CONSTANTS
  v1 = v1
  v2 = v2
  v3 = v3
  A = A
  B = B
  Validators = {v1, v2, v3}
  Self = v1
  VotingPower <- MCVotingPower
  Power <- MCPower
  PeerVotes <- HeightVotes
  PeerProposals = {}
  Blocks = {A}
  ValidBlocks = {A}
  Nil = Nil
  None = None
  Proposer <- SelfProposer
  NewBlock <- NewBlockA
  WaitForTxs = TRUE
  EmptyBlocksInterval = TRUE
  SkipTimeoutCommit = TRUE
  ProofHeights = {1}
  MaxRound = 0
  MaxHeight = 2
INVARIANTS
  NeverRefused
  NoStall
CHECK_DEADLOCK FALSE
