SPECIFICATION GroupSpec
CONSTANTS
  v1 = v1
  v2 = v2
  v3 = v3
  v4 = v4
  A = A
  B = B
  p1 = p1
  p2 = p2
  Nil = Nil
  None = None
  Validators = {v1, v2, v3, v4}
  Faulty = {v1}
  Rounds = {0, 1}
  Blocks = {A, B}
  P2PIDs = {p1, p2}
  VotingPower <- MCVotingPower
  Power <- MCPower
SYMMETRY MCSymmetry
INVARIANTS
  CommitHasQuorum
  SumCountsVoters
  MajorityFound
  ConflictsReported
  TrackingBounded
  Agreement
PROPERTIES
  MajorityStable
CHECK_DEADLOCK FALSE
