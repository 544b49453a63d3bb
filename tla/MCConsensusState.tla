--------------------------- MODULE MCConsensusState ---------------------------
EXTENDS ConsensusState, FiniteSetsExt, TLC

CONSTANTS VotingPower, v1, v2, v3, A, B

MCPower == [S \in SUBSET Validators |-> MapThenSumSet(LAMBDA v : VotingPower[v], S)]

\* v2 is in every quorum; {v1, v2} and {v2, v3} are the minimal ones.
MCVotingPower == v1 :> 1 @@ v2 :> 2 @@ v3 :> 1

MCProposer == [r \in Rounds |-> v2]

MCNewBlock == [r \in Rounds |-> B]

NewBlockA == [r \in Rounds |-> A]

V(types, rounds, vals, blocks) ==
  [type : types, round : rounds, val : vals, block : blocks]

MCProposals == {p \in [round : Rounds, polRound : Rounds \cup {-1}, block : Blocks] :
                  p.polRound < p.round}

\* Any prevotes of the peers in both rounds; v2 precommits nil.
LockVotes == V({"prevote"}, Rounds, {v2, v3}, {A, B, Nil})
             \cup V({"precommit"}, {0}, {v2}, {Nil})

\* Precommits for one block in both rounds, and for nil in the first: in the
\* last one nil only leads to a timeout into a round that is not explored.
CommitVotes == V({"prevote", "precommit"}, Rounds, {v2, v3}, {A})
               \cup V({"precommit"}, {0}, {v2}, {Nil})

\* Sound where all blocks are valid and Self does not propose: NewBlock, which
\* tells the blocks apart, is then never used.
MCSymmetry == Permutations(Blocks)

\* One round, for runs over several heights.
HeightVotes == V({"prevote", "precommit"}, {0}, {v2, v3}, {A})

SelfProposer == [r \in Rounds |-> v1]
===============================================================================
