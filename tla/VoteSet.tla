------------------------------- MODULE VoteSet -------------------------------
(***************************************************************************)
(* types/vote_set.go: the votes of one height, round and type, with        *)
(* validators that may sign conflicting votes and peers that claim to have *)
(* seen a 2/3 majority.  A vote is a validator and a block ID; votes whose *)
(* index, address, step or signature is wrong are refused before any state *)
(* is touched and are left out.                                            *)
(***************************************************************************)
EXTENDS Integers, Electorate

CONSTANTS
  P2PIDs,
  VotingPower,  \* [Validators -> Nat]
  None          \* a nil pointer

\* Power is the sum of VotingPower, stated by what the proofs use of a sum.
ASSUME PowerAssumption ==
  /\ VotingPower \in [Validators -> Nat \ {0}]
  /\ Power \in [SUBSET Validators -> Nat]
  /\ Power[{}] = 0
  /\ \A S \in SUBSET Validators : \A v \in Validators \ S :
       Power[S \cup {v}] = Power[S] + VotingPower[v]
  /\ \A S, T \in SUBSET Validators : S \subseteq T => Power[S] <= Power[T]

\* What is kept for a block that is tracked.
blockVotes == [peerMaj23 : BOOLEAN, votes : SUBSET Validators, sum : Nat]

ASSUME NoneAssumption == None \notin BlockIDs /\ None \notin blockVotes

VARIABLES
  votes,        \* the canonical vote of each validator
  sum,          \* the power of the validators that voted
  maj23,        \* the first 2/3 majority seen
  votesByBlock, \* per block ID: None, or its blockVotes
  peerMaj23s,   \* what each peer claimed
  delivered,    \* history: the votes passed to AddVote
  conflicts     \* history: the validators ErrVoteConflictingVotes was returned for

vars == <<votes, sum, maj23, votesByBlock, peerMaj23s, delivered, conflicts>>

\* Canonical votes, claims and the votes tracked per block keep their shape.
TypeOK ==
  /\ votes \in [Validators -> BlockIDs \cup {None}]
  /\ sum \in Nat
  /\ maj23 \in BlockIDs \cup {None}
  /\ votesByBlock \in [BlockIDs -> blockVotes \cup {None}]
  /\ peerMaj23s \in [P2PIDs -> BlockIDs \cup {None}]
  /\ delivered \subseteq Validators \X BlockIDs
  /\ conflicts \subseteq Validators

newBlockVotes(claimed) == [peerMaj23 |-> claimed, votes |-> {}, sum |-> 0]

Init ==
  /\ votes = [v \in Validators |-> None]
  /\ sum = 0
  /\ maj23 = None
  /\ votesByBlock = [b \in BlockIDs |-> None]
  /\ peerMaj23s = [p \in P2PIDs |-> None]
  /\ delivered = {}
  /\ conflicts = {}
-------------------------------------------------------------------------------
\* Mutant: two thirds rounded down are taken for a majority.
quorum_OffByOne == (Power[Validators] * 2) \div 3

quorum == (Power[Validators] * 2) \div 3 + 1

getVote(v, b) ==
  \/ votes[v] = b
  \/ votesByBlock[b] # None /\ v \in votesByBlock[b].votes

\* The votesByBlock entry b gets when v's vote is added to it.
withVote(v, b) ==
  LET bv == IF votesByBlock[b] = None THEN newBlockVotes(FALSE) ELSE votesByBlock[b]
  IN  IF v \in bv.votes THEN bv
      ELSE [bv EXCEPT !.votes = @ \cup {v}, !.sum = @ + VotingPower[v]]

\* Mutant: the majority of the latest block to cross the quorum is reported.
crossQuorum_Latest(v, b, canonical) ==
  LET bv == withVote(v, b)
  IN  /\ votesByBlock' = [votesByBlock EXCEPT ![b] = bv]
      /\ maj23' = IF quorum <= bv.sum THEN b ELSE maj23
      /\ votes' = canonical

\* Mutant: the quorum has to be met exactly.
crossQuorum_FirstOnly(v, b, canonical) ==
  LET bv == withVote(v, b)
  IN  /\ votesByBlock' = [votesByBlock EXCEPT ![b] = bv]
      /\ maj23' = IF maj23 = None /\ quorum = bv.sum THEN b ELSE maj23
      /\ votes' = canonical

\* When a block's votes cross the quorum for the first time, they become the
\* canonical votes of their validators.
crossQuorum(v, b, canonical) ==
  LET bv    == withVote(v, b)
      first == /\ maj23 = None
               /\ (IF votesByBlock[b] = None THEN 0 ELSE votesByBlock[b].sum) < quorum
               /\ quorum <= bv.sum
  IN  /\ votesByBlock' = [votesByBlock EXCEPT ![b] = bv]
      /\ maj23' = IF first THEN b ELSE maj23
      /\ votes' = [w \in Validators |-> IF first /\ w \in bv.votes THEN b ELSE canonical[w]]

\* AddVote, the first vote of v.
AddFirst(v, b) ==
  /\ ~getVote(v, b)
  /\ votes[v] = None
  /\ sum' = sum + VotingPower[v]
  /\ crossQuorum(v, b, [votes EXCEPT ![v] = b])
  /\ delivered' = delivered \cup {<<v, b>>}
  /\ UNCHANGED <<peerMaj23s, conflicts>>

\* A conflicting vote replaces the canonical one if it is for the majority.
replaced(v, b) == IF maj23 = b THEN [votes EXCEPT ![v] = b] ELSE votes

\* Mutant: the conflict is not reported when the vote is tracked.
AddConflicting_Silent(v, b) ==
  /\ ~getVote(v, b)
  /\ votes[v] # None
  /\ IF votesByBlock[b] # None /\ votesByBlock[b].peerMaj23
     THEN crossQuorum(v, b, replaced(v, b)) /\ UNCHANGED conflicts
     ELSE /\ votes' = replaced(v, b)
          /\ conflicts' = conflicts \cup {v}
          /\ UNCHANGED <<votesByBlock, maj23>>
  /\ delivered' = delivered \cup {<<v, b>>}
  /\ UNCHANGED <<sum, peerMaj23s>>

\* Mutant: a conflicting vote that is tracked adds to the sum.
AddConflicting_Counted(v, b) ==
  /\ ~getVote(v, b)
  /\ votes[v] # None
  /\ votesByBlock[b] # None /\ votesByBlock[b].peerMaj23
  /\ crossQuorum(v, b, replaced(v, b))
  /\ sum' = sum + VotingPower[v]
  /\ conflicts' = conflicts \cup {v}
  /\ delivered' = delivered \cup {<<v, b>>}
  /\ UNCHANGED peerMaj23s

\* Mutant: a conflicting vote is tracked whether a peer asked for it or not.
AddConflicting_TracksAll(v, b) ==
  /\ ~getVote(v, b)
  /\ votes[v] # None
  /\ crossQuorum(v, b, replaced(v, b))
  /\ conflicts' = conflicts \cup {v}
  /\ delivered' = delivered \cup {<<v, b>>}
  /\ UNCHANGED <<sum, peerMaj23s>>

\* AddVote, a vote of v that conflicts with its canonical one: counted for its
\* block only if a peer claims a majority for that block.
AddConflicting(v, b) ==
  /\ ~getVote(v, b)
  /\ votes[v] # None
  /\ IF votesByBlock[b] # None /\ votesByBlock[b].peerMaj23
     THEN crossQuorum(v, b, replaced(v, b))
     ELSE votes' = replaced(v, b) /\ UNCHANGED <<votesByBlock, maj23>>
  /\ conflicts' = conflicts \cup {v}
  /\ delivered' = delivered \cup {<<v, b>>}
  /\ UNCHANGED <<sum, peerMaj23s>>

\* A peer gets to claim a majority once.
SetPeerMaj23(p, b) ==
  /\ peerMaj23s[p] = None
  /\ peerMaj23s' = [peerMaj23s EXCEPT ![p] = b]
  /\ votesByBlock' = [votesByBlock EXCEPT
       ![b] = IF @ = None THEN newBlockVotes(TRUE) ELSE [@ EXCEPT !.peerMaj23 = TRUE]]
  /\ UNCHANGED <<votes, sum, maj23, delivered, conflicts>>

Next ==
  \/ \E v \in Validators, b \in BlockIDs : AddFirst(v, b)
  \/ \E v \in Validators, b \in BlockIDs : AddConflicting(v, b)
  \/ \E p \in P2PIDs, b \in BlockIDs : SetPeerMaj23(p, b)

Spec == Init /\ [][Next]_vars
-------------------------------------------------------------------------------
\* The canonical votes for the majority and for nil; others are marked absent.
MakeCommit ==
  [v \in Validators |-> IF votes[v] \in {maj23, Nil} THEN votes[v] ELSE None]

\* MakeCommit, which copies the canonical votes, yields a commit with more than
\* 2/3 of the power for the majority block, whatever votes came after.
CommitHasQuorum ==
  maj23 # None =>
    3 * Power[{v \in Validators : MakeCommit[v] = maj23}] > 2 * Power[Validators]

\* HasTwoThirdsAny and HasAll count every validator that voted once.
SumCountsVoters == sum = Power[{v \in Validators : votes[v] # None}]

\* A majority is never missed: once the votes counted for a block reach the
\* quorum there is a majority (the first one reached).
MajorityFound ==
  \A b \in BlockIDs :
    votesByBlock[b] # None /\ quorum <= votesByBlock[b].sum => maj23 # None

\* Evidence of a double sign is reported, and only then: a conflict is returned
\* for a validator exactly when two of its votes that differ were passed in.
ConflictsReported ==
  conflicts = {v \in Validators :
                 \E b, c \in BlockIDs : /\ b # c
                                        /\ <<v, b>> \in delivered
                                        /\ <<v, c>> \in delivered}

Claimed(b) == \E p \in P2PIDs : peerMaj23s[p] = b

\* "All this is memory bounded": a block is tracked for a peer that named it or
\* for a validator whose first vote it got, and a validator counts for one block.
TrackingBounded ==
  /\ \A b \in BlockIDs : votesByBlock[b] # None /\ ~Claimed(b) => votesByBlock[b].votes # {}
  /\ \A b, c \in BlockIDs :
       b # c /\ votesByBlock[b] # None /\ votesByBlock[c] # None /\ ~Claimed(b) /\ ~Claimed(c)
         => votesByBlock[b].votes \cap votesByBlock[c].votes = {}
  /\ \A b \in BlockIDs : votesByBlock[b] # None => votesByBlock[b].peerMaj23 = Claimed(b)

\* The majority, once reported, stays the majority: TwoThirdsMajority never
\* takes back what consensus acted on.
MajorityStable == [][maj23 # None => maj23' = maj23]_vars
===============================================================================
