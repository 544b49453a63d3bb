----------------------------- MODULE Votes_proofs -----------------------------
(***************************************************************************)
(* Votes, from one vote set to the agreement of all validators.            *)
(***************************************************************************)
EXTENDS VoteSet, HeightVoteSet, Voting, TLAPS

(***************************************************************************)
(* What a vote set promises consensus, for any validators and powers, any  *)
(* double signing and any claims of peers: the commit it makes has a       *)
(* quorum, its majority is found and never taken back.  The inductive      *)
(* invariant ties the three places power is counted (sum, the sums of      *)
(* votesByBlock, the canonical votes) to the sets of validators counted.   *)
(***************************************************************************)
Voters == {v \in Validators : votes[v] # None}

\* A block's sum is the power of its voters, who all have a canonical vote.
BlockSums ==
  \A b \in BlockIDs : votesByBlock[b] # None =>
    /\ votesByBlock[b].sum = Power[votesByBlock[b].votes]
    /\ votesByBlock[b].votes \subseteq Voters

\* The votes that made the majority are canonical.
MajorityCanonical ==
  maj23 # None =>
    /\ votesByBlock[maj23] # None
    /\ quorum <= votesByBlock[maj23].sum
    /\ \A v \in votesByBlock[maj23].votes : votes[v] = maj23

SetIInv == TypeOK /\ BlockSums /\ MajorityCanonical /\ MajorityFound /\ SumCountsVoters

\* The quorum of vote_set.go is a positive number.
LEMMA QuorumType == quorum \in Nat /\ quorum > 0
  BY PowerAssumption DEF quorum

LEMMA SetInit == Init => SetIInv
<1> SUFFICES ASSUME Init PROVE SetIInv
  OBVIOUS
<1>1. TypeOK
  BY DEF Init, TypeOK
<1>2. {v \in Validators : votes[v] # None} = {}
  BY DEF Init
<1> QED
  BY <1>1, <1>2, PowerAssumption
     DEF Init, SetIInv, BlockSums, MajorityCanonical, MajorityFound, SumCountsVoters

\* Marking a block claimed changes nothing else.
LEMMA UpdateClaim ==
  ASSUME NEW r \in blockVotes
  PROVE  /\ [r EXCEPT !.peerMaj23 = TRUE] \in blockVotes
         /\ [r EXCEPT !.peerMaj23 = TRUE].votes = r.votes
         /\ [r EXCEPT !.peerMaj23 = TRUE].sum = r.sum
  BY DEF blockVotes

\* withVote adds v to the voters of b, and v's power to their sum.
LEMMA WithVote ==
  ASSUME SetIInv, NEW v \in Validators, NEW b \in BlockIDs
  PROVE  LET bv == withVote(v, b)
         IN  /\ bv \in blockVotes
             /\ bv.sum = Power[bv.votes]
             /\ bv.votes = (IF votesByBlock[b] = None THEN {} ELSE votesByBlock[b].votes)
                             \cup {v}
<1> DEFINE old == IF votesByBlock[b] = None THEN newBlockVotes(FALSE) ELSE votesByBlock[b]
<1>1. old \in blockVotes
  BY DEF SetIInv, TypeOK, newBlockVotes, blockVotes
<1>2. old.sum = Power[old.votes]
  BY PowerAssumption DEF SetIInv, BlockSums, newBlockVotes
<1>3. old.votes = IF votesByBlock[b] = None THEN {} ELSE votesByBlock[b].votes
  BY DEF newBlockVotes
<1>4. withVote(v, b) = IF v \in old.votes THEN old
                       ELSE [old EXCEPT !.votes = old.votes \cup {v},
                                        !.sum = old.sum + VotingPower[v]]
  BY DEF withVote
<1> HIDE DEF old
<1>5. CASE v \in old.votes
  BY <1>1, <1>2, <1>3, <1>4, <1>5
<1>6. CASE v \notin old.votes
  <2>1. old.votes \in SUBSET Validators /\ old.sum \in Nat /\ VotingPower[v] \in Nat
    BY <1>1, PowerAssumption DEF blockVotes
  <2>2. Power[old.votes \cup {v}] = Power[old.votes] + VotingPower[v]
    BY <2>1, <1>6, PowerAssumption
  <2>3. old.votes \cup {v} \in SUBSET Validators
    BY <2>1
  <2>4. old.sum + VotingPower[v] \in Nat
    BY <2>1
  <2>5. /\ withVote(v, b) \in blockVotes
        /\ withVote(v, b).votes = old.votes \cup {v}
        /\ withVote(v, b).sum = old.sum + VotingPower[v]
    <3> DEFINE new == [old EXCEPT !.votes = old.votes \cup {v}, !.sum = old.sum + VotingPower[v]]
    <3>1. ASSUME NEW s \in SUBSET Validators, NEW n \in Nat
          PROVE  /\ [old EXCEPT !.votes = s, !.sum = n] \in blockVotes
                 /\ [old EXCEPT !.votes = s, !.sum = n].votes = s
                 /\ [old EXCEPT !.votes = s, !.sum = n].sum = n
      BY <1>1 DEF blockVotes
    <3>2. /\ new \in blockVotes
          /\ new.votes = old.votes \cup {v}
          /\ new.sum = old.sum + VotingPower[v]
      BY <3>1, <2>3, <2>4, Zenon
    <3>3. withVote(v, b) = new
      BY <1>4, <1>6
    <3> QED
      BY <3>2, <3>3
  <2> QED
    BY <2>2, <2>5, <1>2, <1>3
<1> QED
  BY <1>5, <1>6

\* crossQuorum keeps the invariant when the canonical votes it starts from keep
\* every voter and every vote for the majority.
LEMMA CrossQuorum ==
  ASSUME SetIInv, NEW v \in Validators, NEW b \in BlockIDs,
         NEW canonical \in [Validators -> BlockIDs \cup {None}],
         canonical[v] # None,
         \A w \in Validators : votes[w] # None => canonical[w] # None,
         maj23 # None => \A w \in Validators : votes[w] = maj23 => canonical[w] = maj23,
         maj23 = b => canonical[v] = b,
         crossQuorum(v, b, canonical)
  PROVE  /\ votes' \in [Validators -> BlockIDs \cup {None}]
         /\ maj23' \in BlockIDs \cup {None}
         /\ votesByBlock' \in [BlockIDs -> blockVotes \cup {None}]
         /\ BlockSums' /\ MajorityCanonical' /\ MajorityFound'
         /\ {w \in Validators : votes'[w] # None} \subseteq
              {w \in Validators : canonical[w] # None} \cup withVote(v, b).votes
         /\ \A w \in Validators : canonical[w] # None => votes'[w] # None
         /\ maj23 # None => maj23' = maj23
<1> DEFINE bv    == withVote(v, b)
           osum  == IF votesByBlock[b] = None THEN 0 ELSE votesByBlock[b].sum
           first == maj23 = None /\ osum < quorum /\ quorum <= bv.sum
<1> USE NoneAssumption
<1>1. /\ bv \in blockVotes
      /\ bv.sum = Power[bv.votes]
      /\ bv.votes = (IF votesByBlock[b] = None THEN {} ELSE votesByBlock[b].votes) \cup {v}
  BY WithVote
<1>2. /\ votesByBlock' = [votesByBlock EXCEPT ![b] = bv]
      /\ maj23' = IF first THEN b ELSE maj23
      /\ votes' = [w \in Validators |-> IF first /\ w \in bv.votes THEN b ELSE canonical[w]]
  BY DEF crossQuorum
<1>3. TypeOK /\ quorum \in Nat /\ quorum > 0
  BY QuorumType DEF SetIInv
<1>4. /\ votesByBlock' \in [BlockIDs -> blockVotes \cup {None}]
      /\ votesByBlock'[b] = bv
      /\ \A c \in BlockIDs : c # b => votesByBlock'[c] = votesByBlock[c]
  BY <1>1, <1>2, <1>3 DEF TypeOK
<1>5. votes' \in [Validators -> BlockIDs \cup {None}]
  BY <1>2
<1>6. maj23' \in BlockIDs \cup {None}
  BY <1>2, <1>3 DEF TypeOK
<1>7. bv # None
  BY <1>1
<1>8. \A w \in Validators : canonical[w] # None => votes'[w] # None
  BY <1>2
<1>9. bv.votes \subseteq Validators /\ bv.sum \in Nat
  BY <1>1 DEF blockVotes
<1>10. \A w \in bv.votes : canonical[w] # None
  <2>1. \A w \in bv.votes : w = v \/ (votesByBlock[b] # None /\ w \in votesByBlock[b].votes)
    BY <1>1
  <2> QED
    BY <2>1, <1>9 DEF SetIInv, BlockSums, Voters
<1>11. BlockSums'
  <2> SUFFICES ASSUME NEW c \in BlockIDs, votesByBlock'[c] # None
               PROVE  /\ votesByBlock'[c].sum = Power[votesByBlock'[c].votes]
                      /\ votesByBlock'[c].votes \subseteq Voters'
    BY DEF BlockSums
  <2>1. CASE c = b
    BY <2>1, <1>1, <1>4, <1>8, <1>9, <1>10 DEF Voters
  <2>2. CASE c # b
    <3>1. votesByBlock[c].sum = Power[votesByBlock[c].votes] /\ votesByBlock[c].votes \subseteq Voters
      BY <2>2, <1>4 DEF SetIInv, BlockSums
    <3>2. Voters \subseteq Voters'
      BY <1>8 DEF Voters
    <3> QED
      BY <3>1, <3>2, <2>2, <1>4
  <2> QED
    BY <2>1, <2>2
<1>12. MajorityCanonical'
  <2> SUFFICES ASSUME maj23' # None
               PROVE  /\ votesByBlock'[maj23'] # None
                      /\ quorum <= votesByBlock'[maj23'].sum
                      /\ \A w \in votesByBlock'[maj23'].votes : votes'[w] = maj23'
    BY DEF MajorityCanonical, quorum
  <2>1. CASE first
    BY <2>1, <1>2, <1>4, <1>7, <1>9
  <2>2. CASE ~first /\ maj23 = b
    <3>1. /\ votesByBlock[b] # None
          /\ quorum <= votesByBlock[b].sum
          /\ \A w \in votesByBlock[b].votes : votes[w] = b
      BY <2>2, NoneAssumption DEF SetIInv, MajorityCanonical
    <3>2. bv.votes = votesByBlock[b].votes \cup {v}
      BY <1>1, <3>1
    <3>3. votesByBlock[b] \in blockVotes /\ votesByBlock[b].sum = Power[votesByBlock[b].votes]
      BY <3>1, <1>3, Zenon DEF TypeOK, SetIInv, BlockSums
    <3>4. votesByBlock[b].sum <= bv.sum
      BY <3>2, <3>3, <1>1, <1>9, PowerAssumption DEF blockVotes
    <3>5. votesByBlock[b].sum \in Nat
      BY <3>3 DEF blockVotes
    <3>6. \A w \in bv.votes : canonical[w] = b
      BY <3>1, <3>2, <1>9, <2>2, Zenon
    <3> QED
      BY <3>1, <3>4, <3>5, <3>6, <2>2, <1>2, <1>3, <1>4, <1>7, <1>9
  <2>3. CASE ~first /\ maj23 # b
    <3>1. maj23' = maj23 /\ maj23 \in BlockIDs /\ maj23 # None
      BY <2>3, <1>2, <1>6
    <3>2. votesByBlock'[maj23] = votesByBlock[maj23]
      BY <3>1, <2>3, <1>4
    <3>3. /\ votesByBlock[maj23] # None
          /\ quorum <= votesByBlock[maj23].sum
          /\ \A w \in votesByBlock[maj23].votes : votes[w] = maj23
      BY <3>1 DEF SetIInv, MajorityCanonical
    <3>4. votesByBlock[maj23].votes \subseteq Validators
      BY <3>1, <3>3, <1>3 DEF TypeOK, blockVotes
    <3> QED
      BY <3>1, <3>2, <3>3, <3>4, <2>3, <1>2
  <2> QED
    BY <2>1, <2>2, <2>3
<1>13. MajorityFound'
  <2> SUFFICES ASSUME NEW c \in BlockIDs, votesByBlock'[c] # None, quorum <= votesByBlock'[c].sum,
                      maj23' = None
               PROVE  FALSE
    BY DEF MajorityFound, quorum
  <2>1. ~first /\ maj23 = None
    BY <1>2
  <2>2. CASE c = b
    <3>1. ~(osum < quorum)
      BY <2>1, <2>2, <1>4
    <3>2. votesByBlock[b] # None
      BY <3>1, <1>3
    <3>3. votesByBlock[b].sum \in Nat
      BY <3>2, <1>3 DEF TypeOK, blockVotes
    <3>4. quorum <= votesByBlock[b].sum
      BY <3>1, <3>2, <3>3, <1>3
    <3> QED
      BY <3>2, <3>4, <2>1 DEF SetIInv, MajorityFound
  <2>3. CASE c # b
    BY <2>1, <2>3, <1>4 DEF SetIInv, MajorityFound
  <2> QED
    BY <2>2, <2>3
<1>14. maj23 # None => maj23' = maj23
  BY <1>2
<1>15. {w \in Validators : votes'[w] # None} \subseteq
         {w \in Validators : canonical[w] # None} \cup bv.votes
  BY <1>2
<1> QED
  BY <1>4, <1>5, <1>6, <1>8, <1>11, <1>12, <1>13, <1>14, <1>15

\* The canonical votes AddConflicting starts from keep voters and majority.
LEMMA Replaced ==
  ASSUME SetIInv, NEW v \in Validators, NEW b \in BlockIDs, votes[v] # None
  PROVE  /\ replaced(v, b) \in [Validators -> BlockIDs \cup {None}]
         /\ \A w \in Validators : (votes[w] # None) <=> (replaced(v, b)[w] # None)
         /\ maj23 # None => \A w \in Validators : votes[w] = maj23 => replaced(v, b)[w] = maj23
         /\ maj23 = b => replaced(v, b)[v] = b
  BY NoneAssumption DEF SetIInv, TypeOK, replaced

LEMMA SetNext == SetIInv /\ [Next]_vars => SetIInv'
<1> SUFFICES ASSUME SetIInv, [Next]_vars PROVE SetIInv'
  OBVIOUS
<1> USE NoneAssumption
<1>1. ASSUME NEW v \in Validators, NEW b \in BlockIDs, AddFirst(v, b) PROVE SetIInv'
  <2> DEFINE canonical == [votes EXCEPT ![v] = b]
             bv == withVote(v, b)
  <2>1. /\ votes[v] = None
        /\ sum' = sum + VotingPower[v]
        /\ crossQuorum(v, b, canonical)
        /\ delivered' = delivered \cup {<<v, b>>}
        /\ UNCHANGED <<peerMaj23s, conflicts>>
    BY <1>1 DEF AddFirst
  <2>2. votes \in [Validators -> BlockIDs \cup {None}]
    BY DEF SetIInv, TypeOK
  <2>3. /\ canonical \in [Validators -> BlockIDs \cup {None}]
        /\ canonical[v] = b
        /\ \A w \in Validators : w # v => canonical[w] = votes[w]
    BY <2>2, Zenon
  <2>4. /\ votes' \in [Validators -> BlockIDs \cup {None}]
        /\ maj23' \in BlockIDs \cup {None}
        /\ votesByBlock' \in [BlockIDs -> blockVotes \cup {None}]
        /\ BlockSums' /\ MajorityCanonical' /\ MajorityFound'
        /\ {w \in Validators : votes'[w] # None} \subseteq
             {w \in Validators : canonical[w] # None} \cup bv.votes
        /\ \A w \in Validators : canonical[w] # None => votes'[w] # None
    <3>1. \A w \in Validators : votes[w] # None => canonical[w] # None
      BY <2>3, <2>1
    <3>2. maj23 # None => \A w \in Validators : votes[w] = maj23 => canonical[w] = maj23
      BY <2>3, <2>1
    <3>3. canonical[v] # None /\ (maj23 = b => canonical[v] = b)
      BY <2>3
    <3> HIDE DEF canonical, bv
    <3> QED
      BY <2>1, <2>3, <3>1, <3>2, <3>3, CrossQuorum DEF bv
  <2>5. bv.votes \subseteq Voters \cup {v}
    BY WithVote DEF SetIInv, BlockSums
  <2>6. Voters' = Voters \cup {v}
    BY <2>3, <2>4, <2>5 DEF Voters
  <2>7. sum' = Power[Voters']
    <3>1. sum = Power[Voters] /\ v \notin Voters /\ Voters \in SUBSET Validators
      BY <2>1 DEF SetIInv, SumCountsVoters, Voters
    <3> QED
      BY <3>1, <2>1, <2>6, PowerAssumption
  <2>8. SumCountsVoters'
    BY <2>7, Zenon DEF SumCountsVoters, Voters
  <2>9. TypeOK'
    <3>1. sum' \in Nat
      BY <2>1, PowerAssumption DEF SetIInv, TypeOK
    <3> QED
      BY <2>1, <2>4, <3>1 DEF SetIInv, TypeOK
  <2> QED
    BY <2>4, <2>8, <2>9 DEF SetIInv
<1>2. ASSUME NEW v \in Validators, NEW b \in BlockIDs, AddConflicting(v, b) PROVE SetIInv'
  <2> DEFINE bv == withVote(v, b)
  <2>1. /\ votes[v] # None
        /\ UNCHANGED <<sum, peerMaj23s>>
        /\ conflicts' = conflicts \cup {v}
        /\ delivered' = delivered \cup {<<v, b>>}
    BY <1>2, Zenon DEF AddConflicting
  <2>2. /\ replaced(v, b) \in [Validators -> BlockIDs \cup {None}]
        /\ \A w \in Validators : (votes[w] # None) <=> (replaced(v, b)[w] # None)
        /\ maj23 # None => \A w \in Validators : votes[w] = maj23 => replaced(v, b)[w] = maj23
        /\ maj23 = b => replaced(v, b)[v] = b
    BY <2>1, Replaced, Zenon
  <2>3. /\ votes' \in [Validators -> BlockIDs \cup {None}]
        /\ maj23' \in BlockIDs \cup {None}
        /\ votesByBlock' \in [BlockIDs -> blockVotes \cup {None}]
        /\ BlockSums' /\ MajorityCanonical' /\ MajorityFound'
        /\ Voters' = Voters
    <3>1. CASE crossQuorum(v, b, replaced(v, b))
      <4>1. /\ votes' \in [Validators -> BlockIDs \cup {None}]
            /\ maj23' \in BlockIDs \cup {None}
            /\ votesByBlock' \in [BlockIDs -> blockVotes \cup {None}]
            /\ BlockSums' /\ MajorityCanonical' /\ MajorityFound'
            /\ {w \in Validators : votes'[w] # None} \subseteq
                 {w \in Validators : replaced(v, b)[w] # None} \cup bv.votes
            /\ \A w \in Validators : replaced(v, b)[w] # None => votes'[w] # None
        BY <2>1, <2>2, <3>1, CrossQuorum, Zenon
      <4>2. bv.votes \subseteq Voters
        BY <2>1, WithVote DEF SetIInv, BlockSums, Voters
      <4>3. Voters' = Voters
        BY <4>1, <4>2, <2>2 DEF Voters
      <4> QED
        BY <4>1, <4>3, Zenon
    <3>2. CASE votes' = replaced(v, b) /\ UNCHANGED <<votesByBlock, maj23>>
      <4>1. Voters' = Voters
        BY <3>2, <2>2, Zenon DEF Voters
      <4>2. BlockSums' /\ MajorityFound'
        BY <3>2, <4>1, Zenon DEF SetIInv, BlockSums, MajorityFound, quorum
      <4>3. MajorityCanonical'
        <5> SUFFICES ASSUME maj23 # None
                     PROVE  /\ votesByBlock[maj23] # None
                            /\ quorum <= votesByBlock[maj23].sum
                            /\ \A w \in votesByBlock[maj23].votes : replaced(v, b)[w] = maj23
          BY <3>2 DEF MajorityCanonical, quorum
        <5>1. votesByBlock[maj23] # None => votesByBlock[maj23].votes \subseteq Validators
          BY Zenon DEF SetIInv, TypeOK, blockVotes
        <5> QED
          BY <5>1, <2>2 DEF SetIInv, MajorityCanonical
      <4> QED
        BY <3>2, <4>1, <4>2, <4>3, <2>2 DEF SetIInv, TypeOK
    <3> QED
      BY <3>1, <3>2, <1>2, Zenon DEF AddConflicting
  <2>4. SumCountsVoters'
    BY <2>1, <2>3 DEF SetIInv, SumCountsVoters, Voters
  <2>5. TypeOK'
    BY <2>1, <2>3 DEF SetIInv, TypeOK
  <2> QED
    BY <2>3, <2>4, <2>5 DEF SetIInv
<1>3. ASSUME NEW p \in P2PIDs, NEW b \in BlockIDs, SetPeerMaj23(p, b) PROVE SetIInv'
  <2> DEFINE new == IF votesByBlock[b] = None THEN newBlockVotes(TRUE)
                    ELSE [votesByBlock[b] EXCEPT !.peerMaj23 = TRUE]
             old == IF votesByBlock[b] = None THEN newBlockVotes(TRUE) ELSE votesByBlock[b]
  <2>1. /\ votesByBlock' = [votesByBlock EXCEPT ![b] = new]
        /\ peerMaj23s' = [peerMaj23s EXCEPT ![p] = b]
        /\ UNCHANGED <<votes, sum, maj23, delivered, conflicts>>
    BY <1>3, Zenon DEF SetPeerMaj23
  <2>2. old \in blockVotes
    BY DEF SetIInv, TypeOK, newBlockVotes, blockVotes
  <2>3. new \in blockVotes /\ new.votes = old.votes /\ new.sum = old.sum
    <3>1. CASE votesByBlock[b] = None
      BY <3>1, <2>2
    <3>2. CASE votesByBlock[b] # None
      <4>1. old = votesByBlock[b] /\ new = [votesByBlock[b] EXCEPT !.peerMaj23 = TRUE]
        BY <3>2
      <4> QED
        BY <4>1, <2>2, UpdateClaim, Zenon
    <3> QED
      BY <3>1, <3>2, Zenon
  <2>4. /\ votesByBlock' \in [BlockIDs -> blockVotes \cup {None}]
        /\ votesByBlock'[b] = new
        /\ \A c \in BlockIDs : c # b => votesByBlock'[c] = votesByBlock[c]
    BY <2>1, <2>3 DEF SetIInv, TypeOK
  <2>5. TypeOK'
    BY <2>1, <2>4, Zenon DEF SetIInv, TypeOK
  <2>6. /\ new # None
        /\ votesByBlock[b] = None => new.votes = {} /\ new.sum = 0
        /\ votesByBlock[b] # None => /\ new.votes = votesByBlock[b].votes
                                     /\ new.sum = votesByBlock[b].sum
    BY <2>3, Zenon DEF newBlockVotes
  <2> HIDE DEF new, old
  <2>7. BlockSums'
    BY <2>1, <2>4, <2>6, PowerAssumption, Zenon DEF SetIInv, BlockSums, Voters
  <2>8. MajorityCanonical'
    BY <2>1, <2>4, <2>6 DEF SetIInv, TypeOK, MajorityCanonical, quorum
  <2>9. MajorityFound'
    <3> SUFFICES ASSUME NEW c \in BlockIDs, votesByBlock'[c] # None, quorum <= votesByBlock'[c].sum
                 PROVE  maj23 # None
      BY <2>1 DEF MajorityFound, quorum
    <3> QED
      BY <2>4, <2>6, QuorumType DEF SetIInv, MajorityFound
  <2>10. SumCountsVoters'
    BY <2>1, Zenon DEF SetIInv, SumCountsVoters
  <2> QED
    BY <2>5, <2>7, <2>8, <2>9, <2>10 DEF SetIInv
<1>4. CASE UNCHANGED vars
  BY <1>4 DEF vars, SetIInv, TypeOK, BlockSums, Voters, MajorityCanonical, MajorityFound,
              SumCountsVoters, quorum
<1> QED
  BY <1>1, <1>2, <1>3, <1>4 DEF Next

\* The invariant holds in every reachable state.
THEOREM SetInvariance == Spec => []SetIInv
  BY SetInit, SetNext, PTL DEF Spec

\* TwoThirdsMajority reports every majority: a block that a quorum of the votes of
\* the set is for is found when the vote that completes the quorum is added.
THEOREM MajorityFoundHolds == Spec => []MajorityFound
<1>1. SetIInv => MajorityFound
  BY DEF SetIInv
<1> QED
  BY <1>1, SetInvariance, PTL

\* The sums that HasTwoThirdsAny and HasAll read count each validator that voted
\* exactly once, also one whose votes conflict.
THEOREM SumCountsVotersHolds == Spec => []SumCountsVoters
<1>1. SetIInv => SumCountsVoters
  BY DEF SetIInv
<1> QED
  BY <1>1, SetInvariance, PTL

\* A commit that MakeCommit builds has a quorum for its block, however many
\* validators double sign and whatever majorities peers claim.
THEOREM CommitQuorum == Spec => []CommitHasQuorum
<1>1. SetIInv => CommitHasQuorum
  <2> SUFFICES ASSUME SetIInv, maj23 # None
               PROVE  3 * Power[{v \in Validators : MakeCommit[v] = maj23}]
                        > 2 * Power[Validators]
    BY DEF CommitHasQuorum
  <2> DEFINE For == {v \in Validators : MakeCommit[v] = maj23}
             Q == votesByBlock[maj23].votes
  <2>1. /\ votesByBlock[maj23] \in blockVotes
        /\ quorum <= Power[Q]
        /\ \A v \in Q : votes[v] = maj23
    BY DEF SetIInv, TypeOK, MajorityCanonical, BlockSums
  <2>2. Q \in SUBSET Validators
    BY <2>1 DEF blockVotes
  <2>3. Q \subseteq For
    BY <2>1, <2>2 DEF MakeCommit
  <2>4. Power[Q] \in Nat /\ Power[For] \in Nat /\ Power[Q] <= Power[For]
    BY <2>2, <2>3, PowerAssumption
  <2>5. quorum <= Power[For]
    BY <2>1, <2>4, QuorumType
  <2> HIDE DEF For
  <2>6. Power[Validators] \in Nat
    BY PowerAssumption
  <2>7. 3 * Power[For] > 2 * Power[Validators]
    BY <2>4, <2>5, <2>6 DEF quorum
  <2> QED
    BY <2>7 DEF For
<1> QED
  BY <1>1, SetInvariance, PTL

\* The majority is never withdrawn or replaced, even when double signers give
\* two blocks a quorum.
THEOREM MajorityIsStable == Spec => MajorityStable
<1>1. SetIInv /\ [Next]_vars => [maj23 # None => maj23' = maj23]_vars
  BY Zenon DEF Next, vars, AddFirst, AddConflicting, SetPeerMaj23, crossQuorum
<1> QED
  BY <1>1, SetInvariance, PTL DEF Spec, MajorityStable
-------------------------------------------------------------------------------
(***************************************************************************)
(* What a vote set remembers of the votes it was given, and what it keeps  *)
(* in memory for them.                                                     *)
(***************************************************************************)
\* The validators counted for block b.
Counted(b) == IF votesByBlock[b] = None THEN {} ELSE votesByBlock[b].votes

\* ConflictsReported is not inductive: that a conflict is met again rests on the
\* first vote of a validator being kept, as its canonical vote or under a block
\* it was counted for, and on nothing being kept that was not passed in.
History ==
  /\ \A v \in Validators : votes[v] # None => <<v, votes[v]>> \in delivered
  /\ \A v \in Validators : \A b \in BlockIDs : <<v, b>> \in delivered => votes[v] # None
  /\ \A b \in BlockIDs : \A v \in Counted(b) : <<v, b>> \in delivered
  /\ ConflictsReported

\* A vote counted for a block becomes canonical, or leaves the canonical votes as
\* they are; only the entry of its block changes.
LEMMA Recounted ==
  ASSUME SetIInv, NEW v \in Validators, NEW b \in BlockIDs,
         NEW canonical \in [Validators -> BlockIDs \cup {None}],
         crossQuorum(v, b, canonical)
  PROVE  /\ \A w \in Validators :
              votes'[w] = canonical[w] \/ (votes'[w] = b /\ w \in Counted(b) \cup {v})
         /\ votesByBlock'[b] # None
         /\ votesByBlock'[b].votes = Counted(b) \cup {v}
         /\ votesByBlock'[b].peerMaj23 = (votesByBlock[b] # None /\ votesByBlock[b].peerMaj23)
         /\ \A c \in BlockIDs \ {b} : votesByBlock'[c] = votesByBlock[c]
<1> DEFINE bv == withVote(v, b)
<1>1. bv \in blockVotes /\ bv.votes = Counted(b) \cup {v}
  BY WithVote, Zenon DEF Counted
<1>2. bv.peerMaj23 = (votesByBlock[b] # None /\ votesByBlock[b].peerMaj23)
  <2> DEFINE old == IF votesByBlock[b] = None THEN newBlockVotes(FALSE) ELSE votesByBlock[b]
  <2>1. old \in blockVotes
    BY DEF SetIInv, TypeOK, newBlockVotes, blockVotes
  <2>2. old.peerMaj23 = (votesByBlock[b] # None /\ votesByBlock[b].peerMaj23)
    <3>1. votesByBlock[b] # None => votesByBlock[b].peerMaj23 \in BOOLEAN
      BY Zenon DEF SetIInv, TypeOK, blockVotes
    <3>2. newBlockVotes(FALSE).peerMaj23 = FALSE
      BY DEF newBlockVotes
    <3>3. CASE votesByBlock[b] = None
      BY <3>2, <3>3, Zenon
    <3>4. CASE votesByBlock[b] # None
      BY <3>1, <3>4, Zenon
    <3> QED BY <3>3, <3>4, Zenon
  <2>3. withVote(v, b) = IF v \in old.votes THEN old
                         ELSE [old EXCEPT !.votes = old.votes \cup {v},
                                          !.sum = old.sum + VotingPower[v]]
    BY Zenon DEF withVote
  <2> HIDE DEF old
  <2>4. ASSUME NEW s, NEW n
        PROVE  [old EXCEPT !.votes = s, !.sum = n].peerMaj23 = old.peerMaj23
    BY <2>1 DEF blockVotes
  <2>5. [old EXCEPT !.votes = old.votes \cup {v}, !.sum = old.sum + VotingPower[v]].peerMaj23
          = old.peerMaj23
    BY <2>4, Zenon
  <2>6. bv.peerMaj23 = old.peerMaj23
    BY <2>3, <2>5, Zenon
  <2> QED BY <2>2, <2>6, Zenon
<1>3. /\ votesByBlock' = [votesByBlock EXCEPT ![b] = bv]
      /\ \E first \in BOOLEAN :
           votes' = [w \in Validators |-> IF first /\ w \in bv.votes THEN b ELSE canonical[w]]
  BY Zenon DEF crossQuorum
<1>4. votesByBlock'[b] = bv /\ \A c \in BlockIDs \ {b} : votesByBlock'[c] = votesByBlock[c]
  BY <1>3, Zenon DEF SetIInv, TypeOK
<1>5. bv # None
  BY <1>1, NoneAssumption, Zenon
<1>6. \A w \in Validators :
        votes'[w] = canonical[w] \/ (votes'[w] = b /\ w \in Counted(b) \cup {v})
  BY <1>1, <1>3, Zenon
<1> HIDE DEF bv
<1> QED BY <1>1, <1>2, <1>4, <1>5, <1>6, Zenon

\* What AddVote does to the votes and to the votes per block, conflicting or not.
LEMMA AddedVote ==
  ASSUME SetIInv, NEW v \in Validators, NEW b \in BlockIDs,
         AddFirst(v, b) \/ AddConflicting(v, b)
  PROVE  /\ \A w \in Validators : \/ votes'[w] = votes[w] /\ w # v
                                  \/ votes'[w] = votes[w] /\ votes[w] # None
                                  \/ votes'[w] = b /\ w \in Counted(b) \cup {v}
         /\ \/ votesByBlock' = votesByBlock
            \/ /\ votesByBlock'[b] # None /\ votesByBlock'[b].votes = Counted(b) \cup {v}
               /\ votesByBlock'[b].peerMaj23
                    = (votesByBlock[b] # None /\ votesByBlock[b].peerMaj23)
               /\ AddFirst(v, b) \/ votesByBlock'[b].peerMaj23
               /\ \A c \in BlockIDs \ {b} : votesByBlock'[c] = votesByBlock[c]
         /\ delivered' = delivered \cup {<<v, b>>} /\ peerMaj23s' = peerMaj23s
<1>1. votes \in [Validators -> BlockIDs \cup {None}]
  BY Zenon DEF SetIInv, TypeOK
<1>2. delivered' = delivered \cup {<<v, b>>} /\ peerMaj23s' = peerMaj23s
  BY Zenon DEF AddFirst, AddConflicting
<1>3. CASE AddFirst(v, b)
  <2>1. PICK canonical \in [Validators -> BlockIDs \cup {None}] : canonical = [votes EXCEPT ![v] = b]
    BY <1>1, Zenon
  <2>2. canonical[v] = b /\ \A w \in Validators \ {v} : canonical[w] = votes[w]
    BY <1>1, <2>1, Zenon
  <2>3. crossQuorum(v, b, canonical)
    BY <1>3, <2>1, Zenon DEF AddFirst
  <2>4. /\ \A w \in Validators :
             votes'[w] = canonical[w] \/ (votes'[w] = b /\ w \in Counted(b) \cup {v})
        /\ votesByBlock'[b] # None /\ votesByBlock'[b].votes = Counted(b) \cup {v}
        /\ votesByBlock'[b].peerMaj23 = (votesByBlock[b] # None /\ votesByBlock[b].peerMaj23)
        /\ \A c \in BlockIDs \ {b} : votesByBlock'[c] = votesByBlock[c]
    BY <2>3, Recounted
  <2> QED BY <1>2, <1>3, <2>2, <2>4, Zenon
<1>4. CASE AddConflicting(v, b)
  <2>1. votes[v] # None
    BY <1>4, Zenon DEF AddConflicting
  <2>2. /\ replaced(v, b) \in [Validators -> BlockIDs \cup {None}]
        /\ \A w \in Validators : replaced(v, b)[w] = votes[w] \/ (w = v /\ replaced(v, b)[w] = b)
    BY <1>1, Zenon DEF replaced
  <2>3. CASE votesByBlock[b] # None /\ votesByBlock[b].peerMaj23
    <3>0. PICK canonical \in [Validators -> BlockIDs \cup {None}] : canonical = replaced(v, b)
      BY <2>2, Zenon
    <3>1. crossQuorum(v, b, canonical)
      BY <1>4, <2>3, <3>0, Zenon DEF AddConflicting
    <3>2. /\ \A w \in Validators :
               votes'[w] = canonical[w] \/ (votes'[w] = b /\ w \in Counted(b) \cup {v})
          /\ votesByBlock'[b] # None /\ votesByBlock'[b].votes = Counted(b) \cup {v}
          /\ votesByBlock'[b].peerMaj23 = (votesByBlock[b] # None /\ votesByBlock[b].peerMaj23)
          /\ \A c \in BlockIDs \ {b} : votesByBlock'[c] = votesByBlock[c]
      BY <3>1, Recounted
    <3> QED BY <1>2, <2>1, <2>2, <2>3, <3>0, <3>2, Zenon
  <2>4. CASE ~(votesByBlock[b] # None /\ votesByBlock[b].peerMaj23)
    <3>1. votes' = replaced(v, b) /\ votesByBlock' = votesByBlock
      BY <1>4, <2>4, Zenon DEF AddConflicting
    <3> QED BY <1>2, <2>1, <2>2, <3>1, Zenon
  <2> QED BY <2>3, <2>4, Zenon
<1> QED BY <1>3, <1>4

\* A claim of a peer opens or marks the entry of its block and counts nobody.
LEMMA Claim ==
  ASSUME SetIInv, NEW p \in P2PIDs, NEW b \in BlockIDs, SetPeerMaj23(p, b)
  PROVE  /\ \A c \in BlockIDs : Counted(c)' = Counted(c)
         /\ votesByBlock'[b] # None /\ votesByBlock'[b].peerMaj23 = TRUE
         /\ \A c \in BlockIDs \ {b} : votesByBlock'[c] = votesByBlock[c]
<1> DEFINE new == IF votesByBlock[b] = None THEN newBlockVotes(TRUE)
                  ELSE [votesByBlock[b] EXCEPT !.peerMaj23 = TRUE]
<1>1. votesByBlock' = [votesByBlock EXCEPT ![b] = new]
  BY Zenon DEF SetPeerMaj23
<1>2. new \in blockVotes /\ new.peerMaj23 = TRUE /\ new.votes = Counted(b)
  <2>1. /\ newBlockVotes(TRUE) \in blockVotes /\ newBlockVotes(TRUE).peerMaj23 = TRUE
        /\ newBlockVotes(TRUE).votes = {}
    BY DEF newBlockVotes, blockVotes
  <2>2. votesByBlock[b] # None => votesByBlock[b] \in blockVotes
    BY Zenon DEF SetIInv, TypeOK
  <2>3. ASSUME NEW r \in blockVotes PROVE [r EXCEPT !.peerMaj23 = TRUE].peerMaj23 = TRUE
    BY DEF blockVotes
  <2>4. CASE votesByBlock[b] = None
    BY <2>1, <2>4, Zenon DEF Counted
  <2>5. CASE votesByBlock[b] # None
    BY <2>2, <2>3, <2>5, UpdateClaim, Zenon DEF Counted
  <2> QED BY <2>4, <2>5, Zenon
<1> HIDE DEF new
<1>3. /\ votesByBlock'[b] = new
      /\ \A c \in BlockIDs \ {b} : votesByBlock'[c] = votesByBlock[c]
  BY <1>1, Zenon DEF SetIInv, TypeOK
<1>4. new # None
  BY <1>2, NoneAssumption, Zenon
<1>5. Counted(b)' = Counted(b) /\ \A c \in BlockIDs \ {b} : Counted(c)' = Counted(c)
  BY <1>2, <1>3, <1>4, Zenon DEF Counted
<1> QED BY <1>2, <1>3, <1>4, <1>5, Zenon

LEMMA HistoryInit == Init => History
BY DEF Init, History, Counted, ConflictsReported

LEMMA HistoryNext ==
  ASSUME SetIInv, History, [Next]_vars
  PROVE  History'
<1>1. ASSUME NEW v \in Validators, NEW b \in BlockIDs, AddFirst(v, b) \/ AddConflicting(v, b)
      PROVE  History'
  <2>1. /\ \A w \in Validators : \/ votes'[w] = votes[w] /\ w # v
                                 \/ votes'[w] = votes[w] /\ votes[w] # None
                                 \/ votes'[w] = b /\ w \in Counted(b) \cup {v}
        /\ \/ votesByBlock' = votesByBlock
           \/ /\ votesByBlock'[b] # None /\ votesByBlock'[b].votes = Counted(b) \cup {v}
              /\ \A c \in BlockIDs \ {b} : votesByBlock'[c] = votesByBlock[c]
        /\ delivered' = delivered \cup {<<v, b>>}
    BY <1>1, AddedVote
  <2>2. \A w \in Validators : votes'[w] # None => <<w, votes'[w]>> \in delivered'
    BY <2>1, Zenon DEF History
  <2>3. \A w \in Validators : \A c \in BlockIDs : <<w, c>> \in delivered' => votes'[w] # None
    <3>1. b # None
      BY NoneAssumption, Zenon
    <3>2. ASSUME NEW w \in Validators, NEW c \in BlockIDs, <<w, c>> \in delivered'
          PROVE  votes[w] # None \/ w = v
      BY <2>1, <3>2, Zenon DEF History
    <3> QED BY <2>1, <3>1, <3>2, Zenon
  <2>4. \A c \in BlockIDs : \A w \in Counted(c)' : <<w, c>> \in delivered'
    BY <2>1, Zenon DEF History, Counted
  <2>5. ConflictsReported'
    <3> DEFINE Twice(d, w) == \E x, y \in BlockIDs : x # y /\ <<w, x>> \in d /\ <<w, y>> \in d
    <3>1. \A w \in Validators : w \in conflicts <=> Twice(delivered, w)
      BY Zenon DEF History, ConflictsReported
    <3>2. \A w \in Validators \ {v} : Twice(delivered', w) <=> Twice(delivered, w)
      BY <2>1, Zenon
    <3>3. conflicts \subseteq Validators
      BY Zenon DEF SetIInv, TypeOK
    <3>4. CASE AddFirst(v, b)
      <4>1. votes[v] = None /\ conflicts' = conflicts
        BY <3>4, Zenon DEF AddFirst
      <4>2. \A c \in BlockIDs : <<v, c>> \notin delivered
        BY <4>1, Zenon DEF History
      <4>3. ~Twice(delivered', v) /\ ~Twice(delivered, v)
        BY <2>1, <4>2, Zenon
      <4> QED BY <3>1, <3>2, <3>3, <4>1, <4>3, Zenon DEF ConflictsReported
    <3>5. CASE AddConflicting(v, b)
      <4>1. votes[v] # None /\ votes[v] # b /\ conflicts' = conflicts \cup {v}
        BY <3>5, Zenon DEF AddConflicting, getVote
      <4>2. <<v, votes[v]>> \in delivered /\ votes[v] \in BlockIDs
        BY <4>1, Zenon DEF History, SetIInv, TypeOK
      <4>3. Twice(delivered', v)
        BY <2>1, <4>1, <4>2, Zenon
      <4> QED BY <3>1, <3>2, <3>3, <4>1, <4>3, Zenon DEF ConflictsReported
    <3> QED BY <1>1, <3>4, <3>5, Zenon
  <2> QED BY <2>2, <2>3, <2>4, <2>5, Zenon DEF History
<1>2. ASSUME NEW p \in P2PIDs, NEW b \in BlockIDs, SetPeerMaj23(p, b) PROVE History'
  <2>1. UNCHANGED <<votes, delivered, conflicts>>
    BY <1>2, Zenon DEF SetPeerMaj23
  <2>2. \A c \in BlockIDs : Counted(c)' = Counted(c)
    BY <1>2, Claim, Zenon
  <2> QED BY <2>1, <2>2, Zenon DEF History, ConflictsReported
<1>3. CASE UNCHANGED vars
  BY <1>3, Zenon DEF vars, History, Counted, ConflictsReported
<1> QED BY <1>1, <1>2, <1>3, Zenon DEF Next

\* AddVote returns ErrVoteConflictingVotes for a validator exactly when it was given two
\* different votes of it: no double sign stays unreported, whichever of the votes were
\* counted, made canonical or dropped, and nobody is reported for one vote received twice.
THEOREM ConflictsReportedHolds == Spec => []ConflictsReported
<1>1. Init => SetIInv /\ History
  BY SetInit, HistoryInit
<1>2. SetIInv /\ History /\ [Next]_vars => (SetIInv /\ History)'
  BY SetNext, HistoryNext
<1>3. SetIInv /\ History => ConflictsReported
  BY DEF History
<1> QED BY <1>1, <1>2, <1>3, PTL DEF Spec

\* The bound is inductive once every counted validator is known to have voted
\* (BlockSums) and every claimed block to be tracked: a first vote is then counted for
\* no other block, and a conflicting one only for a block that a peer named.
Tracking ==
  /\ TrackingBounded
  /\ \A b \in BlockIDs : Claimed(b) => votesByBlock[b] # None

LEMMA TrackingInit == Init => Tracking
BY NoneAssumption DEF Init, Tracking, TrackingBounded, Claimed

LEMMA TrackingNext ==
  ASSUME SetIInv, Tracking, [Next]_vars
  PROVE  Tracking'
<1>1. ASSUME NEW v \in Validators, NEW b \in BlockIDs, AddFirst(v, b) \/ AddConflicting(v, b)
      PROVE  Tracking'
  <2>1. /\ \/ votesByBlock' = votesByBlock
           \/ /\ votesByBlock'[b] # None /\ votesByBlock'[b].votes = Counted(b) \cup {v}
              /\ votesByBlock'[b].peerMaj23
                   = (votesByBlock[b] # None /\ votesByBlock[b].peerMaj23)
              /\ AddFirst(v, b) \/ votesByBlock'[b].peerMaj23
              /\ \A c \in BlockIDs \ {b} : votesByBlock'[c] = votesByBlock[c]
        /\ peerMaj23s' = peerMaj23s
    BY <1>1, AddedVote
  <2>2. \A c \in BlockIDs : Claimed(c)' = Claimed(c) /\ Claimed(c) \in BOOLEAN
    BY <2>1, Zenon DEF Claimed
  <2>3. CASE votesByBlock' = votesByBlock
    BY <2>2, <2>3, Zenon DEF Tracking, TrackingBounded
  <2>4. CASE votesByBlock' # votesByBlock
    <3>1. /\ votesByBlock'[b] # None /\ votesByBlock'[b].votes = Counted(b) \cup {v}
          /\ votesByBlock'[b].peerMaj23 = (votesByBlock[b] # None /\ votesByBlock[b].peerMaj23)
          /\ AddFirst(v, b) \/ votesByBlock'[b].peerMaj23
          /\ \A c \in BlockIDs \ {b} : votesByBlock'[c] = votesByBlock[c]
      BY <2>1, <2>4, Zenon
    <3>2. votesByBlock'[b].peerMaj23 = Claimed(b)
      <4>1. CASE votesByBlock[b] # None
        <5>1. votesByBlock[b].peerMaj23 = Claimed(b)
          BY <4>1, Zenon DEF Tracking, TrackingBounded
        <5> QED BY <2>2, <3>1, <4>1, <5>1, Zenon
      <4>2. CASE votesByBlock[b] = None
        <5>1. ~Claimed(b)
          BY <4>2, Zenon DEF Tracking
        <5> QED BY <2>2, <3>1, <4>2, <5>1, Zenon
      <4> QED BY <4>1, <4>2, Zenon
    <3>3. \A c \in BlockIDs : votesByBlock'[c] # None => votesByBlock'[c].peerMaj23 = Claimed(c)
      BY <3>1, <3>2, Zenon DEF Tracking, TrackingBounded
    <3>4. \A c \in BlockIDs :
            votesByBlock'[c] # None /\ ~Claimed(c) => votesByBlock'[c].votes # {}
      BY <3>1, Zenon DEF Tracking, TrackingBounded
    <3>5. ASSUME NEW c \in BlockIDs, c # b, votesByBlock'[c] # None, ~Claimed(b), ~Claimed(c)
          PROVE  votesByBlock'[b].votes \cap votesByBlock'[c].votes = {}
      <4>1. votesByBlock'[c] = votesByBlock[c] /\ votesByBlock[c] # None
        BY <3>1, <3>5, Zenon
      <4>2. votes[v] = None
        BY <3>1, <3>2, <3>5, Zenon DEF AddFirst
      <4>3. v \notin votesByBlock[c].votes
        BY <4>1, <4>2, Zenon DEF SetIInv, BlockSums, Voters
      <4>4. Counted(b) \cap votesByBlock[c].votes = {}
        BY <3>5, <4>1, Zenon DEF Tracking, TrackingBounded, Counted
      <4> QED BY <3>1, <4>1, <4>3, <4>4, Zenon
    <3>6. ASSUME NEW c \in BlockIDs, NEW d \in BlockIDs, c # d, votesByBlock'[c] # None,
                 votesByBlock'[d] # None, ~Claimed(c), ~Claimed(d)
          PROVE  votesByBlock'[c].votes \cap votesByBlock'[d].votes = {}
      <4>1. CASE c = b
        BY <3>5, <3>6, <4>1, Zenon
      <4>2. CASE d = b
        BY <3>5, <3>6, <4>2, Zenon
      <4>3. CASE c # b /\ d # b
        BY <3>1, <3>6, <4>3, Zenon DEF Tracking, TrackingBounded
      <4> QED BY <4>1, <4>2, <4>3, Zenon
    <3>7. \A c \in BlockIDs : Claimed(c) => votesByBlock'[c] # None
      BY <3>1, Zenon DEF Tracking
    <3> QED BY <2>2, <3>3, <3>4, <3>6, <3>7, Zenon DEF Tracking, TrackingBounded
  <2> QED BY <2>3, <2>4, Zenon
<1>2. ASSUME NEW p \in P2PIDs, NEW b \in BlockIDs, SetPeerMaj23(p, b) PROVE Tracking'
  <2>1. /\ \A c \in BlockIDs : Counted(c)' = Counted(c)
        /\ votesByBlock'[b] # None /\ votesByBlock'[b].peerMaj23 = TRUE
        /\ \A c \in BlockIDs \ {b} : votesByBlock'[c] = votesByBlock[c]
    BY <1>2, Claim, Zenon
  <2>2. /\ peerMaj23s[p] = None /\ peerMaj23s \in [P2PIDs -> BlockIDs \cup {None}]
        /\ peerMaj23s' = [peerMaj23s EXCEPT ![p] = b]
    BY <1>2, Zenon DEF SetPeerMaj23, SetIInv, TypeOK
  <2>3. Claimed(b)' = TRUE /\ \A c \in BlockIDs \ {b} : Claimed(c)' = Claimed(c)
    <3>1. peerMaj23s'[p] = b /\ \A q \in P2PIDs \ {p} : peerMaj23s'[q] = peerMaj23s[q]
      BY <2>2, Zenon
    <3> QED BY <2>2, <3>1, NoneAssumption, Zenon DEF Claimed
  <2>4. \A c \in BlockIDs : votesByBlock'[c] # None => votesByBlock'[c].peerMaj23 = Claimed(c)'
    BY <2>1, <2>3, Zenon DEF Tracking, TrackingBounded
  <2>5. \A c \in BlockIDs :
          votesByBlock'[c] # None /\ ~Claimed(c)' => c # b /\ ~Claimed(c)
    BY <2>3, Zenon
  <2>6. \A c \in BlockIDs : votesByBlock'[c] # None /\ ~Claimed(c)' =>
          c # b /\ ~Claimed(c) /\ votesByBlock'[c] = votesByBlock[c]
    BY <2>1, <2>5, Zenon
  <2>7. \A c \in BlockIDs : Claimed(c)' => votesByBlock'[c] # None
    BY <2>1, <2>3, Zenon DEF Tracking
  <2>8. \A c \in BlockIDs : votesByBlock'[c] # None /\ ~Claimed(c)' => votesByBlock'[c].votes # {}
    BY <2>6, Zenon DEF Tracking, TrackingBounded
  <2>9. \A c, d \in BlockIDs :
          c # d /\ votesByBlock'[c] # None /\ votesByBlock'[d] # None /\ ~Claimed(c)' /\ ~Claimed(d)'
            => votesByBlock'[c].votes \cap votesByBlock'[d].votes = {}
    BY <2>6, Zenon DEF Tracking, TrackingBounded
  <2> QED BY <2>4, <2>7, <2>8, <2>9, Zenon DEF Tracking, TrackingBounded
<1>3. CASE UNCHANGED vars
  <2>1. votesByBlock' = votesByBlock /\ \A c \in BlockIDs : Claimed(c)' = Claimed(c)
    BY <1>3, Zenon DEF vars, Claimed
  <2>2. TrackingBounded'
    BY <2>1, ZenonT(60) DEF Tracking, TrackingBounded
  <2> QED BY <2>1, <2>2, Zenon DEF Tracking
<1> QED BY <1>1, <1>2, <1>3, Zenon DEF Next

\* The memory bound the comment of VoteSet promises: a block is tracked only for a peer
\* that named it (once per peer) or for validators that are counted for no other such
\* block, so that however many conflicting votes arrive there are at most as many tracked
\* blocks as peers and validators.
THEOREM TrackingBoundedHolds == Spec => []TrackingBounded
<1>1. Init => SetIInv /\ Tracking
  BY SetInit, TrackingInit
<1>2. SetIInv /\ Tracking /\ [Next]_vars => (SetIInv /\ Tracking)'
  BY SetNext, TrackingNext
<1>3. Tracking => TrackingBounded
  BY DEF Tracking
<1> QED BY <1>1, <1>2, <1>3, PTL DEF Spec
-------------------------------------------------------------------------------
(***************************************************************************)
(* The rounds of a height are kept as State relies on, for any number of   *)
(* peers and rounds.                                                       *)
(***************************************************************************)
\* The round a charged catchup round of peer p is.
Charged(p, i) == peerCatchupRounds[p][i]

\* RoundsKept is not inductive: that SetRound does not panic rests on the tracked
\* round being the one after State's, and that no round is charged twice on every
\* charged round having vote sets.
HVSIInv ==
  /\ HVSTypeOK
  /\ RoundsKept
  /\ round = csRound + 1
  /\ \A p \in Peers : \A i \in 1..Len(peerCatchupRounds[p]) : Charged(p, i) \in roundVoteSets
-------------------------------------------------------------------------------
LEMMA HVSInitIInv == HVSInit => HVSIInv
<1> SUFFICES ASSUME HVSInit PROVE HVSIInv
  OBVIOUS
<1>1. \A p \in Peers : peerCatchupRounds[p] = <<>>
  BY DEF HVSInit
<1>2. HVSTypeOK
  <2>1. peerCatchupRounds \in [Peers -> Seq(VoteRounds)]
    BY DEF HVSInit
  <2>2. round \in 0..MaxRound + 1 /\ roundVoteSets \subseteq -1..MaxRound + 1
    BY MaxRoundAssumption DEF HVSInit
  <2> QED
    BY <2>1, <2>2, Zenon DEF HVSInit, HVSTypeOK
<1>3. RoundsTracked /\ NoRoundPanic /\ POLSeen /\ round = csRound + 1
  BY DEF HVSInit, RoundsTracked, NoRoundPanic, POLSeen
<1>4. CatchupBounded
  BY <1>1 DEF HVSInit, CatchupBounded
<1> QED
  BY <1>1, <1>2, <1>3, <1>4 DEF HVSIInv, RoundsKept

\* enterNewRound leaves no round without vote sets and does not panic.
LEMMA EnterNewRoundIInv ==
  ASSUME HVSIInv, NEW r \in VoteRounds, EnterNewRound(r)
  PROVE  HVSIInv'
<1>1. HVSTypeOK'
  BY MaxRoundAssumption DEF HVSIInv, HVSTypeOK, EnterNewRound, SetRound, VoteRounds
<1>2. round' = csRound' + 1
  BY MaxRoundAssumption DEF EnterNewRound, SetRound, VoteRounds
<1>3. NoRoundPanic'
  BY MaxRoundAssumption DEF HVSIInv, HVSTypeOK, RoundsKept, NoRoundPanic, EnterNewRound, SetRound, VoteRounds
<1>4. RoundsTracked'
  BY MaxRoundAssumption DEF HVSIInv, HVSTypeOK, RoundsKept, RoundsTracked, EnterNewRound, SetRound, VoteRounds
<1>5. CatchupBounded'
  BY MaxRoundAssumption DEF HVSIInv, HVSTypeOK, RoundsKept, CatchupBounded, EnterNewRound, SetRound, VoteRounds
<1>6. POLSeen'
  <2>1. csRound' \in Nat /\ csRound' <= round'
    BY <1>2, MaxRoundAssumption DEF EnterNewRound, VoteRounds
  <2> QED
    BY <2>1 DEF POLSeen, POLInfo
<1>7. \A p \in Peers : \A i \in 1..Len(peerCatchupRounds'[p]) : peerCatchupRounds'[p][i] \in roundVoteSets'
  BY DEF HVSIInv, Charged, EnterNewRound, SetRound
<1> QED
  BY <1>1, <1>2, <1>3, <1>4, <1>5, <1>6, <1>7 DEF HVSIInv, RoundsKept, Charged

\* A vote of a round without vote sets opens one on the account of its peer.
LEMMA AddVoteIInv ==
  ASSUME HVSIInv, NEW p \in Peers, NEW r \in VoteRounds, NEW polka \in BOOLEAN, AddVote(p, r, polka)
  PROVE  HVSIInv'
<1>1. csRound' = csRound /\ round' = round /\ panicked' = panicked
  BY DEF AddVote
<1>2. HVSTypeOK'
  <2>1. r \in -1..MaxRound + 1
    BY MaxRoundAssumption DEF VoteRounds
  <2>2. roundVoteSets' \subseteq -1..MaxRound + 1 /\ majorities' \subseteq VoteRounds
    BY <2>1, Zenon DEF HVSIInv, HVSTypeOK, AddVote
  <2>3. peerCatchupRounds' \in [Peers -> Seq(VoteRounds)]
    <3>1. peerCatchupRounds[p] \in Seq(VoteRounds)
      BY DEF HVSIInv, HVSTypeOK
    <3>2. Append(peerCatchupRounds[p], r) \in Seq(VoteRounds)
      BY <3>1
    <3> QED
      BY <3>2 DEF HVSIInv, HVSTypeOK, AddVote
  <2> QED
    BY <1>1, <2>2, <2>3 DEF HVSIInv, HVSTypeOK
<1>3. RoundsTracked' /\ NoRoundPanic'
  BY <1>1 DEF HVSIInv, RoundsKept, RoundsTracked, NoRoundPanic, AddVote
<1>4. POLSeen'
  BY <1>1, <1>2, MaxRoundAssumption DEF HVSIInv, HVSTypeOK, POLSeen, POLInfo, VoteRounds
<1>5. CASE UNCHANGED <<roundVoteSets, peerCatchupRounds>>
  <2>1. CatchupBounded' /\ \A q \in Peers : \A i \in 1..Len(peerCatchupRounds'[q]) :
                             peerCatchupRounds'[q][i] \in roundVoteSets'
    BY <1>1, <1>5 DEF HVSIInv, RoundsKept, CatchupBounded, Charged
  <2> QED
    BY <1>1, <1>2, <1>3, <1>4, <2>1 DEF HVSIInv, RoundsKept, Charged
<1>6. CASE /\ r \notin roundVoteSets
           /\ catchup(p)
           /\ roundVoteSets' = roundVoteSets \cup {r}
           /\ peerCatchupRounds' = [peerCatchupRounds EXCEPT ![p] = Append(@, r)]
  <2> DEFINE s(q) == peerCatchupRounds[q]
  <2>1. \A q \in Peers : s(q) \in Seq(VoteRounds) /\ Len(s(q)) \in Nat /\ Len(s(q)) <= 2
    BY DEF HVSIInv, HVSTypeOK, RoundsKept, CatchupBounded
  <2>2. /\ Len(s(p)) < 2 /\ Len(s(p)') = Len(s(p)) + 1 /\ s(p)'[Len(s(p)) + 1] = r
        /\ \A i \in 1..Len(s(p)) : s(p)'[i] = s(p)[i]
    BY <1>6, <2>1 DEF HVSIInv, HVSTypeOK, catchup
  <2>3. \A q \in Peers : q # p => s(q)' = s(q)
    BY <1>6 DEF HVSIInv, HVSTypeOK
  <2>4. \A q \in Peers : \A i \in 1..Len(s(q)) : s(q)[i] \in roundVoteSets /\ s(q)[i] # r
    BY <1>6, Zenon DEF HVSIInv, Charged
  <2>5. \A q \in Peers : \A i \in 1..Len(s(q)') :
          \/ i \in 1..Len(s(q)) /\ s(q)'[i] = s(q)[i]
          \/ q = p /\ i = Len(s(p)) + 1 /\ s(q)'[i] = r
    BY <2>1, <2>2, <2>3
  <2>6. \A q \in Peers : Len(s(q)') <= 2
    BY <2>1, <2>2, <2>3
  <2>7. \A x \in roundVoteSets' : x > round =>
          \E q \in Peers : \E i \in 1..Len(s(q)') : s(q)'[i] = x
    <3> SUFFICES ASSUME NEW x \in roundVoteSets', x > round
                 PROVE  \E q \in Peers : \E i \in 1..Len(s(q)') : s(q)'[i] = x
      BY Zenon
    <3>1. CASE x = r
      BY <3>1, <2>1, <2>2
    <3>2. CASE x \in roundVoteSets
      <4>1. PICK q \in Peers : \E i \in 1..Len(s(q)) : s(q)[i] = x
        BY <3>2 DEF HVSIInv, RoundsKept, CatchupBounded
      <4>2. PICK i \in 1..Len(s(q)) : s(q)[i] = x
        BY <4>1, Zenon
      <4>3. i \in 1..Len(s(q)') /\ s(q)'[i] = x
        BY <4>2, <2>1, <2>2, <2>3
      <4> QED
        BY <4>3
    <3> QED
      BY <1>6, <3>1, <3>2, Zenon
  <2>8. \A q1, q2 \in Peers : \A i \in 1..Len(s(q1)'), j \in 1..Len(s(q2)') :
          s(q1)'[i] = s(q2)'[j] => q1 = q2 /\ i = j
    <3> SUFFICES ASSUME NEW q1 \in Peers, NEW q2 \in Peers,
                        NEW i \in 1..Len(s(q1)'), NEW j \in 1..Len(s(q2)'),
                        s(q1)'[i] = s(q2)'[j]
                 PROVE  q1 = q2 /\ i = j
      BY Zenon
    <3>1. CASE i \in 1..Len(s(q1)) /\ j \in 1..Len(s(q2)) /\ s(q1)[i] = s(q2)[j]
      BY <3>1 DEF HVSIInv, RoundsKept, CatchupBounded
    <3> QED
      BY <2>4, <2>5, <3>1
  <2>9. \A q \in Peers : \A i \in 1..Len(s(q)') : s(q)'[i] \in roundVoteSets'
    BY <1>6, <2>4, <2>5
  <2>10. CatchupBounded'
    BY <1>1, <2>6, <2>7, <2>8 DEF CatchupBounded
  <2> QED
    BY <1>1, <1>2, <1>3, <1>4, <2>9, <2>10, Zenon DEF HVSIInv, RoundsKept, Charged
<1> QED
  BY <1>5, <1>6 DEF AddVote

\* Whatever votes arrive and whatever rounds are entered, in any order: SetRound
\* does not panic, the rounds up to the tracked one have vote sets, each round
\* beyond it is charged once to a peer that has at most two, and POLInfo sees the
\* majority of the round State is in.
THEOREM RoundsKeptHolds == HVSSpec => []RoundsKept
<1>1. HVSIInv /\ [HVSNext]_hvsVars => HVSIInv'
  <2> SUFFICES ASSUME HVSIInv, [HVSNext]_hvsVars PROVE HVSIInv'
    OBVIOUS
  <2>1. CASE UNCHANGED hvsVars
    BY <2>1 DEF hvsVars, HVSIInv, HVSTypeOK, RoundsKept, NoRoundPanic, RoundsTracked,
                CatchupBounded, POLSeen, POLInfo, Charged
  <2> QED
    BY <2>1, EnterNewRoundIInv, AddVoteIInv, Zenon DEF HVSNext
<1>2. HVSIInv => RoundsKept
  BY Zenon DEF HVSIInv
<1> QED
  BY <1>1, <1>2, HVSInitIInv, PTL DEF HVSSpec
-------------------------------------------------------------------------------
(***************************************************************************)
(* Agreement of the voting rules, for any number of validators and rounds  *)
(* and any distribution of power with less than a third of it faulty.      *)
(*                                                                         *)
(* The heart of the inductive invariant is PolkaBlocks: a polka of a round *)
(* means that nothing else can be decided in any earlier round any more,   *)
(* because a quorum has passed that round without precommitting it.  When  *)
(* a new polka forms, either its voters are that quorum, or one of them    *)
(* was locked and an older polka released it.                              *)
(***************************************************************************)
prevote(v, r, b)   == [type |-> "prevote", round |-> r, val |-> v, block |-> b]
precommit(v, r, b) == [type |-> "precommit", round |-> r, val |-> v, block |-> b]

\* The votes of a correct validator are ordered.
VotesOrdered ==
  \A w, m \in cast : w.val \in Correct /\ m.val = w.val /\ w # m => Before(w, m) \/ Before(m, w)

\* A correct validator precommits a block on a polka of the same round.
PrecommitsJustified ==
  \A w \in cast : w.val \in Correct /\ w.type = "precommit" /\ w.block \in Blocks =>
    Polka(cast, w.round, w.block)

\* A correct validator prevotes against an earlier precommit on a polka.
LocksRespected ==
  \A w, m \in cast :
    /\ w.val \in Correct /\ m.val = w.val
    /\ w.type = "precommit" /\ w.block \in Blocks
    /\ m.type = "prevote" /\ m.block # w.block /\ w.round < m.round
    => \E q \in (w.round + 1)..m.round : \E c \in BlockIDs \ {w.block} : Polka(cast, q, c)

\* v has not precommitted b in round r and never will.
Passed(v, r, b) ==
  /\ precommit(v, r, b) \notin cast
  /\ \E m \in cast : m.val = v /\ m.type = "prevote" /\ m.round > r

Blocked(b, r) ==
  \E Q \in SUBSET Validators : Quorum(Q) /\ \A v \in Q \cap Correct : Passed(v, r, b)

PolkaBlocks ==
  \A r, q \in Rounds : \A b \in Blocks : \A c \in BlockIDs :
    r < q /\ c # b /\ Polka(cast, q, c) => Blocked(b, r)

VotingIInv == VotingTypeOK /\ VotesOrdered /\ PrecommitsJustified /\ LocksRespected /\ PolkaBlocks
-------------------------------------------------------------------------------
\* Two quorums have a correct validator in common.
LEMMA QuorumIntersection ==
  ASSUME NEW P \in SUBSET Validators, NEW Q \in SUBSET Validators, Quorum(P), Quorum(Q)
  PROVE  \E v \in P \cap Q : v \in Correct
<1> SUFFICES ASSUME \A v \in P \cap Q : v \notin Correct PROVE FALSE
  OBVIOUS
<1>1. P \cap Q \subseteq Faulty
  BY DEF Correct
<1>2. Power[P \cap Q] <= Power[Faulty] /\ Power[P \cup Q] <= Power[Validators]
  BY <1>1, VotingAssumption
<1>3. /\ Power[P \cap Q] \in Nat /\ Power[P \cup Q] \in Nat /\ Power[P] \in Nat
      /\ Power[Q] \in Nat /\ Power[Faulty] \in Nat /\ Power[Validators] \in Nat
  BY VotingAssumption
<1>4. Power[P \cup Q] + Power[P \cap Q] = Power[P] + Power[Q]
  BY VotingAssumption, Zenon
<1>5. 3 * Power[Faulty] < Power[Validators]
  BY VotingAssumption
<1>6. /\ (Power[Validators] * 2) \div 3 < Power[P]
      /\ (Power[Validators] * 2) \div 3 < Power[Q]
  BY DEF Quorum
<1> QED
  BY <1>2, <1>3, <1>4, <1>5, <1>6

\* More voters keep a quorum, and more votes keep a polka.
LEMMA PolkaMonotone ==
  ASSUME NEW V, NEW W, V \subseteq W, NEW r, NEW b, Polka(V, r, b)
  PROVE  Polka(W, r, b)
<1> DEFINE S == VotersFor(V, "prevote", r, b)
           T == VotersFor(W, "prevote", r, b)
<1>1. S \in SUBSET Validators /\ T \in SUBSET Validators /\ S \subseteq T
  BY DEF VotersFor
<1> HIDE DEF S, T
<1>2. Power[S] \in Nat /\ Power[T] \in Nat /\ Power[S] <= Power[T] /\ Power[Validators] \in Nat
  BY <1>1, VotingAssumption
<1>3. Quorum(S)
  BY DEF Polka, S
<1>4. Quorum(T)
  BY <1>2, <1>3 DEF Quorum
<1> QED
  BY <1>4 DEF Polka, T

\* A polka is one of a round that votes are cast in.
LEMMA PolkaRound ==
  ASSUME VotingTypeOK, NEW r, NEW b, Polka(cast, r, b)
  PROVE  r \in Rounds
<1> DEFINE S == VotersFor(cast, "prevote", r, b)
<1>1. S \in SUBSET Validators /\ Quorum(S)
  BY DEF VotersFor, Polka
<1>2. PICK v \in S : TRUE
  BY <1>1, QuorumIntersection
<1>3. prevote(v, r, b) \in Votes
  BY <1>2 DEF VotersFor, prevote, VotingTypeOK
<1> QED
  BY <1>3 DEF Votes, prevote

LEMMA VotingInitIInv == VotingInit => VotingIInv
<1> SUFFICES ASSUME VotingInit PROVE VotingIInv
  OBVIOUS
<1>1. \A w \in cast : w \in Votes /\ w.val \notin Correct
  BY DEF VotingInit, Correct
<1>2. VotingTypeOK /\ VotesOrdered /\ PrecommitsJustified /\ LocksRespected
  BY <1>1 DEF VotingTypeOK, VotesOrdered, PrecommitsJustified, LocksRespected
<1>3. \A q \in Rounds : \A c \in BlockIDs : ~Polka(cast, q, c)
  <2> SUFFICES ASSUME NEW q \in Rounds, NEW c \in BlockIDs, Polka(cast, q, c) PROVE FALSE
    OBVIOUS
  <2> DEFINE S == VotersFor(cast, "prevote", q, c)
  <2>1. S \in SUBSET Validators /\ Quorum(S)
    BY DEF VotersFor, Polka
  <2>2. PICK v \in S : v \in Correct
    BY <2>1, QuorumIntersection
  <2>3. prevote(v, q, c) \in cast /\ prevote(v, q, c).val = v
    BY <2>2 DEF VotersFor, prevote
  <2> QED
    BY <2>2, <2>3, <1>1
<1>4. PolkaBlocks
  BY <1>3, Zenon DEF PolkaBlocks
<1> QED
  BY <1>2, <1>4 DEF VotingIInv
-------------------------------------------------------------------------------
\* A round that is blocked for a block stays so: whoever passed it votes later.
LEMMA BlockedStable ==
  ASSUME VotingIInv, NEW m \in Votes, Cast(m), NEW b \in Blocks, NEW r \in Rounds, Blocked(b, r)
  PROVE  Blocked(b, r)'
<1>1. PICK Q \in SUBSET Validators : Quorum(Q) /\ \A v \in Q \cap Correct : Passed(v, r, b)
  BY DEF Blocked
<1>2. cast' = cast \cup {m} /\ \A w \in Mine(m.val) : Before(w, m)
  BY Zenon DEF Cast, Allowed
<1>3. ASSUME NEW v \in Q \cap Correct PROVE Passed(v, r, b)'
  <2>1. precommit(v, r, b) \notin cast
    BY <1>1 DEF Passed
  <2>2. PICK x \in cast : x.val = v /\ x.type = "prevote" /\ x.round > r
    BY <1>1 DEF Passed
  <2>3. m # precommit(v, r, b)
    <3> SUFFICES ASSUME m = precommit(v, r, b) PROVE FALSE
      OBVIOUS
    <3>1. m.val = v /\ m.round = r
      BY DEF precommit
    <3>2. Before(x, m)
      BY <3>1, <2>2, <1>2 DEF Mine
    <3>3. x.round \in Nat /\ r \in Nat
      BY <2>2, VotingAssumption DEF VotingIInv, VotingTypeOK, Votes
    <3> QED
      BY <3>1, <3>2, <3>3, <2>2 DEF Before
  <2> QED
    BY <2>1, <2>2, <2>3, <1>2 DEF Passed, precommit
<1>4. Quorum(Q)' = Quorum(Q)
  BY DEF Quorum
<1> QED
  BY <1>1, <1>3, <1>4 DEF Blocked, Quorum, Correct

LEMMA CastOrdered ==
  ASSUME VotingIInv, NEW m \in Votes, Cast(m)
  PROVE  VotesOrdered' /\ PrecommitsJustified' /\ LocksRespected'
<1>1. cast' = cast \cup {m} /\ \A w \in Mine(m.val) : Before(w, m)
  BY DEF Cast, Allowed
<1>2. VotesOrdered'
  BY <1>1 DEF VotingIInv, VotesOrdered, Mine
<1>3. \A r, b : Polka(cast, r, b) => Polka(cast', r, b)
  BY <1>1, PolkaMonotone
<1>4. PrecommitsJustified'
  <2> SUFFICES ASSUME NEW w \in cast', w.val \in Correct, w.type = "precommit", w.block \in Blocks
               PROVE  Polka(cast, w.round, w.block)
    BY <1>3 DEF PrecommitsJustified
  <2>1. CASE w \in cast
    BY <2>1 DEF VotingIInv, PrecommitsJustified
  <2>2. CASE w = m
    BY <2>2 DEF Cast, Allowed
  <2> QED
    BY <2>1, <2>2, <1>1
<1>5. LocksRespected'
  <2> SUFFICES ASSUME NEW w \in cast', NEW x \in cast',
                      w.val \in Correct, x.val = w.val,
                      w.type = "precommit", w.block \in Blocks,
                      x.type = "prevote", x.block # w.block, w.round < x.round
               PROVE  \E q \in (w.round + 1)..x.round : \E c \in BlockIDs \ {w.block} :
                        Polka(cast, q, c)
    BY <1>3 DEF LocksRespected
  <2>1. w \in Votes /\ x \in Votes
    BY <1>1 DEF VotingIInv, VotingTypeOK
  <2>2. w.round \in Nat /\ x.round \in Nat
    BY <2>1, VotingAssumption DEF Votes
  <2>3. CASE w \in cast /\ x \in cast
    BY <2>3, Zenon DEF VotingIInv, LocksRespected
  <2>4. CASE w = m /\ x \in cast
    BY <2>2, <2>4, <1>1 DEF Mine, Before, Step
  <2>5. CASE w \in cast /\ x = m
    BY <2>5 DEF Cast, Allowed, Unlocked, Mine
  <2>6. CASE w = m /\ x = m
    BY <2>6
  <2> QED
    BY <2>3, <2>4, <2>5, <2>6, <1>1
<1> QED
  BY <1>2, <1>4, <1>5

LEMMA CastBlocks ==
  ASSUME VotingIInv, NEW m \in Votes, Cast(m)
  PROVE  PolkaBlocks'
<1> SUFFICES ASSUME NEW r \in Rounds, NEW q \in Rounds, NEW b \in Blocks, NEW c \in BlockIDs,
                    r < q, c # b, Polka(cast', q, c)
             PROVE  Blocked(b, r)'
  BY DEF PolkaBlocks
<1>1. cast' = cast \cup {m} /\ m.val \in Correct /\ Allowed(Mine(m.val), cast, m)
  BY DEF Cast
<1>2. r \in Nat /\ q \in Nat
  BY VotingAssumption
<1>3. ASSUME NEW p \in (r + 1)..q, NEW d \in BlockIDs \ {b}, Polka(cast, p, d)
      PROVE  Blocked(b, r)'
  <2>1. p \in Rounds
    BY <1>3, PolkaRound DEF VotingIInv
  <2>2. r < p
    BY <1>2
  <2>3. Blocked(b, r)
    BY <1>3, <2>1, <2>2 DEF VotingIInv, PolkaBlocks
  <2> QED
    BY <2>3, BlockedStable
<1> DEFINE Q == VotersFor(cast', "prevote", q, c)
<1>4. Q \in SUBSET Validators /\ Quorum(Q)
  BY DEF VotersFor, Polka
<1>5. \A v \in Q : prevote(v, q, c) \in cast'
  BY Zenon DEF VotersFor, prevote
<1>6. CASE \E w \in Q \cap Correct : precommit(w, r, b) \in cast'
  <2>1. PICK w \in Q \cap Correct : precommit(w, r, b) \in cast'
    BY <1>6
  <2> DEFINE x == prevote(w, q, c)
             y == precommit(w, r, b)
  <2>2. /\ x.val = w /\ x.type = "prevote" /\ x.round = q /\ x.block = c
        /\ y.val = w /\ y.type = "precommit" /\ y.round = r /\ y.block = b
        /\ x \in cast' /\ y \in cast' /\ x # y
    BY <2>1, <1>5 DEF prevote, precommit
  <2> HIDE DEF x, y
  <2>3. y \in cast
    <3> SUFFICES ASSUME y = m PROVE FALSE
      BY <2>2, <1>1, Zenon
    <3>1. x \in Mine(m.val)
      BY <2>2, <1>1 DEF Mine
    <3>2. Before(x, y)
      BY <3>1, <1>1 DEF Allowed
    <3> QED
      BY <3>2, <2>2, <1>2 DEF Before, Step
  <2>4. \E p \in (r + 1)..q : \E d \in BlockIDs \ {b} : Polka(cast, p, d)
    <3>1. CASE x \in cast
      BY <3>1, <2>1, <2>2, <2>3 DEF VotingIInv, LocksRespected
    <3>2. CASE x = m
      <4>1. Unlocked(Mine(w), cast, q, c) /\ y \in Mine(w)
        BY <3>2, <2>2, <2>3, <1>1, Zenon DEF Allowed, Mine
      <4> QED
        BY <4>1, <2>2 DEF Unlocked
    <3> QED
      BY <3>1, <3>2, <2>2, <1>1
  <2> QED
    BY <2>4, <1>3
<1>7. CASE \A w \in Q \cap Correct : precommit(w, r, b) \notin cast'
  <2>1. ASSUME NEW v \in Q \cap Correct PROVE Passed(v, r, b)'
    <3>1. prevote(v, q, c) \in cast'
      BY <1>5, Zenon
    <3>2. /\ prevote(v, q, c).val = v /\ prevote(v, q, c).type = "prevote"
          /\ prevote(v, q, c).round > r
      BY <1>2 DEF prevote
    <3> QED
      BY <3>1, <3>2, <1>7 DEF Passed, precommit
  <2> HIDE DEF Q
  <2> QED
    BY <2>1, <1>4, Zenon DEF Blocked, Quorum, Correct
<1> QED
  BY <1>6, <1>7

LEMMA VotingNextIInv == VotingIInv /\ [VotingNext]_cast => VotingIInv'
<1> SUFFICES ASSUME VotingIInv, [VotingNext]_cast PROVE VotingIInv'
  OBVIOUS
<1>1. ASSUME NEW m \in Votes, Cast(m) PROVE VotingIInv'
  <2>1. VotingTypeOK'
    BY <1>1, Zenon DEF Cast, VotingIInv, VotingTypeOK
  <2> QED
    BY <1>1, <2>1, CastOrdered, CastBlocks DEF VotingIInv
<1>2. CASE UNCHANGED cast
  BY <1>2 DEF VotingIInv, VotingTypeOK, VotesOrdered, PrecommitsJustified, LocksRespected, PolkaBlocks,
              Blocked, Passed
<1> QED
  BY <1>1, <1>2 DEF VotingNext

\* The invariant holds in every reachable state.
THEOREM VotingInvariance == VotingSpec => []VotingIInv
  BY VotingInitIInv, VotingNextIInv, PTL DEF VotingSpec

\* Two correct nodes that finalizeCommit blocks at one height commit the same
\* block: no two blocks ever gather a quorum of precommits.
THEOREM AgreementHolds == VotingSpec => []Agreement
<1>1. VotingIInv => Agreement
  <2> SUFFICES ASSUME VotingIInv, NEW b \in Blocks, NEW c \in Blocks, Decided(b), Decided(c), b # c
               PROVE  FALSE
    BY DEF Agreement
  <2>1. PICK r \in Rounds : Quorum(VotersFor(cast, "precommit", r, b))
    BY DEF Decided
  <2>2. PICK s \in Rounds : Quorum(VotersFor(cast, "precommit", s, c))
    BY Zenon DEF Decided
  <2>3. ASSUME NEW p \in Rounds, NEW q \in Rounds, NEW d \in Blocks, NEW e \in Blocks,
               d # e, p < q,
               Quorum(VotersFor(cast, "precommit", p, d)),
               Quorum(VotersFor(cast, "precommit", q, e))
        PROVE  FALSE
    <3> DEFINE P == VotersFor(cast, "precommit", p, d)
               R == VotersFor(cast, "precommit", q, e)
    <3>1. P \in SUBSET Validators /\ R \in SUBSET Validators
      BY DEF VotersFor
    <3>2. PICK v \in R : v \in Correct
      BY <3>1, <2>3, QuorumIntersection
    <3>3. precommit(v, q, e) \in cast
      BY <3>2, Zenon DEF VotersFor, precommit
    <3>4. Polka(cast, q, e)
      BY <3>2, <3>3 DEF VotingIInv, PrecommitsJustified, precommit
    <3>5. Blocked(d, p)
      BY <2>3, <3>4 DEF VotingIInv, PolkaBlocks, BlockIDs
    <3>6. PICK Q \in SUBSET Validators : Quorum(Q) /\ \A w \in Q \cap Correct : Passed(w, p, d)
      BY <3>5 DEF Blocked
    <3>7. PICK w \in P \cap Q : w \in Correct
      BY <3>1, <3>6, <2>3, QuorumIntersection, Zenon
    <3> QED
      BY <3>6, <3>7 DEF VotersFor, Passed, precommit
  <2>4. CASE r = s
    <3> DEFINE P == VotersFor(cast, "precommit", r, b)
               R == VotersFor(cast, "precommit", r, c)
    <3>1. P \in SUBSET Validators /\ R \in SUBSET Validators
      BY DEF VotersFor
    <3>2. PICK v \in P \cap R : v \in Correct
      BY <3>1, <2>1, <2>2, <2>4, QuorumIntersection
    <3>3. /\ precommit(v, r, b) \in cast /\ precommit(v, r, c) \in cast
          /\ precommit(v, r, b) # precommit(v, r, c)
      BY <3>2, Zenon DEF VotersFor, precommit
    <3>4. Before(precommit(v, r, b), precommit(v, r, c)) \/ Before(precommit(v, r, c), precommit(v, r, b))
      BY <3>2, <3>3 DEF VotingIInv, VotesOrdered, precommit
    <3>5. r \in Nat
      BY VotingAssumption
    <3> QED
      BY <3>4, <3>5 DEF Before, Step, precommit
  <2>5. r \in Nat /\ s \in Nat
    BY VotingAssumption
  <2>6. CASE r < s
    BY <2>1, <2>2, <2>3, <2>6
  <2>7. CASE s < r
    BY <2>1, <2>2, <2>3, <2>7
  <2> QED
    BY <2>4, <2>5, <2>6, <2>7
<1> QED
  BY <1>1, VotingInvariance, PTL
===============================================================================
