-------------------------------- MODULE MCVotes -------------------------------
(***************************************************************************)
(* Small instances of VoteSet and of Voting.  They share the validators    *)
(* and no state, and one of them takes steps.                              *)
(***************************************************************************)
EXTENDS VoteSet, Voting, FiniteSets, FiniteSetsExt, TLC

CONSTANTS v1, v2, v3, v4, A, B, p1, p2

\* Total 7, quorum 5: three validators, v1 one of them or not.
MCVotingPower == v1 :> 1 @@ v2 :> 2 @@ v3 :> 2 @@ v4 :> 2

MCPower == [S \in SUBSET Validators |-> MapThenSumSet(LAMBDA v : VotingPower[v], S)]

MCSymmetry ==
  Permutations({v2, v3, v4}) \cup Permutations({A, B}) \cup Permutations({p1, p2})

VARIABLE which  \* the instance that takes steps

GroupInit ==
  /\ which \in {"set", "all"}
  /\ Init
  /\ IF which = "all" THEN VotingInit ELSE cast = {}

GroupNext ==
  /\ UNCHANGED which
  /\ \/ which = "set" /\ Next /\ UNCHANGED cast
     \/ which = "all" /\ VotingNext /\ UNCHANGED vars

GroupSpec == GroupInit /\ [][GroupNext]_<<which, vars, cast>>
===============================================================================
