------------------------------ MODULE VotingRules ------------------------------
(***************************************************************************)
(* The rules by which a correct validator votes within one height, as      *)
(* operators on sets of votes: what internal/consensus/state.go comes down *)
(* to for agreement.  Voter is one validator that follows them, and        *)
(* ConsensusState is checked to implement Voter; Voting is all of them.    *)
(***************************************************************************)
EXTENDS Integers, Electorate

Step(m) == IF m.type = "prevote" THEN 1 ELSE 2

\* VoteSet's quorum, TotalVotingPower() * 2 / 3 + 1.
Quorum(S) == (Power[Validators] * 2) \div 3 < Power[S]

\* The validators whose vote of this type, round and block is in V.
VotersFor(V, type, r, b) ==
  {v \in Validators : [type |-> type, round |-> r, val |-> v, block |-> b] \in V}

Polka(V, r, b) == Quorum(VotersFor(V, "prevote", r, b))

\* A validator votes in order of round and step, once in each (CompareHRS).
Before(w, m) == w.round < m.round \/ (w.round = m.round /\ Step(w) < Step(m))

\* Mutant: a lock is given up without a polka for something else.
Unlocked_Always(mine, V, r, b) == TRUE

\* Locking: after a precommit for a block, anything else is prevoted only once
\* there is a polka for something else from a round after the precommit.
Unlocked(mine, V, r, b) ==
  \A w \in mine :
    w.type = "precommit" /\ w.block \in Blocks /\ w.block # b =>
      \E q \in (w.round + 1)..r : \E c \in BlockIDs \ {w.block} : Polka(V, q, c)

\* A validator that cast the votes mine and knows the votes V may cast m.
Allowed(mine, V, m) ==
  /\ \A w \in mine : Before(w, m)
  /\ m.type = "prevote" => Unlocked(mine, V, m.round, m.block)
  /\ m.type = "precommit" /\ m.block \in Blocks => Polka(V, m.round, m.block)
===============================================================================
