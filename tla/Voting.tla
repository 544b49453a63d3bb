-------------------------------- MODULE Voting --------------------------------
(***************************************************************************)
(* All validators at one height.  The correct ones cast votes one at a     *)
(* time by VotingRules; the faulty ones have cast every vote there is from *)
(* the start, which is the most they can do (more votes only allow more).  *)
(* A block is decided when a quorum precommits it in one round, which is   *)
(* when finalizeCommit commits it.                                         *)
(***************************************************************************)
EXTENDS VotingRules, FaultyValidators

Votes == [type : {"prevote", "precommit"}, round : Rounds, val : Validators, block : BlockIDs]

Correct == Validators \ Faulty

VARIABLE cast    \* the votes cast so far

Mine(v) == {w \in cast : w.val = v}

VotingInit == cast = {m \in Votes : m.val \in Faulty}

Cast(m) ==
  /\ m.val \in Correct
  /\ Allowed(Mine(m.val), cast, m)
  /\ cast' = cast \cup {m}

VotingNext == \E m \in Votes : Cast(m)

VotingSpec == VotingInit /\ [][VotingNext]_cast
-------------------------------------------------------------------------------
\* Only votes of known validators, rounds and block IDs are cast.
VotingTypeOK == cast \subseteq Votes

Decided(b) == \E r \in Rounds : Quorum(VotersFor(cast, "precommit", r, b))

\* No two blocks are decided at one height, while less than a third of the
\* power is faulty: across rounds, with votes known to some validators only and
\* locks taken, released and taken again.
Agreement == \A b, c \in Blocks : Decided(b) /\ Decided(c) => b = c
===============================================================================
