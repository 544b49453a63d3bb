------------------------ MODULE ConsensusSteps_proofs -------------------------
(***************************************************************************)
(* enterPrecommit, enterCommit and what follows a commit, and what is done *)
(* with a proposal, a block part and a vote that completes a polka or a    *)
(* majority: each leads from a round state that satisfies Good to one that *)
(* does, and forward.                                                      *)
(***************************************************************************)
EXTENDS ConsensusInvariant_proofs

\* u differs from s in the lock, the proposal and the valid block only, or in the first
\* two only.
Kept(s, u) ==
  /\ u.height = s.height /\ u.prevotes = s.prevotes /\ u.precommits = s.precommits
  /\ u.lastCommit = s.lastCommit /\ u.refused = s.refused /\ u.commitRound = s.commitRound
  /\ u.round = s.round /\ u.step = s.step /\ u.signed = s.signed /\ u.tock = s.tock

Relocked(s, u) == Kept(s, u) /\ u.validRound = s.validRound /\ u.validBlock = s.validBlock

\* A precommit for c keeps the lock or releases it and is for nil, or takes the lock.
LockFor(s, u, c) ==
  \/ u.lockedRound = s.lockedRound /\ u.lockedBlock = s.lockedBlock /\ c = Nil
  \/ /\ u.lockedBlock = None /\ c = Nil
     /\ \E d \in BlockIDs : d # s.lockedBlock /\ HasMajority(s.prevotes[s.round], d)
  \/ /\ u.lockedRound = s.round /\ u.lockedBlock = c /\ c \in Blocks
     /\ HasMajority(s.prevotes[s.round], c)

\* The last part of enterPrecommit: a precommit for c is signed in a state u that differs
\* from s in the lock and the proposal block only.
LEMMA Precommits ==
  ASSUME NEW s, Good(s), s.step < Precommit, NEW u \in RoundState, NEW c \in BlockIDs,
         Relocked(s, u), LockFor(s, u, c)
  PROVE  Enters(s, Moved(signAddVote(u, "precommit", c), s.round, Precommit))
<1>0. s \in RoundState /\ s.round \in Rounds /\ s.round \in Nat /\ s.step \in 1..8 /\ Precommit \in Steps
  BY Fields, StepValues, Zenon DEF Good
<1>1. PICK m : m = OwnVote(s, "precommit", c)
  BY Zenon
<1>2. m \in Votes /\ m.type = "precommit" /\ m.round = s.round /\ m.block = c
  <2>1. PICK p \in {"prevote", "precommit"} : p = "precommit"
    BY Zenon
  <2>2. m = OwnVote(s, p, c)
    BY <1>1, <2>1, Zenon
  <2>3. s \in RoundState
    BY <1>0
  <2>4. /\ OwnVote(s, p, c) \in Votes /\ OwnVote(s, p, c).type = p
        /\ OwnVote(s, p, c).round = s.round /\ OwnVote(s, p, c).block = c
    BY <2>3, OwnVoteFields
  <2> QED BY <2>1, <2>2, <2>4, Zenon
<1>3. MsgStep(m) = Precommit /\ After(s, m)
  BY <1>2, MessageFields, Zenon DEF After
<1>4. signAddVote(u, "precommit", c) = Added(u, m, {m})
  BY <1>1, <1>3, SignsVote, Zenon DEF Relocked, Kept
<1>5. PICK b : b = Added(u, m, {m})
  BY Zenon
<1>6. PICK t : t = Moved(b, s.round, Precommit)
  BY Zenon
<1>7. b \in RoundState /\ b.signed = s.signed \cup {m} /\ b.tock = s.tock /\ Same(u, b)
  <2>1. {m} \in SUBSET (Votes \cup Proposals \cup Parts) /\ m \in Votes \cup Proposals
    BY <1>2, Zenon
  <2> QED BY <1>5, <2>1, AddedFields DEF Relocked, Kept
<1>8. /\ t \in RoundState /\ t.round = s.round /\ t.step = Precommit
      /\ t.signed = s.signed \cup {m} /\ t.tock = s.tock /\ Same(u, t)
  BY <1>0, <1>6, <1>7, MovedFields DEF Same
<1>9. Forward(s, t) /\ Reached(t, m) /\ (IsPrecommit(m) <=> c \in Blocks) /\ CommitSet(t)
  BY <1>0, <1>2, <1>3, <1>8 DEF Forward, Reached, IsPrecommit, CommitSet, Precommit, Commit
<1>10. \A w \in s.signed : IsPrecommit(w) => w.round < s.round
  <2> SUFFICES ASSUME NEW w \in s.signed, IsPrecommit(w) PROVE w.round < s.round
    BY Zenon
  <2>1. w \in Votes /\ MsgStep(w) = Precommit /\ w.round \in Nat /\ Reached(s, w)
    BY MessageFields, Zenon DEF IsPrecommit, Good, SignedInOrder
  <2> QED BY <1>0, <2>1 DEF Reached, Precommit
<1>11. m \in Votes \cup Proposals /\ m.type # "prevote" /\ Nil \notin Blocks
  BY <1>2, Constants, Zenon
<1>12. Good(t) /\ Within(s, t)
  BY <1>2, <1>3, <1>8, <1>9, <1>10, <1>11, Signs, Zenon
     DEF Same, SameVotes, Keeps, Frees, Takes, ObeysLock, LockFor, Relocked, Kept
<1>13. Enters(s, t)
  BY <1>8, <1>12, Zenon DEF Enters, Same, Relocked, Kept
<1> QED BY <1>4, <1>5, <1>6, <1>13, Zenon

\* The states in which enterPrecommit signs: with the lock released or taken.
LEMMA LockTypes ==
  ASSUME NEW s \in RoundState, NEW r \in Rounds, NEW c \in Blocks
  PROVE  /\ Unlock(s) \in RoundState
         /\ [s EXCEPT !.lockedRound = r] \in RoundState
         /\ [s EXCEPT !.lockedRound = r, !.lockedBlock = c] \in RoundState
         /\ [s EXCEPT !.validRound = r, !.validBlock = c] \in RoundState
         /\ \A d \in Blocks \cup {None} : [s EXCEPT !.block = d, !.parts = c] \in RoundState
<1>1. Unlock(s) \in RoundState
  BY ZenonT(120) DEF RoundState, Unlock
<1>2. [s EXCEPT !.lockedRound = r] \in RoundState
  BY ZenonT(120) DEF RoundState
<1>3. [s EXCEPT !.lockedRound = r, !.lockedBlock = c] \in RoundState
  BY ZenonT(120) DEF RoundState
<1>4. \A d \in Blocks \cup {None} : [s EXCEPT !.block = d, !.parts = c] \in RoundState
  BY ZenonT(120) DEF RoundState
<1>5. [s EXCEPT !.validRound = r, !.validBlock = c] \in RoundState
  BY ZenonT(120) DEF RoundState
<1> QED BY <1>1, <1>2, <1>3, <1>4, <1>5, Zenon

LEMMA Unlocks ==
  ASSUME NEW s \in RoundState
  PROVE  /\ Unlock(s) \in RoundState /\ Relocked(s, Unlock(s))
         /\ Unlock(s).lockedBlock = None
<1>1. Unlock(s) \in RoundState
  BY ZenonT(120) DEF RoundState, Unlock
<1>2. Relocked(s, Unlock(s)) /\ Unlock(s).lockedBlock = None
  BY ZenonT(120) DEF RoundState, Unlock, Relocked, Kept
<1> QED BY <1>1, <1>2, Zenon

\* enterPrecommit, called for the round the node is in or an earlier one.
LEMMA EnterPrecommit ==
  ASSUME NEW s, Good(s), NEW round \in Rounds, round <= s.round
  PROVE  Enters(s, enterPrecommit(s, round))
<1>0. s \in RoundState /\ round \in Nat /\ s.round \in Nat /\ s.step \in 1..8
  BY Fields, Constants, Zenon DEF Good
<1>1. CASE ~CanEnter(s, round, Precommit)
  BY <1>1, EntersRefl, Zenon DEF enterPrecommit
<1>2. CASE CanEnter(s, round, Precommit)
  <2>1. round = s.round /\ s.step < Precommit
    BY <1>0, <1>2 DEF CanEnter
  <2>2. PICK maj : maj = TwoThirdsMajority(s.prevotes[round])
    BY Zenon
  <2>3. /\ maj \in BlockIDs \cup {None}
        /\ maj # None => maj \in BlockIDs /\ HasMajority(s.prevotes[s.round], maj)
    BY <2>1, <2>2, Majority, Zenon
  <2>4. enterPrecommit(s, round) = Moved(precommitStep(s, round, maj), s.round, Precommit)
    BY <1>2, <2>1, <2>2, Zenon DEF enterPrecommit, Moved
  <2>5. CASE precommitStep(s, round, maj) = Panic(s)
    <3>1. PICK p : p = Panic(s)
      BY Zenon
    <3>2. Enters(s, p) /\ p \in RoundState /\ p.round = s.round /\ p.step = s.step /\ Good(p)
      <4>1. Enters(s, p)
        BY <3>1, Panics, Zenon
      <4>2. p.round = s.round /\ p.step = s.step
        BY <1>0, <3>1, ZenonT(120) DEF Panic, RoundState
      <4> QED BY <4>1, <4>2, Zenon DEF Enters, Good
    <3>3. PICK t : t = Moved(p, s.round, Precommit)
      BY Zenon
    <3>4. /\ t \in RoundState /\ t.round = s.round /\ t.step = Precommit
          /\ t.signed = p.signed /\ t.tock = p.tock /\ Same(p, t)
      <4>1. Precommit \in Steps /\ s.round \in Rounds
        BY <1>0, StepValues, Fields, Zenon
      <4> QED BY <3>2, <3>3, <4>1, MovedFields, Zenon
    <3>5. Forward(p, t) /\ CommitSet(t)
      BY <1>0, <2>1, <3>2, <3>4 DEF Forward, CommitSet, Precommit, Commit
    <3>6. Good(t) /\ Within(p, t)
      BY <3>2, <3>4, <3>5, Frame, Zenon DEF Same, SameVotes
    <3>7. Enters(p, t)
      BY <3>4, <3>6, Zenon DEF Enters, Same
    <3> QED BY <2>4, <2>5, <3>1, <3>2, <3>3, <3>7, EntersTrans, Zenon
  <2>6. CASE maj = None /\ precommitStep(s, round, maj) = signAddVote(s, "precommit", Nil)
    BY <1>0, <2>1, <2>4, <2>6, Precommits, Constants, Zenon DEF LockFor, Relocked, Kept
  <2>7. CASE maj = Nil /\ precommitStep(s, round, maj) = signAddVote(Unlock(s), "precommit", Nil)
    <3>1. PICK u : u = Unlock(s)
      BY Zenon
    <3>2. u \in RoundState
      BY <1>0, <3>1, ZenonT(120) DEF RoundState, Unlock
    <3>3. Relocked(s, u) /\ u.lockedBlock = None
      BY <1>0, <3>1, ZenonT(120) DEF RoundState, Unlock, Relocked, Kept
    <3>4. \E d \in BlockIDs : d # s.lockedBlock /\ HasMajority(s.prevotes[s.round], d)
      BY <1>0, <2>3, <2>7, Constants, Fields, Zenon
    <3>5. Enters(s, Moved(signAddVote(u, "precommit", Nil), s.round, Precommit))
      BY <2>1, <3>2, <3>3, <3>4, Precommits, Constants, Zenon DEF LockFor
    <3> QED BY <2>4, <2>7, <3>1, <3>5, Zenon
  <2>8. CASE /\ maj \in Blocks /\ maj = s.lockedBlock
             /\ precommitStep(s, round, maj) =
                  signAddVote([s EXCEPT !.lockedRound = round], "precommit", maj)
    <3>1. PICK u : u = [s EXCEPT !.lockedRound = round]
      BY Zenon
    <3>2. u \in RoundState
      BY <1>0, <2>8, <3>1, LockTypes, Zenon
    <3>3. Relocked(s, u) /\ u.lockedBlock = maj /\ u.lockedRound = s.round
      BY <1>0, <2>1, <2>8, <3>1, ZenonT(120) DEF RoundState, Relocked, Kept
    <3>4. maj \in BlockIDs /\ HasMajority(s.prevotes[s.round], maj)
      BY <2>3, <2>8, Constants, Zenon
    <3>5. Enters(s, Moved(signAddVote(u, "precommit", maj), s.round, Precommit))
      BY <2>1, <2>8, <3>2, <3>3, <3>4, Precommits, Zenon DEF LockFor
    <3> QED BY <2>4, <2>8, <3>1, <3>5, Zenon
  <2>9. CASE /\ maj \in Blocks
             /\ precommitStep(s, round, maj) =
                  signAddVote([s EXCEPT !.lockedRound = round, !.lockedBlock = maj], "precommit", maj)
    <3>1. PICK u : u = [s EXCEPT !.lockedRound = round, !.lockedBlock = maj]
      BY Zenon
    <3>2. u \in RoundState
      BY <1>0, <2>9, <3>1, LockTypes, Zenon
    <3>3. Relocked(s, u) /\ u.lockedBlock = maj /\ u.lockedRound = s.round
      BY <1>0, <2>1, <2>9, <3>1, ZenonT(120) DEF RoundState, Relocked, Kept
    <3>4. maj \in BlockIDs /\ HasMajority(s.prevotes[s.round], maj)
      BY <2>3, <2>9, Constants, Zenon
    <3>5. Enters(s, Moved(signAddVote(u, "precommit", maj), s.round, Precommit))
      BY <2>1, <2>9, <3>2, <3>3, <3>4, Precommits, Zenon DEF LockFor
    <3> QED BY <2>4, <2>9, <3>1, <3>5, Zenon
  <2>10. CASE /\ maj \in Blocks /\ maj # s.lockedBlock
              /\ precommitStep(s, round, maj) =
                   signAddVote([Unlock(s) EXCEPT !.block = IF s.parts = maj THEN @ ELSE None,
                                                 !.parts = maj], "precommit", Nil)
    <3>1. PICK x : x = Unlock(s)
      BY Zenon
    <3>2. PICK d : d = IF s.parts = maj THEN x.block ELSE None
      BY Zenon
    <3>3. PICK u : u = [x EXCEPT !.block = d, !.parts = maj]
      BY Zenon
    <3>4. x \in RoundState /\ d \in Blocks \cup {None}
      BY <1>0, <3>1, <3>2, ZenonT(120) DEF RoundState, Unlock
    <3>5. u \in RoundState
      BY <1>0, <2>10, <3>3, <3>4, LockTypes, Zenon
    <3>6. Relocked(s, x) /\ x.lockedBlock = None
      BY <1>0, <3>1, ZenonT(120) DEF RoundState, Unlock, Relocked, Kept
    <3>7. Relocked(s, u) /\ u.lockedBlock = None
      BY <3>3, <3>4, <3>6, ZenonT(120) DEF RoundState, Relocked, Kept
    <3>8. \E e \in BlockIDs : e # s.lockedBlock /\ HasMajority(s.prevotes[s.round], e)
      BY <2>3, <2>10, Constants, Zenon
    <3>9. Enters(s, Moved(signAddVote(u, "precommit", Nil), s.round, Precommit))
      BY <2>1, <3>5, <3>7, <3>8, Precommits, Constants, Zenon DEF LockFor
    <3> QED BY <2>4, <2>10, <3>1, <3>2, <3>3, <3>9, Zenon
  <2>11. \/ precommitStep(s, round, maj) = Panic(s)
         \/ maj = None /\ precommitStep(s, round, maj) = signAddVote(s, "precommit", Nil)
         \/ maj = Nil /\ precommitStep(s, round, maj) = signAddVote(Unlock(s), "precommit", Nil)
         \/ /\ maj \in Blocks /\ maj = s.lockedBlock
            /\ precommitStep(s, round, maj) =
                 signAddVote([s EXCEPT !.lockedRound = round], "precommit", maj)
         \/ /\ maj \in Blocks
            /\ precommitStep(s, round, maj) =
                 signAddVote([s EXCEPT !.lockedRound = round, !.lockedBlock = maj], "precommit", maj)
         \/ /\ maj \in Blocks /\ maj # s.lockedBlock
            /\ precommitStep(s, round, maj) =
                 signAddVote([Unlock(s) EXCEPT !.block = IF s.parts = maj THEN @ ELSE None,
                                               !.parts = maj], "precommit", Nil)
    <3>1. maj = None \/ maj = Nil \/ maj \in Blocks
      BY <2>3, BlocksAssumption, Zenon DEF BlockIDs
    <3> QED BY <3>1 DEF precommitStep
  <2> QED BY <2>5, <2>6, <2>7, <2>8, <2>9, <2>10, <2>11, Zenon
<1> QED BY <1>1, <1>2, Zenon
-------------------------------------------------------------------------------
LEMMA InitGood == Good(InitState)
<1>1. PICK t : t = InitState
  BY Zenon
<1>2. PICK x : x = [height |-> 1, round |-> 0, step |-> NewHeight]
  BY Zenon
<1>3. x \in Timeouts /\ x.height = 1 /\ x.round = 0
  BY <1>2, ConsensusAssumption DEF Timeouts, Rounds, NewHeight, Commit
<1>4. /\ t.height = 1 /\ t.round = 0 /\ t.step = NewHeight /\ t.signed = {} /\ t.tock = {x}
      /\ t.lockedBlock = None /\ t.validBlock = None /\ t.refused = FALSE
  BY <1>1, <1>2, Zenon DEF InitState
<1>5. t \in RoundState
  <2>1. NoVotes \in VoteSets
    BY Zenon DEF NoVotes, VoteSets
  <2>4. [r \in Rounds |-> NoVotes] \in [Rounds -> VoteSets]
    BY <2>1, Zenon
  <2>2. PICK vs \in [Rounds -> VoteSets] : vs = [r \in Rounds |-> NoVotes]
    BY <2>4, Zenon
  <2>3. 1 \in Heights /\ 0 \in Rounds /\ 0 \in 0..MaxRound + 1 /\ NewHeight \in Steps
    BY ConsensusAssumption, StepValues DEF Heights, Rounds
  <2> QED BY <1>1, <1>2, <1>3, <2>1, <2>2, <2>3, ZenonT(120) DEF InitState, RoundState, Steps
<1>6. SignedInOrder(t) /\ Locked(t) /\ Valid(t) /\ Precommitted(t) /\ Prevoted(t)
  BY <1>4, Zenon DEF SignedInOrder, Locked, Valid, Precommitted, Prevoted
<1>7. TimeoutsPassed(t) /\ CommitSet(t)
  BY <1>3, <1>4 DEF TimeoutsPassed, CommitSet, NewHeight, Commit
<1> QED BY <1>1, <1>5, <1>6, <1>7, Zenon DEF Good

\* The state in which a height begins: no proposal and no vote yet.
Begins(s, t) == Good(t) /\ Leaves(s, t) /\ t.proposal = None

LEMMA UpdateToState ==
  ASSUME NEW s, Good(s), s.height <= MaxHeight, s.commitRound \in Rounds,
         NEW c \in ValidBlocks, HasMajority(s.precommits[s.commitRound], c)
  PROVE  Begins(s, updateToState(s))
<1>0. s \in RoundState /\ s.height \in Nat /\ s.precommits[s.commitRound] \in VoteSets
  BY Fields, Zenon DEF Good
<1>1. PICK h : h = s.height + 1 /\ h \in Heights
  <2>1. s.height + 1 \in Heights
    BY <1>0, ConsensusAssumption DEF Heights
  <2> QED BY <2>1, Zenon
<1>2. PICK vs \in VoteSets : vs = s.precommits[s.commitRound]
  BY <1>0, Zenon
<1>3. PICK a : a = [InitState EXCEPT !.height = h, !.lastCommit = vs]
  BY Zenon
<1>4. PICK b : b = [a EXCEPT !.lastRound = s.commitRound, !.internal = s.internal]
  BY Zenon
<1>5. PICK d : d = [b EXCEPT !.ti = s.ti, !.tock = s.tock]
  BY Zenon
<1>6. InitState \in RoundState
  BY InitGood, Zenon DEF Good
<1>7. a \in RoundState
  <2>1. PICK x \in RoundState : x = InitState
    BY <1>6, Zenon
  <2>2. [x EXCEPT !.height = h] \in RoundState
    BY <1>1 DEF RoundState
  <2>3. PICK y \in RoundState : y = [x EXCEPT !.height = h]
    BY <2>2, Zenon
  <2>4. [y EXCEPT !.lastCommit = vs] \in RoundState
    BY DEF RoundState
  <2>5. a = [y EXCEPT !.lastCommit = vs]
    BY <1>3, <2>1, <2>3, ZenonT(120) DEF RoundState
  <2> QED BY <2>4, <2>5, Zenon
<1>8. b \in RoundState
  BY <1>0, <1>4, <1>7, ZenonT(120) DEF RoundState
<1>9. d \in RoundState
  BY <1>0, <1>5, <1>8, ZenonT(120) DEF RoundState
<1>10. updateToState(s) = scheduleTimeout(d, 0, NewHeight)
  BY <1>1, <1>2, <1>3, <1>4, <1>5, <1>6, Zenon DEF updateToState, InitState
<1>11. /\ d.height = s.height + 1 /\ d.round = 0 /\ d.step = NewHeight /\ d.signed = {}
       /\ d.tock = s.tock /\ d.lockedBlock = None /\ d.validBlock = None /\ d.refused = FALSE
       /\ d.prevotes = [r \in Rounds |-> NoVotes] /\ d.precommits = [r \in Rounds |-> NoVotes]
       /\ d.lastCommit = s.precommits[s.commitRound] /\ d.proposal = None
  BY <1>1, <1>2, <1>3, <1>4, <1>5, Zenon DEF InitState
<1>12. PICK t : t = scheduleTimeout(d, 0, NewHeight)
  BY Zenon
<1>13. /\ t \in RoundState /\ t.round = 0 /\ t.step = NewHeight /\ t.signed = {} /\ Same(d, t)
       /\ \A x \in t.tock : x \in s.tock \/ (x.height = d.height /\ x.round = 0)
  <2>1. 0 \in Rounds /\ NewHeight \in Steps
    BY Constants, StepValues, Zenon
  <2> QED BY <1>9, <1>11, <1>12, <2>1, ScheduleFields
<1>14. SignedInOrder(t) /\ Locked(t) /\ Valid(t) /\ Precommitted(t) /\ Prevoted(t)
  BY <1>11, <1>13, Zenon DEF SignedInOrder, Locked, Valid, Precommitted, Prevoted, Same
<1>15. TimeoutsPassed(t)
  <2>1. t.height = s.height + 1 /\ t.round = 0
    BY <1>11, <1>13, Zenon DEF Same
  <2>2. s.height \in Nat /\ \A x \in s.tock : x.height \in Nat /\ x.height <= s.height
    BY Fields, MessageFields DEF Good, TimeoutsPassed
  <2>3. \A x \in t.tock : x \in s.tock \/ (x.height = t.height /\ x.round = 0)
    BY <1>13, Zenon DEF Same
  <2> QED BY <2>1, <2>2, <2>3 DEF TimeoutsPassed
<1>16. CommitSet(t)
  BY <1>13 DEF CommitSet, NewHeight, Commit
<1>17. Leaves(s, t)
  BY <1>11, <1>13, Zenon DEF Leaves, Same
<1>18. t.proposal = None
  BY <1>11, <1>13, Zenon DEF Same
<1> QED BY <1>10, <1>12, <1>13, <1>14, <1>15, <1>16, <1>17, <1>18, Zenon DEF Good, Begins

\* finalizeCommit ends the height, panics, or has nothing to do.
LEMMA FinalizeCommit ==
  ASSUME NEW s, Good(s), s.height <= MaxHeight
  PROVE  Enters(s, finalizeCommit(s)) \/ Begins(s, finalizeCommit(s))
<1>1. PICK maj : maj = TwoThirdsMajority(s.precommits[s.commitRound])
  BY Zenon
<1>2. maj # None => maj \in BlockIDs /\ HasMajority(s.precommits[s.commitRound], maj)
  BY <1>1, Majority, Zenon
<1>3. CASE s.step # Commit
  BY <1>3, EntersRefl, Zenon DEF finalizeCommit
<1>4. CASE s.step = Commit /\ (maj = None \/ s.parts # maj \/ s.block # maj \/ s.block \notin ValidBlocks)
  BY <1>1, <1>4, Panics, Zenon DEF finalizeCommit
<1>5. CASE s.step = Commit /\ ~(maj = None \/ s.parts # maj \/ s.block # maj \/ s.block \notin ValidBlocks)
  <2>1. s.commitRound \in Rounds /\ maj \in ValidBlocks
    BY <1>5, Zenon DEF Good, CommitSet
  <2>2. Begins(s, updateToState(s))
    BY <1>2, <1>5, <2>1, UpdateToState, Zenon
  <2> QED BY <1>1, <1>5, <2>2, Zenon DEF finalizeCommit
<1> QED BY <1>3, <1>4, <1>5, Zenon

LEMMA TryFinalizeCommit ==
  ASSUME NEW s, Good(s), s.height <= MaxHeight
  PROVE  Enters(s, tryFinalizeCommit(s)) \/ Begins(s, tryFinalizeCommit(s))
<1>1. tryFinalizeCommit(s) = s \/ tryFinalizeCommit(s) = finalizeCommit(s)
  BY Zenon DEF tryFinalizeCommit
<1> QED BY <1>1, EntersRefl, FinalizeCommit, Zenon

\* A step within the height and the end of the height make the end of the height.
LEMMA BeginsAfter ==
  ASSUME NEW s, NEW t, NEW u, Within(s, t), Begins(t, u)
  PROVE  Begins(s, u)
BY Zenon DEF Within, Begins, Leaves

\* enterCommit, on a majority of precommits for a block.
LEMMA EnterCommit ==
  ASSUME NEW s, Good(s), s.height <= MaxHeight, NEW round \in Rounds,
         TwoThirdsMajority(s.precommits[round]) \in Blocks
  PROVE  Enters(s, enterCommit(s, round)) \/ Begins(s, enterCommit(s, round))
<1>0. s \in RoundState /\ s.step \in 1..8 /\ s.round \in Nat
  BY Fields, Zenon DEF Good
<1>1. PICK maj \in Blocks : maj = TwoThirdsMajority(s.precommits[round])
  BY Zenon
<1>2. CASE s.step >= Commit
  BY <1>2, EntersRefl, Zenon DEF enterCommit
<1>3. CASE s.step < Commit
  <2>1. PICK a : a = IF maj = s.lockedBlock THEN [s EXCEPT !.block = maj, !.parts = maj] ELSE s
    BY Zenon
  <2>2. PICK b : b = IF a.block # maj /\ a.parts # maj
                     THEN [a EXCEPT !.block = None, !.parts = maj] ELSE a
    BY Zenon
  <2>3. PICK t : t = [b EXCEPT !.step = Commit, !.commitRound = round]
    BY Zenon
  <2>4. enterCommit(s, round) = tryFinalizeCommit(t)
    <3>1. maj # None /\ ~(s.step >= Commit)
      BY <1>0, <1>3, Constants DEF Commit
    <3> QED BY <1>1, <2>1, <2>2, <2>3, <3>1, Zenon DEF enterCommit
  <2>5. a \in RoundState
    BY <1>0, <2>1, LockTypes, Zenon
  <2>6. b \in RoundState
    BY <2>2, <2>5, LockTypes, Zenon
  <2>7. t \in RoundState
    <3>1. [b EXCEPT !.commitRound = round] \in RoundState
      BY <2>6, ZenonT(120) DEF RoundState
    <3>2. PICK x \in RoundState : x = [b EXCEPT !.commitRound = round]
      BY <3>1, Zenon
    <3>3. [x EXCEPT !.step = Commit] \in RoundState
      BY StepValues, ZenonT(120) DEF RoundState, Steps
    <3>4. t = [x EXCEPT !.step = Commit]
      BY <2>3, <2>6, <3>2, ZenonT(120) DEF RoundState
    <3> QED BY <3>3, <3>4, Zenon
  <2>8. Relocked(s, a) /\ a.lockedRound = s.lockedRound /\ a.lockedBlock = s.lockedBlock
    BY <1>0, <2>1, ZenonT(120) DEF RoundState, Relocked, Kept
  <2>9. Relocked(s, b) /\ b.lockedRound = s.lockedRound /\ b.lockedBlock = s.lockedBlock
    BY <2>2, <2>5, <2>8, ZenonT(120) DEF RoundState, Relocked, Kept
  <2>10. /\ t.height = s.height /\ t.prevotes = s.prevotes /\ t.precommits = s.precommits
         /\ t.lastCommit = s.lastCommit /\ t.refused = s.refused
         /\ t.validRound = s.validRound /\ t.validBlock = s.validBlock
         /\ t.lockedRound = s.lockedRound /\ t.lockedBlock = s.lockedBlock
         /\ t.round = s.round /\ t.step = Commit /\ t.signed = s.signed /\ t.tock = s.tock
         /\ t.commitRound = round
    BY <2>3, <2>6, <2>9, ZenonT(120) DEF RoundState, Relocked, Kept
  <2>11. Forward(s, t) /\ CommitSet(t)
    BY <1>0, <2>10 DEF Forward, CommitSet, Commit
  <2>12. Good(t) /\ Within(s, t)
    BY <2>7, <2>10, <2>11, Frame, Zenon DEF SameVotes
  <2>13. Enters(s, t)
    BY <2>10, <2>12, Zenon DEF Enters
  <2>14. Enters(t, tryFinalizeCommit(t)) \/ Begins(t, tryFinalizeCommit(t))
    BY <2>10, <2>12, TryFinalizeCommit, Zenon
  <2> QED BY <2>4, <2>12, <2>13, <2>14, EntersTrans, BeginsAfter, Zenon
<1> QED BY <1>0, <1>2, <1>3 DEF Commit
-------------------------------------------------------------------------------
\* What a handler does, in all.
Handles(s, t) == Good(t) /\ Moves(s, t)

LEMMA HandlesAfter ==
  ASSUME NEW s, Good(s), NEW t, Good(t), Within(s, t), NEW u, Enters(t, u) \/ Begins(t, u) \/ Handles(t, u)
  PROVE  Handles(s, u)
<1>1. CASE Good(u) /\ Within(t, u)
  <2>1. Within(s, u)
    BY <1>1, WithinTrans, Zenon DEF Good
  <2> QED BY <1>1, <2>1, Zenon DEF Handles, Moves
<1>2. CASE Good(u) /\ Leaves(t, u)
  BY <1>2, Zenon DEF Handles, Moves, Leaves, Within
<1> QED BY <1>1, <1>2, Zenon DEF Enters, Begins, Handles, Moves

\* Steps that change the proposal, the valid block on a polka, or release the lock on one.
LEMMA Refresh ==
  ASSUME NEW s, Good(s), NEW t \in RoundState, Kept(s, t), Valid(t),
         \/ t.lockedRound = s.lockedRound /\ t.lockedBlock = s.lockedBlock
         \/ /\ t.lockedBlock = None
            /\ \E q \in Nat : \E d \in BlockIDs :
                 /\ s.lockedRound < q /\ q <= s.round
                 /\ d # s.lockedBlock /\ HasMajority(s.prevotes[q], d)
  PROVE  Enters(s, t)
<1>0. s \in RoundState /\ s.round \in Nat /\ s.lockedRound \in Int /\ s.step \in 1..8
  BY Fields, Zenon DEF Good
<1>1. /\ t.height = s.height /\ t.prevotes = s.prevotes /\ t.precommits = s.precommits
      /\ t.lastCommit = s.lastCommit /\ t.refused = s.refused
      /\ t.round = s.round /\ t.step = s.step /\ t.signed = s.signed /\ t.tock = s.tock
      /\ t.commitRound = s.commitRound
  BY Zenon DEF Kept
<1>2. SignedInOrder(t) /\ TimeoutsPassed(t) /\ CommitSet(t) /\ Prevoted(t)
  BY <1>1, Zenon DEF Good, SignedInOrder, TimeoutsPassed, CommitSet, Prevoted, Reached, PolkaAgainst
<1>3. Locked(t)
  BY <1>1, Zenon DEF Good, Locked
<1>4. Precommitted(t)
  <2>1. \A w \in s.signed, r \in Nat : PolkaAgainst(s, w, r) <=> PolkaAgainst(t, w, r)
    BY <1>1, Zenon DEF PolkaAgainst
  <2> SUFFICES ASSUME NEW w \in s.signed, IsPrecommit(w)
               PROVE  /\ HasMajority(s.prevotes[w.round], w.block)
                      /\ \/ t.lockedBlock = w.block /\ w.round <= t.lockedRound
                         \/ PolkaAgainst(s, w, s.round)
    BY <1>0, <1>1, <2>1, Zenon DEF Precommitted
  <2>2. w.round \in Nat
    BY MessageFields, Zenon DEF IsPrecommit
  <2>3. /\ HasMajority(s.prevotes[w.round], w.block)
        /\ (s.lockedBlock = w.block /\ w.round <= s.lockedRound) \/ PolkaAgainst(s, w, s.round)
    BY Zenon DEF Good, Precommitted
  <2>4. CASE t.lockedRound = s.lockedRound /\ t.lockedBlock = s.lockedBlock
    BY <2>3, <2>4, Zenon
  <2>5. ASSUME NEW q \in Nat, NEW d \in BlockIDs, s.lockedRound < q, q <= s.round,
               d # s.lockedBlock, HasMajority(s.prevotes[q], d),
               s.lockedBlock = w.block, w.round <= s.lockedRound
        PROVE  PolkaAgainst(s, w, s.round)
    <3>1. q \in (w.round + 1)..s.round
      BY <1>0, <2>2, <2>5
    <3> QED BY <2>5, <3>1, Zenon DEF PolkaAgainst
  <2> QED BY <2>3, <2>4, <2>5, Zenon
<1>5. Within(s, t)
  BY <1>0, <1>1 DEF Within, Forward, Grows
<1> QED BY <1>1, <1>2, <1>3, <1>4, <1>5, Zenon DEF Good, Enters

LEMMA SetProposal ==
  ASSUME NEW s, Good(s), NEW p \in Proposals
  PROVE  Enters(s, setProposal(s, p))
<1>0. s \in RoundState /\ p.block \in Blocks
  BY Zenon DEF Good, Proposals
<1>1. CASE setProposal(s, p) = s
  BY <1>1, EntersRefl, Zenon
<1>2. CASE setProposal(s, p) # s
  <2>1. PICK d : d = IF s.parts = None THEN p.block ELSE s.parts
    BY Zenon
  <2>2. PICK t : t = [s EXCEPT !.proposal = p, !.parts = d]
    BY Zenon
  <2>3. setProposal(s, p) = t
    BY <1>2, <2>1, <2>2, Zenon DEF setProposal
  <2>4. d \in Blocks \cup {None}
    BY <1>0, <2>1, ZenonT(120) DEF RoundState
  <2>5. t \in RoundState
    BY <1>0, <2>2, <2>4, ZenonT(120) DEF RoundState
  <2>6. /\ Relocked(s, t)
        /\ t.lockedRound = s.lockedRound /\ t.lockedBlock = s.lockedBlock
    BY <1>0, <2>2, ZenonT(120) DEF RoundState, Relocked, Kept
  <2>7. Valid(t)
    BY <2>6, Zenon DEF Relocked, Kept, Good, Valid
  <2> QED BY <2>3, <2>5, <2>6, <2>7, Refresh, Zenon DEF Relocked
<1> QED BY <1>1, <1>2, Zenon

LEMMA AddProposalBlockPart ==
  ASSUME NEW s, Good(s), s.height <= MaxHeight, NEW m \in Parts
  PROVE  Handles(s, addProposalBlockPart(s, m))
<1>0. s \in RoundState /\ m.part \in Blocks /\ s.round \in Rounds /\ s.round \in Nat
  BY Fields, Zenon DEF Good, Parts
<1>1. CASE m.height # s.height \/ s.parts # m.part \/ s.block = m.part
  <2>1. addProposalBlockPart(s, m) = s
    BY <1>1, Zenon DEF addProposalBlockPart
  <2> QED BY <2>1, WithinRefl, EntersRefl, HandlesAfter, Zenon DEF Good
<1>2. CASE ~(m.height # s.height \/ s.parts # m.part \/ s.block = m.part)
  <2>1. PICK maj : maj = TwoThirdsMajority(s.prevotes[s.round])
    BY Zenon
  <2>2. PICK a : a = [s EXCEPT !.block = m.part]
    BY Zenon
  <2>3. PICK b : b = IF maj = m.part /\ s.validRound < s.round
                     THEN [a EXCEPT !.validRound = s.round, !.validBlock = m.part] ELSE a
    BY Zenon
  <2>4. PICK c : c = enterPrevote(b, b.round)
    BY Zenon
  <2>5. \/ addProposalBlockPart(s, m) = b
        \/ addProposalBlockPart(s, m) = c
        \/ addProposalBlockPart(s, m) = enterPrecommit(c, c.round)
        \/ addProposalBlockPart(s, m) = tryFinalizeCommit(b)
    BY <1>2, <2>1, <2>2, <2>3, <2>4, Zenon DEF addProposalBlockPart
  <2>6. a \in RoundState
    BY <1>0, <2>2, ZenonT(120) DEF RoundState
  <2>7. b \in RoundState
    BY <1>0, <2>3, <2>6, LockTypes, Zenon
  <2>8. Relocked(s, a) /\ a.lockedRound = s.lockedRound /\ a.lockedBlock = s.lockedBlock
    BY <1>0, <2>2, ZenonT(120) DEF RoundState, Relocked, Kept
  <2>9. Kept(s, b) /\ b.lockedRound = s.lockedRound /\ b.lockedBlock = s.lockedBlock
    BY <2>3, <2>6, <2>8, ZenonT(120) DEF RoundState, Relocked, Kept
  <2>10. Valid(b)
    <3>1. CASE maj = m.part /\ s.validRound < s.round
      <4>1. b.validRound = s.round /\ b.validBlock = m.part
        BY <2>3, <2>6, <3>1, ZenonT(120) DEF RoundState
      <4>2. HasMajority(s.prevotes[s.round], m.part)
        <5>1. maj # None
          BY <1>0, <3>1, Constants, Zenon
        <5>2. HasMajority(s.prevotes[s.round], maj)
          BY <2>1, <5>1, Majority, Zenon
        <5> QED BY <3>1, <5>2, Zenon
      <4> QED BY <1>0, <2>9, <4>1, <4>2 DEF Valid, Kept
    <3>2. CASE ~(maj = m.part /\ s.validRound < s.round)
      BY <2>3, <2>8, <3>2, Zenon DEF Relocked, Kept, Good, Valid
    <3> QED BY <3>1, <3>2, Zenon
  <2>11. Enters(s, b)
    BY <2>7, <2>9, <2>10, Refresh, Zenon
  <2>12. Good(b) /\ b.round \in Rounds /\ b.round <= b.round /\ b.height <= MaxHeight /\ Within(s, b)
    BY <1>0, <2>9, <2>11 DEF Enters, Kept
  <2>13. Enters(b, c) /\ Good(c)
    BY <2>4, <2>12, EnterPrevote, Zenon DEF Enters
  <2>14. Enters(b, enterPrecommit(c, c.round))
    <3>1. c.round \in Rounds /\ c.round <= c.round
      BY <2>13, Fields, Constants DEF Good
    <3>2. Enters(c, enterPrecommit(c, c.round))
      BY <2>13, <3>1, EnterPrecommit, Zenon
    <3> QED BY <2>12, <2>13, <3>2, EntersTrans, Zenon
  <2>15. Enters(b, tryFinalizeCommit(b)) \/ Begins(b, tryFinalizeCommit(b))
    BY <2>12, TryFinalizeCommit, Zenon
  <2> QED BY <2>5, <2>12, <2>13, <2>14, <2>15, EntersRefl, HandlesAfter, Zenon
<1> QED BY <1>1, <1>2, Zenon

LEMMA OnPolka ==
  ASSUME NEW s, Good(s), NEW round \in Rounds
  PROVE  Enters(s, onPolka(s, round))
<1>0. s \in RoundState /\ round \in Nat /\ s.round \in Nat
  BY Fields, Constants, Zenon DEF Good
<1>1. PICK maj : maj = TwoThirdsMajority(s.prevotes[round])
  BY Zenon
<1>2. CASE maj = None
  BY <1>1, <1>2, EntersRefl, Zenon DEF onPolka
<1>3. CASE maj # None
  <2>0. maj \in BlockIDs /\ HasMajority(s.prevotes[round], maj)
    BY <1>1, <1>3, Majority, Zenon
  <2> DEFINE Releases == /\ s.lockedBlock # None /\ s.lockedRound < round /\ round <= s.round
                         /\ s.lockedBlock # maj
  <2>1. PICK a : a = IF Releases THEN Unlock(s) ELSE s
    BY Zenon
  <2>2. PICK t : t = IF maj = Nil \/ a.validRound >= round \/ round # a.round THEN a
                     ELSE IF a.block = maj
                     THEN [a EXCEPT !.validRound = round, !.validBlock = maj, !.parts = maj]
                     ELSE [a EXCEPT !.block = None, !.parts = maj]
    BY Zenon
  <2>3. onPolka(s, round) = t
    BY <1>1, <1>3, <2>1, <2>2, Zenon DEF onPolka
  <2>4. a \in RoundState /\ Relocked(s, a)
    BY <1>0, <2>1, Unlocks, Zenon DEF Relocked, Kept
  <2>5. \/ a.lockedRound = s.lockedRound /\ a.lockedBlock = s.lockedBlock
        \/ a.lockedBlock = None /\ Releases
    BY <1>0, <2>1, Unlocks, Zenon
  <2>6. maj = Nil \/ maj \in Blocks
    BY <2>0, Zenon DEF BlockIDs
  <2>7. CASE t = a
    <3>1. t \in RoundState /\ Kept(s, t) /\ Valid(t)
      BY <2>4, <2>7, Zenon DEF Relocked, Kept, Good, Valid
    <3> QED BY <1>0, <2>0, <2>3, <2>5, <2>7, <3>1, Refresh, Zenon
  <2>8. CASE /\ maj \in Blocks /\ round = a.round
             /\ t = [a EXCEPT !.validRound = round, !.validBlock = maj, !.parts = maj]
    <3>1. t \in RoundState
      <4>1. [a EXCEPT !.validRound = round, !.validBlock = maj] \in RoundState
        BY <2>4, <2>8, LockTypes, Zenon
      <4>2. PICK x \in RoundState : x = [a EXCEPT !.validRound = round, !.validBlock = maj]
        BY <4>1, Zenon
      <4>3. [x EXCEPT !.parts = maj] \in RoundState
        BY <2>8, ZenonT(120) DEF RoundState
      <4>4. t = [x EXCEPT !.parts = maj]
        BY <2>4, <2>8, <4>2, ZenonT(120) DEF RoundState
      <4> QED BY <4>3, <4>4, Zenon
    <3>2. /\ Kept(a, t) /\ t.validRound = round /\ t.validBlock = maj
          /\ t.lockedRound = a.lockedRound /\ t.lockedBlock = a.lockedBlock
      BY <2>4, <2>8, ZenonT(120) DEF RoundState, Kept
    <3>3. Kept(s, t)
      BY <2>4, <3>2, Zenon DEF Relocked, Kept
    <3>4. Valid(t)
      BY <1>0, <2>0, <2>4, <2>8, <3>2, <3>3 DEF Valid, Relocked, Kept
    <3> QED BY <1>0, <2>0, <2>3, <2>5, <3>1, <3>2, <3>3, <3>4, Refresh, Zenon
  <2>9. CASE maj \in Blocks /\ t = [a EXCEPT !.block = None, !.parts = maj]
    <3>1. t \in RoundState
      BY <1>0, <2>4, <2>9, LockTypes, Zenon
    <3>2. Relocked(a, t) /\ t.lockedRound = a.lockedRound /\ t.lockedBlock = a.lockedBlock
      BY <2>4, <2>9, ZenonT(120) DEF RoundState, Relocked, Kept
    <3>3. Relocked(s, t)
      BY <2>4, <3>2, Zenon DEF Relocked, Kept
    <3>4. Valid(t)
      BY <3>3, Zenon DEF Good, Valid, Relocked, Kept
    <3> QED BY <1>0, <2>0, <2>3, <2>5, <3>1, <3>2, <3>3, <3>4, Refresh, Zenon DEF Relocked
  <2> QED BY <2>2, <2>6, <2>7, <2>8, <2>9, Zenon
<1> QED BY <1>2, <1>3, Zenon

LEMMA AddPrevote ==
  ASSUME NEW s, Good(s), NEW round \in Rounds
  PROVE  Enters(s, addPrevote(s, round))
<1>1. PICK a : a = onPolka(s, round)
  BY Zenon
<1>2. Enters(s, a) /\ Good(a)
  BY <1>1, OnPolka, Zenon DEF Enters
<1>3. a.round \in Rounds /\ a.round \in Nat /\ round \in Nat
  BY <1>2, Fields, Constants, Zenon DEF Good
<1>4. \/ addPrevote(s, round) = enterNewRound(a, round)
      \/ a.round = round /\ addPrevote(s, round) = enterPrecommit(a, round)
      \/ a.round = round /\ addPrevote(s, round) = enterPrevoteWait(a, round)
      \/ addPrevote(s, round) = enterPrevote(a, a.round)
      \/ addPrevote(s, round) = a
  BY <1>1 DEF addPrevote
<1>5. Enters(a, enterNewRound(a, round)) /\ Enters(a, a)
  BY <1>2, EnterNewRound, EntersRefl, Zenon
<1>6. Enters(a, enterPrevote(a, a.round))
  BY <1>2, <1>3, EnterPrevote
<1>7. a.round = round => Enters(a, enterPrecommit(a, round)) /\ Enters(a, enterPrevoteWait(a, round))
  BY <1>2, <1>3, EnterPrecommit, EnterPrevoteWait
<1> QED BY <1>2, <1>4, <1>5, <1>6, <1>7, EntersTrans, Zenon

\* SkipTimeoutCommit: round 0 of the new height is entered at once, and no vote is cast
\* in it since there is no proposal.
LEMMA BeginsRound ==
  ASSUME NEW s, NEW t, Begins(s, t)
  PROVE  Handles(s, enterNewRound(t, 0))
<1>1. PICK u : u = enterNewRound(t, 0)
  BY Zenon
<1>2. Enters(t, u) /\ NoVote(t, u)
  BY <1>1, Constants, EnterNewRound, Zenon DEF Begins
<1>3. Leaves(s, u)
  BY <1>2, Zenon DEF Enters, Within, NoVote, Begins, Leaves
<1> QED BY <1>1, <1>2, <1>3, Zenon DEF Handles, Moves, Enters

LEMMA AddPrecommit ==
  ASSUME NEW s, Good(s), s.height <= MaxHeight, NEW round \in Rounds
  PROVE  Handles(s, addPrecommit(s, round))
<1>1. PICK n : n = enterNewRound(s, round)
  BY Zenon
<1>2. Enters(s, n) /\ Good(n) /\ round <= n.round
  BY <1>1, EnterNewRound, Zenon DEF Enters
<1>3. PICK a : a = enterPrecommit(n, round)
  BY Zenon
<1>4. Enters(n, a) /\ Good(a)
  BY <1>2, <1>3, EnterPrecommit, Zenon DEF Enters
<1>5. Enters(s, a)
  BY <1>2, <1>4, EntersTrans, Zenon
<1>6. round <= a.round
  <2>1. n \in RoundState /\ a \in RoundState /\ Forward(n, a)
    BY <1>2, <1>4, Zenon DEF Enters, Good, Within
  <2> QED BY <1>2, <2>1, Fields, Constants DEF Forward
<1>7. PICK b : b = enterCommit(a, round)
  BY Zenon
<1>8. PICK maj : maj = TwoThirdsMajority(s.precommits[round])
  BY Zenon
<1>9. \/ maj \in Blocks /\ addPrecommit(s, round) = enterNewRound(b, 0)
      \/ maj \in Blocks /\ addPrecommit(s, round) = b
      \/ addPrecommit(s, round) = enterPrecommitWait(a, round)
      \/ addPrecommit(s, round) = enterPrecommitWait(n, round)
      \/ addPrecommit(s, round) = s
  BY <1>1, <1>3, <1>7, <1>8, Zenon DEF addPrecommit
<1>10. maj \in Blocks => Enters(s, b) \/ Begins(s, b)
  <2> SUFFICES ASSUME maj \in Blocks PROVE Enters(s, b) \/ Begins(s, b)
    BY Zenon
  <2>1. a.height <= MaxHeight /\ TwoThirdsMajority(a.precommits[round]) \in Blocks /\ Within(s, a)
    BY <1>5, <1>8, Zenon DEF Enters, Within
  <2>2. Enters(a, b) \/ Begins(a, b)
    BY <1>4, <1>7, <2>1, EnterCommit, Zenon
  <2> QED BY <1>5, <2>1, <2>2, EntersTrans, BeginsAfter, Zenon
<1>11. Handles(s, s)
  BY WithinRefl, Zenon DEF Handles, Moves, Good
<1>12. maj \in Blocks => Handles(s, b)
  BY <1>10, Zenon DEF Handles, Moves, Enters, Begins
<1>13. maj \in Blocks => Handles(s, enterNewRound(b, 0))
  <2>1. CASE Enters(s, b)
    <3>1. Enters(b, enterNewRound(b, 0))
      BY <2>1, Constants, EnterNewRound, Zenon DEF Enters
    <3> QED BY <2>1, <3>1, HandlesAfter, Zenon DEF Enters
  <2>2. CASE Begins(s, b)
    BY <2>2, BeginsRound, Zenon
  <2> QED BY <1>10, <2>1, <2>2, Zenon
<1>14. Handles(s, enterPrecommitWait(a, round))
  <2>1. Enters(a, enterPrecommitWait(a, round))
    BY <1>4, <1>6, EnterPrecommitWait, Zenon
  <2> QED BY <1>5, <2>1, HandlesAfter, Zenon DEF Enters
<1>15. Handles(s, enterPrecommitWait(n, round))
  <2>1. Enters(n, enterPrecommitWait(n, round))
    BY <1>2, EnterPrecommitWait, Zenon
  <2> QED BY <1>2, <2>1, HandlesAfter, Zenon DEF Enters
<1> QED BY <1>9, <1>11, <1>12, <1>13, <1>14, <1>15, Zenon

\* Votes that are added to the vote sets take nothing away.
LEMMA VotesAdded ==
  ASSUME NEW s, Good(s), NEW t \in RoundState,
         Grows(s.prevotes, t.prevotes), Grows(s.precommits, t.precommits),
         t.height = s.height, t.round = s.round, t.step = s.step, t.signed = s.signed,
         t.tock = s.tock, t.refused = s.refused, t.commitRound = s.commitRound,
         t.lockedRound = s.lockedRound, t.lockedBlock = s.lockedBlock,
         t.validRound = s.validRound, t.validBlock = s.validBlock
  PROVE  Good(t) /\ Within(s, t)
<1>0. s \in RoundState /\ s.round \in Nat /\ s.round \in Rounds /\ s.step \in 1..8
  BY Fields, Zenon DEF Good
<1>1. \A r \in Rounds, c \in BlockIDs :
        HasMajority(s.prevotes[r], c) => HasMajority(t.prevotes[r], c)
  <2> SUFFICES ASSUME NEW r \in Rounds, NEW c \in BlockIDs, HasMajority(s.prevotes[r], c)
               PROVE  HasMajority(t.prevotes[r], c)
    BY Zenon
  <2>1. \A v \in Validators : s.prevotes[r][v] # None => t.prevotes[r][v] = s.prevotes[r][v]
    BY Zenon DEF Grows
  <2> QED BY <2>1, MajorityKept, Zenon
<1>2. \A r \in 0..s.round : r \in Rounds
  BY <1>0, ConsensusAssumption DEF Rounds
<1>3. SignedInOrder(t) /\ TimeoutsPassed(t) /\ CommitSet(t)
  BY Zenon DEF Good, SignedInOrder, TimeoutsPassed, CommitSet, Reached
<1>4. Locked(t) /\ Valid(t)
  BY <1>0, <1>1, <1>2, Fields, Constants, Zenon DEF Good, Locked, Valid
<1>5. \A w \in s.signed, r \in Rounds : PolkaAgainst(s, w, r) => PolkaAgainst(t, w, r)
  <2> SUFFICES ASSUME NEW w \in s.signed, NEW r \in Rounds, PolkaAgainst(s, w, r)
               PROVE  PolkaAgainst(t, w, r)
    BY Zenon
  <2>1. PICK q \in (w.round + 1)..r : \E c \in BlockIDs \ {w.block} : HasMajority(s.prevotes[q], c)
    BY Zenon DEF PolkaAgainst
  <2>2. w.round \in Nat
    BY <1>0, Fields, MessageFields, Zenon
  <2>3. q \in Rounds
    BY <2>2, ConsensusAssumption DEF Rounds
  <2> QED BY <1>1, <2>1, <2>3, Zenon DEF PolkaAgainst
<1>6. Precommitted(t)
  <2>1. \A w \in s.signed : IsPrecommit(w) => w.round \in Rounds /\ w.block \in BlockIDs
    BY MessageFields, Zenon DEF IsPrecommit
  <2> QED BY <1>0, <1>1, <1>5, <2>1, Zenon DEF Good, Precommitted
<1>7. Prevoted(t)
  <2>1. \A m \in s.signed : m \in Votes => m.round \in Rounds
    BY MessageFields, Zenon
  <2> QED BY <1>5, <2>1, Zenon DEF Good, Prevoted
<1>8. Within(s, t)
  BY <1>0 DEF Within, Forward
<1> QED BY <1>3, <1>4, <1>6, <1>7, <1>8, Zenon DEF Good

\* A vote set with one more vote.
LEMMA WithVote ==
  ASSUME NEW vs \in [Rounds -> VoteSets], NEW r \in Rounds, NEW v \in Validators, NEW c \in BlockIDs,
         vs[r][v] = None
  PROVE  /\ [vs EXCEPT ![r][v] = c] \in [Rounds -> VoteSets]
         /\ Grows(vs, [vs EXCEPT ![r][v] = c])
<1>1. PICK x : x = [vs[r] EXCEPT ![v] = c]
  BY Zenon
<1>2. x \in VoteSets
  BY <1>1, Zenon DEF VoteSets
<1>3. [vs EXCEPT ![r][v] = c] = [vs EXCEPT ![r] = x]
  BY <1>1, Zenon
<1>4. PICK ws : ws = [vs EXCEPT ![r] = x]
  BY Zenon
<1>5. ws \in [Rounds -> VoteSets]
  BY <1>2, <1>4, Zenon
<1>6. Grows(vs, ws)
  <2> SUFFICES ASSUME NEW q \in Rounds, NEW u \in Validators, vs[q][u] # None
               PROVE  ws[q][u] = vs[q][u]
    BY Zenon DEF Grows
  <2>1. CASE q = r
    BY <1>1, <1>4, <2>1, Zenon DEF VoteSets
  <2>2. CASE q # r
    BY <1>4, <2>2, Zenon
  <2> QED BY <2>1, <2>2, Zenon
<1> QED BY <1>3, <1>4, <1>5, <1>6, Zenon
===============================================================================
