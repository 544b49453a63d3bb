------------------------ MODULE ConsensusState_proofs -------------------------
(***************************************************************************)
(* The state machine of a validator, for every set of validators, blocks,  *)
(* votes and proposals: it only moves forward, never asks the signer for   *)
(* what it must refuse, locks and unlocks on polkas it has, leaves a       *)
(* height with a commit, and votes by the rules of Voter, from which       *)
(* agreement follows (Votes_proofs).  First the handlers of a vote, a      *)
(* timeout and the notice of transactions, and the invariant by            *)
(* composition.                                                            *)
(***************************************************************************)
EXTENDS ConsensusSteps_proofs

LEMMA AddLastCommit ==
  ASSUME NEW s, Good(s), NEW v \in Votes
  PROVE  Handles(s, addLastCommit(s, v))
<1>0. s \in RoundState /\ s.lastCommit \in VoteSets /\ v.val \in Validators /\ v.block \in BlockIDs
  BY ZenonT(120) DEF Good, RoundState, Votes
<1>1. PICK vs : vs = [s.lastCommit EXCEPT ![v.val] = v.block]
  BY Zenon
<1>2. vs \in VoteSets
  BY <1>0, <1>1, Zenon DEF VoteSets
<1>3. PICK a : a = [s EXCEPT !.lastCommit = vs]
  BY Zenon
<1>4. \/ addLastCommit(s, v) = s
      \/ addLastCommit(s, v) = a
      \/ addLastCommit(s, v) = enterNewRound(a, 0)
  BY <1>1, <1>3, Zenon DEF addLastCommit
<1>5. a \in RoundState
  BY <1>0, <1>2, <1>3, ZenonT(120) DEF RoundState
<1>6. /\ a.prevotes = s.prevotes /\ a.precommits = s.precommits
      /\ a.height = s.height /\ a.round = s.round /\ a.step = s.step /\ a.signed = s.signed
      /\ a.tock = s.tock /\ a.refused = s.refused /\ a.commitRound = s.commitRound
      /\ a.lockedRound = s.lockedRound /\ a.lockedBlock = s.lockedBlock
      /\ a.validRound = s.validRound /\ a.validBlock = s.validBlock
  BY <1>0, <1>3, ZenonT(120) DEF RoundState
<1>7. Grows(s.prevotes, a.prevotes) /\ Grows(s.precommits, a.precommits)
  BY <1>6, Zenon DEF Grows
<1>8. Good(a) /\ Within(s, a)
  BY <1>5, <1>6, <1>7, VotesAdded, Zenon
<1>9. Enters(a, enterNewRound(a, 0))
  BY <1>8, Constants, EnterNewRound, Zenon
<1>10. Handles(s, s) /\ Handles(s, a)
  BY <1>0, <1>8, WithinRefl, Zenon DEF Handles, Moves
<1>11. Handles(s, enterNewRound(a, 0))
  BY <1>8, <1>9, HandlesAfter, Zenon
<1> QED BY <1>4, <1>10, <1>11, Zenon

LEMMA AddVote ==
  ASSUME NEW s, Good(s), s.height <= MaxHeight, NEW v \in Votes
  PROVE  Handles(s, addVote(s, v))
<1>0. /\ s \in RoundState /\ v.val \in Validators /\ v.block \in BlockIDs /\ v.round \in Rounds
      /\ s.prevotes \in [Rounds -> VoteSets] /\ s.precommits \in [Rounds -> VoteSets]
  BY Fields, Zenon DEF Good, Votes
<1>1. CASE addVote(s, v) = addLastCommit(s, v)
  BY <1>1, AddLastCommit, Zenon
<1>2. CASE /\ s.prevotes[v.round][v.val] = None
           /\ addVote(s, v) =
                addPrevote([s EXCEPT !.prevotes[v.round][v.val] = v.block], v.round)
  <2>1. PICK vs : vs = [s.prevotes EXCEPT ![v.round][v.val] = v.block]
    BY Zenon
  <2>2. PICK t : t = [s EXCEPT !.prevotes = vs]
    BY Zenon
  <2>3. addVote(s, v) = addPrevote(t, v.round)
    BY <1>2, <2>1, <2>2, Zenon
  <2>4. vs \in [Rounds -> VoteSets] /\ Grows(s.prevotes, vs)
    BY <1>0, <1>2, <2>1, WithVote, Zenon
  <2>5. t \in RoundState
    BY <1>0, <2>2, <2>4, ZenonT(120) DEF RoundState
  <2>6. /\ t.prevotes = vs /\ t.precommits = s.precommits
        /\ t.height = s.height /\ t.round = s.round /\ t.step = s.step /\ t.signed = s.signed
        /\ t.tock = s.tock /\ t.refused = s.refused /\ t.commitRound = s.commitRound
        /\ t.lockedRound = s.lockedRound /\ t.lockedBlock = s.lockedBlock
        /\ t.validRound = s.validRound /\ t.validBlock = s.validBlock
    BY <1>0, <2>2, ZenonT(120) DEF RoundState
  <2>7. Grows(s.precommits, t.precommits)
    BY <2>6, Zenon DEF Grows
  <2>8. Good(t) /\ Within(s, t)
    BY <2>4, <2>5, <2>6, <2>7, VotesAdded, Zenon
  <2>9. Enters(t, addPrevote(t, v.round))
    BY <1>0, <2>8, AddPrevote, Zenon
  <2> QED BY <2>3, <2>8, <2>9, HandlesAfter, Zenon
<1>3. CASE /\ s.precommits[v.round][v.val] = None
           /\ addVote(s, v) =
                addPrecommit([s EXCEPT !.precommits[v.round][v.val] = v.block], v.round)
  <2>1. PICK vs : vs = [s.precommits EXCEPT ![v.round][v.val] = v.block]
    BY Zenon
  <2>2. PICK t : t = [s EXCEPT !.precommits = vs]
    BY Zenon
  <2>3. addVote(s, v) = addPrecommit(t, v.round)
    BY <1>3, <2>1, <2>2, Zenon
  <2>4. vs \in [Rounds -> VoteSets] /\ Grows(s.precommits, vs)
    BY <1>0, <1>3, <2>1, WithVote, Zenon
  <2>5. t \in RoundState
    BY <1>0, <2>2, <2>4, ZenonT(120) DEF RoundState
  <2>6. /\ t.precommits = vs /\ t.prevotes = s.prevotes
        /\ t.height = s.height /\ t.round = s.round /\ t.step = s.step /\ t.signed = s.signed
        /\ t.tock = s.tock /\ t.refused = s.refused /\ t.commitRound = s.commitRound
        /\ t.lockedRound = s.lockedRound /\ t.lockedBlock = s.lockedBlock
        /\ t.validRound = s.validRound /\ t.validBlock = s.validBlock
    BY <1>0, <2>2, ZenonT(120) DEF RoundState
  <2>7. Grows(s.prevotes, t.prevotes)
    BY <2>6, Zenon DEF Grows
  <2>8. Good(t) /\ Within(s, t) /\ t.height <= MaxHeight
    BY <2>4, <2>5, <2>6, <2>7, VotesAdded, Zenon
  <2>9. Handles(t, addPrecommit(t, v.round))
    BY <1>0, <2>8, AddPrecommit, Zenon
  <2> QED BY <2>3, <2>8, <2>9, HandlesAfter, Zenon
<1>4. CASE addVote(s, v) = s
  BY <1>0, <1>4, WithinRefl, Zenon DEF Handles, Moves
<1>5. \/ addVote(s, v) = addLastCommit(s, v)
      \/ /\ s.prevotes[v.round][v.val] = None
         /\ addVote(s, v) =
              addPrevote([s EXCEPT !.prevotes[v.round][v.val] = v.block], v.round)
      \/ /\ s.precommits[v.round][v.val] = None
         /\ addVote(s, v) =
              addPrecommit([s EXCEPT !.precommits[v.round][v.val] = v.block], v.round)
      \/ addVote(s, v) = s
  BY SMTT(60) DEF addVote
<1> QED BY <1>1, <1>2, <1>3, <1>4, <1>5, Zenon
-------------------------------------------------------------------------------
\* The handlers and the steps of receiveRoutine.
LEMMA HandleMsg ==
  ASSUME NEW s, Good(s), s.height <= MaxHeight, NEW m \in Votes \cup Proposals \cup Parts
  PROVE  Handles(s, handleMsg(s, m))
<1>1. Votes \cap Parts = {} /\ Proposals \cap Parts = {} /\ Votes \cap Proposals = {}
  BY DEF Votes, Parts, Proposals
<1>2. CASE m \in Proposals
  <2>1. handleMsg(s, m) = setProposal(s, m)
    BY <1>1, <1>2, Zenon DEF handleMsg
  <2>2. Enters(s, setProposal(s, m))
    BY <1>2, SetProposal, Zenon
  <2> QED BY <2>1, <2>2, Zenon DEF Enters, Handles, Moves
<1>3. CASE m \in Parts
  <2>1. handleMsg(s, m) = addProposalBlockPart(s, m)
    BY <1>1, <1>3, Zenon DEF handleMsg
  <2> QED BY <1>3, <2>1, AddProposalBlockPart, Zenon
<1>4. CASE m \in Votes
  <2>1. handleMsg(s, m) = addVote(s, m)
    BY <1>1, <1>4, Zenon DEF handleMsg
  <2> QED BY <1>4, <2>1, AddVote, Zenon
<1> QED BY <1>2, <1>3, <1>4, Zenon

LEMMA HandleTimeout ==
  ASSUME NEW s, Good(s), NEW t \in Timeouts, t.height = s.height => t.round <= s.round,
         t.step = PrecommitWait => t.round < MaxRound
  PROVE  Handles(s, handleTimeout(s, t))
<1>0. s \in RoundState /\ t.round \in Rounds /\ t.round \in Nat /\ 0 \in Rounds
  BY Constants, Zenon DEF Good, Timeouts
<1>1. CASE Stale(s, t)
  <2>1. handleTimeout(s, t) = s
    BY <1>1, Zenon DEF handleTimeout
  <2> QED BY <1>0, <2>1, WithinRefl, Zenon DEF Handles, Moves
<1>2. CASE ~Stale(s, t)
  <2>1. t.round <= s.round
    BY <1>2, Zenon DEF Stale
  <2>2. PICK a : a = enterPrecommit(s, t.round)
    BY Zenon
  <2>3. Enters(s, a) /\ Enters(s, enterPrevote(s, t.round))
    BY <1>0, <2>1, <2>2, EnterPrecommit, EnterPrevote, Zenon
  <2>4. Enters(s, enterNewRound(s, 0)) /\ Enters(s, enterPropose(s, 0)) /\ Enters(s, Panic(s))
    BY <1>0, EnterNewRound, EnterPropose, Panics, Zenon
  <2>5. t.step = PrecommitWait => Enters(s, enterNewRound(a, t.round + 1))
    <3> SUFFICES ASSUME t.step = PrecommitWait PROVE Enters(s, enterNewRound(a, t.round + 1))
      BY Zenon
    <3>1. PICK r \in Rounds : r = t.round + 1
      BY <1>0, ConsensusAssumption DEF Rounds
    <3>2. Enters(a, enterNewRound(a, r))
      BY <2>3, EnterNewRound, Zenon DEF Enters
    <3>3. Enters(s, enterNewRound(a, r))
      BY <2>3, <3>2, EntersTrans, Zenon
    <3> QED BY <3>1, <3>3, Zenon
  <2>6. \/ handleTimeout(s, t) = enterNewRound(s, 0)
        \/ handleTimeout(s, t) = enterPropose(s, 0)
        \/ handleTimeout(s, t) = enterPrevote(s, t.round)
        \/ handleTimeout(s, t) = a
        \/ t.step = PrecommitWait /\ handleTimeout(s, t) = enterNewRound(a, t.round + 1)
        \/ handleTimeout(s, t) = Panic(s)
    BY <1>2, <2>2 DEF handleTimeout
  <2>7. Enters(s, handleTimeout(s, t))
    BY <2>3, <2>4, <2>5, <2>6, Zenon
  <2> QED BY <2>7, Zenon DEF Enters, Handles, Moves
<1> QED BY <1>1, <1>2, Zenon

LEMMA HandleTxsAvailable ==
  ASSUME NEW s, Good(s)
  PROVE  Handles(s, handleTxsAvailable(s))
<1>0. s \in RoundState /\ s.round \in Nat /\ s.step \in 1..8 /\ 0 \in Rounds /\ NewRound \in Steps
  BY Fields, Constants, StepValues, Zenon DEF Good
<1>1. \/ handleTxsAvailable(s) = s
      \/ s.round = 0 /\ handleTxsAvailable(s) = scheduleTimeout(s, 0, NewRound)
      \/ handleTxsAvailable(s) = enterPropose(s, 0)
  BY DEF handleTxsAvailable
<1>2. Enters(s, s) /\ Enters(s, enterPropose(s, 0))
  BY <1>0, EntersRefl, EnterPropose, Zenon
<1>3. CASE s.round = 0 /\ handleTxsAvailable(s) = scheduleTimeout(s, 0, NewRound)
  <2>1. PICK t : t = scheduleTimeout(s, 0, NewRound)
    BY Zenon
  <2>2. /\ t \in RoundState /\ t.round = s.round /\ t.step = s.step /\ t.signed = s.signed
        /\ Same(s, t)
        /\ \A x \in t.tock : x \in s.tock \/ (x.height = s.height /\ x.round = 0)
    BY <1>0, <2>1, ScheduleFields, Zenon
  <2>3. Forward(s, t) /\ CommitSet(t)
    BY <1>0, <2>2 DEF Forward, CommitSet, Good, Same
  <2>4. \A x \in t.tock : x \in s.tock \/ (x.height = s.height /\ x.round <= t.round)
    BY <1>3, <2>2
  <2>5. Good(t) /\ Within(s, t)
    BY <2>2, <2>3, <2>4, Frame, Zenon DEF Same, SameVotes
  <2> QED BY <1>3, <2>1, <2>5, Zenon DEF Handles, Moves
<1> QED BY <1>1, <1>2, <1>3, Zenon DEF Enters, Handles, Moves

\* Fewer timeouts: those received and those dropped as stale.
LEMMA FewerTimeouts ==
  ASSUME NEW s, Good(s), NEW k, k \subseteq s.tock
  PROVE  LET t == [s EXCEPT !.tock = k] IN
         Good(t) /\ Within(s, t) /\ Same(s, t) /\ t.round = s.round /\ t.signed = s.signed
<1>0. s \in RoundState /\ k \in SUBSET Timeouts
  BY Fields, Zenon DEF Good
<1>1. PICK t : t = [s EXCEPT !.tock = k]
  BY Zenon
<1>2. t \in RoundState
  BY <1>0, <1>1, ZenonT(120) DEF RoundState
<1>3. t.round = s.round /\ t.step = s.step /\ t.signed = s.signed /\ t.tock = k /\ Same(s, t)
  BY <1>0, <1>1, ZenonT(120) DEF RoundState, Same
<1>4. Forward(s, t) /\ CommitSet(t)
  BY <1>0, <1>3, Fields DEF Forward, CommitSet, Good, Same
<1>5. Good(t) /\ Within(s, t)
  BY <1>2, <1>3, <1>4, Frame, Zenon DEF Same, SameVotes
<1> QED BY <1>1, <1>3, <1>5, Zenon

LEMMA DropStale ==
  ASSUME NEW s, Good(s), NEW t, Handles(s, t)
  PROVE  Handles(s, dropStale(t))
<1>1. PICK u : u = dropStale(t)
  BY Zenon
<1>2. PICK k : k = {x \in t.tock : ~Stale(t, x)}
  BY Zenon
<1>3. u = [t EXCEPT !.tock = k] /\ k \subseteq t.tock /\ Good(t)
  BY <1>1, <1>2, Zenon DEF dropStale, Handles
<1>4. Good(u) /\ Within(t, u) /\ Same(t, u) /\ u.signed = t.signed
  BY <1>3, FewerTimeouts, Zenon
<1>5. CASE Within(s, t)
  <2>1. Within(s, u)
    BY <1>3, <1>4, <1>5, WithinTrans, Zenon DEF Good
  <2> QED BY <1>1, <1>4, <2>1, Zenon DEF Handles, Moves
<1>6. CASE Leaves(s, t)
  <2>1. Leaves(s, u)
    BY <1>4, <1>6, Zenon DEF Leaves, Same
  <2> QED BY <1>1, <1>4, <2>1, Zenon DEF Handles, Moves
<1> QED BY <1>5, <1>6, Zenon DEF Handles, Moves

\* One lemma for every action.
LEMMA NextStep ==
  ASSUME IInv, Next
  PROVE  Handles(cs, cs')
<1>0. Good(cs) /\ cs \in RoundState
  BY Zenon DEF IInv, Good
<1>1. ASSUME Running, NEW m \in Votes \cup Proposals \cup Parts, Deliver(m)
      PROVE  Handles(cs, cs')
  <2>1. cs.height <= MaxHeight
    BY <1>1, Zenon DEF Running
  <2>2. Handles(cs, handleMsg(cs, m))
    BY <1>0, <2>1, HandleMsg, Zenon
  <2> QED BY <1>0, <1>1, <2>2, DropStale, Zenon DEF Deliver
<1>2. CASE ReceiveProposal
  <2>1. PICK p \in PeerProposals :
          Deliver([height |-> cs.height, round |-> p.round, polRound |-> p.polRound, block |-> p.block])
    BY <1>2, Zenon DEF ReceiveProposal
  <2>2. [height |-> cs.height, round |-> p.round, polRound |-> p.polRound, block |-> p.block] \in Proposals
    BY <1>0, ConsensusAssumption, ZenonT(120) DEF Proposals, RoundState
  <2> QED BY <1>1, <1>2, <2>1, <2>2, Zenon DEF ReceiveProposal
<1>3. CASE ReceiveBlockPart
  <2>1. PICK b \in Blocks : Deliver([height |-> cs.height, part |-> b])
    BY <1>3, Zenon DEF ReceiveBlockPart
  <2>2. [height |-> cs.height, part |-> b] \in Parts
    BY <1>0, ZenonT(120) DEF Parts, RoundState
  <2> QED BY <1>1, <1>3, <2>1, <2>2, Zenon DEF ReceiveBlockPart
<1>4. CASE ReceiveVote
  <2>1. PICK v \in PeerVotes :
          Deliver([height |-> cs.height, type |-> v.type, round |-> v.round, val |-> v.val,
                   block |-> v.block])
    BY <1>4, Zenon DEF ReceiveVote
  <2>2. [height |-> cs.height, type |-> v.type, round |-> v.round, val |-> v.val,
         block |-> v.block] \in Votes
    BY <1>0, ConsensusAssumption, ZenonT(120) DEF Votes, RoundState
  <2> QED BY <1>1, <1>4, <2>1, <2>2, Zenon DEF ReceiveVote
<1>5. CASE ReceiveLastPrecommit
  <2>1. PICK v \in PeerVotes :
          Deliver([height |-> cs.height - 1, type |-> v.type, round |-> v.round, val |-> v.val,
                   block |-> v.block])
    BY <1>5, Zenon DEF ReceiveLastPrecommit
  <2>2. cs.height - 1 \in Heights
    BY <1>0, <1>5, ConsensusAssumption DEF ReceiveLastPrecommit, RoundState, Heights
  <2>3. [height |-> cs.height - 1, type |-> v.type, round |-> v.round, val |-> v.val,
         block |-> v.block] \in Votes
    BY <2>2, ConsensusAssumption, Zenon DEF Votes
  <2> QED BY <1>1, <1>5, <2>1, <2>3, Zenon DEF ReceiveLastPrecommit
<1>6. CASE ReceiveInternal
  <2>1. PICK m \in cs.internal : cs' = dropStale(handleMsg([cs EXCEPT !.internal = @ \ {m}], m))
    BY <1>6, Zenon DEF ReceiveInternal
  <2>2. cs.internal \subseteq Votes \cup Proposals \cup Parts
    BY <1>0, ZenonT(120) DEF RoundState
  <2>3. PICK i : i = cs.internal \ {m}
    BY Zenon
  <2>4. PICK s : s = [cs EXCEPT !.internal = i]
    BY Zenon
  <2>5. i \in SUBSET (Votes \cup Proposals \cup Parts) /\ m \in Votes \cup Proposals \cup Parts
    BY <2>2, <2>3, Zenon
  <2>6. s \in RoundState
    BY <1>0, <2>4, <2>5, ZenonT(120) DEF RoundState
  <2>7. s.round = cs.round /\ s.step = cs.step /\ s.signed = cs.signed /\ s.tock = cs.tock /\ Same(cs, s)
    BY <1>0, <2>4, ZenonT(120) DEF RoundState, Same
  <2>8. Forward(cs, s) /\ CommitSet(s)
    BY <1>0, <2>7, Fields DEF Forward, CommitSet, Good, Same
  <2>9. Good(s) /\ Within(cs, s)
    BY <1>0, <2>6, <2>7, <2>8, Frame, Zenon DEF Same, SameVotes
  <2>10. s.height <= MaxHeight
    BY <1>6, <2>7, Zenon DEF ReceiveInternal, Running, Same
  <2>11. Handles(s, handleMsg(s, m))
    BY <2>5, <2>9, <2>10, HandleMsg, Zenon
  <2>12. Handles(cs, handleMsg(s, m))
    BY <1>0, <2>9, <2>11, HandlesAfter, Zenon
  <2> QED BY <1>0, <2>1, <2>3, <2>4, <2>12, DropStale, Zenon
<1>7. CASE ReceiveTimeout
  <2>1. PICK t \in cs.tock :
          /\ t.step = PrecommitWait => t.round < MaxRound
          /\ cs' = dropStale(handleTimeout([cs EXCEPT !.tock = @ \ {t}], t))
    BY <1>7, Zenon DEF ReceiveTimeout
  <2>2. PICK k : k = cs.tock \ {t}
    BY Zenon
  <2>3. PICK s : s = [cs EXCEPT !.tock = k]
    BY Zenon
  <2>4. Good(s) /\ Within(cs, s) /\ Same(cs, s) /\ s.round = cs.round
    BY <1>0, <2>2, <2>3, FewerTimeouts
  <2>5. t \in Timeouts /\ t.height \in Nat /\ cs.height \in Nat
    BY <1>0, Fields, MessageFields, Zenon
  <2>6. t.height = s.height => t.round <= s.round
    BY <1>0, <2>4, <2>5 DEF Good, TimeoutsPassed, Same
  <2>7. Handles(s, handleTimeout(s, t))
    BY <2>1, <2>4, <2>5, <2>6, HandleTimeout, Zenon
  <2>8. Handles(cs, handleTimeout(s, t))
    BY <1>0, <2>4, <2>7, HandlesAfter, Zenon
  <2> QED BY <1>0, <2>1, <2>2, <2>3, <2>8, DropStale, Zenon
<1>8. CASE TxsAvailable
  <2>1. Handles(cs, handleTxsAvailable(cs))
    BY <1>0, HandleTxsAvailable, Zenon
  <2> QED BY <1>0, <1>8, <2>1, DropStale, Zenon DEF TxsAvailable
<1> QED BY <1>2, <1>3, <1>4, <1>5, <1>6, <1>7, <1>8, Zenon DEF Next

LEMMA Stutters ==
  ASSUME IInv, UNCHANGED cs
  PROVE  IInv' /\ Moves(cs, cs')
BY WithinRefl, Zenon DEF IInv, Good, Moves

\* The invariant holds, and every step moves forward in the sense of Moves.
LEMMA Inductive == Spec => []IInv /\ [][IInv /\ Moves(cs, cs')]_cs
<1>1. Init => IInv
  BY InitGood, Zenon DEF Init, IInv
<1>2. IInv /\ [Next]_cs => IInv' /\ Moves(cs, cs')
  BY NextStep, Stutters, Zenon DEF Handles, IInv
<1> QED BY <1>1, <1>2, PTL DEF Spec
-------------------------------------------------------------------------------
\* The round state keeps its shape, whatever is received and in whatever order: no handler
\* of state.go sets a field to a value it cannot have.
THEOREM TypeHolds == Spec => []TypeOK
<1>1. IInv => TypeOK
  BY Zenon DEF IInv, Good, TypeOK
<1> QED BY <1>1, Inductive, PTL

\* The PrivValidator is never asked for a vote or proposal it has to refuse
\* (signAddVote, decideProposal): each is for a later round or step than all before.
THEOREM NeverRefusedHolds == Spec => []NeverRefused
<1>1. IInv => NeverRefused
  BY Zenon DEF IInv, Good, SignedInOrder, NeverRefused
<1> QED BY <1>1, Inductive, PTL

\* enterPrecommit and addVote lock and unlock on polkas: a locked block was precommitted in
\* lockedRound with a polka in the vote sets, a valid block had one in validRound.
THEOREM LocksJustifiedHolds == Spec => []LocksJustified
<1>1. IInv => LocksJustified
  <2> SUFFICES ASSUME IInv PROVE LocksJustified
    BY Zenon
  <2>1. Locked(cs) /\ Valid(cs)
    BY Zenon DEF IInv, Good
  <2> QED BY <2>1, Zenon DEF Locked, Valid, IsPrecommit, LocksJustified
<1> QED BY <1>1, Inductive, PTL

\* No handler takes the node back to an earlier height, round or step.
THEOREM HRSAdvancesHolds == Spec => HRSAdvances
<1> DEFINE Advances == \/ cs'.height > cs.height
                       \/ cs'.height = cs.height /\ cs'.round > cs.round
                       \/ cs'.height = cs.height /\ cs'.round = cs.round /\ cs'.step >= cs.step
<1>1. IInv /\ Moves(cs, cs') => Advances
  <2> SUFFICES ASSUME IInv, Moves(cs, cs') PROVE Advances
    BY Zenon
  <2>1. cs.height \in Nat
    BY Fields, Zenon DEF IInv, Good
  <2> QED BY <2>1 DEF Moves, Within, Leaves, Forward
<1>2. Spec => [][Advances]_cs
  BY <1>1, Inductive, PTL
<1> QED BY <1>2, Zenon DEF HRSAdvances

\* finalizeCommit leaves a height only on 2/3 of the precommits of one round for one
\* valid block, and updateToState makes them the LastCommit.
THEOREM CommitsDecidedHolds == Spec => CommitsDecided
<1> DEFINE Decided == cs'.height # cs.height =>
                        /\ cs'.height = cs.height + 1
                        /\ \E c \in ValidBlocks : HasMajority(cs'.lastCommit, c)
<1>1. IInv /\ Moves(cs, cs') => Decided
  BY Zenon DEF Moves, Within, Leaves
<1>2. Spec => [][Decided]_cs
  BY <1>1, Inductive, PTL
<1> QED BY <1>2, Zenon DEF CommitsDecided
-------------------------------------------------------------------------------
\* The refinement of Voter.  The mapping, for any round state.
SignedIn(s) ==
  {[type |-> w.type, round |-> w.round, val |-> w.val, block |-> w.block] : w \in s.signed \cap Votes}

SeenIn(s) ==
  {m \in [type : {"prevote", "precommit"}, round : Rounds, val : Validators, block : BlockIDs] :
     m.block = IF m.type = "prevote" THEN s.prevotes[m.round][m.val]
                                     ELSE s.precommits[m.round][m.val]}

\* The majorities of the vote sets are the polkas of Voter: TotalVotingPower*2/3 < sum,
\* in whole numbers, is 2*TotalVotingPower < 3*sum.
LEMMA PolkaSeen ==
  ASSUME NEW s \in RoundState, NEW r \in Rounds, NEW c \in BlockIDs, HasMajority(s.prevotes[r], c)
  PROVE  Voter!Polka(SeenIn(s), r, c)
<1>1. \A v \in Validators :
        [type |-> "prevote", round |-> r, val |-> v, block |-> c] \in SeenIn(s)
          <=> s.prevotes[r][v] = c
  BY Zenon DEF SeenIn
<1>2. PICK S : S = {v \in Validators : s.prevotes[r][v] = c}
  BY Zenon
<1>3. Voter!VotersFor(SeenIn(s), "prevote", r, c) = S
  BY <1>1, <1>2, Zenon DEF Voter!VotersFor
<1>4. 3 * Power[S] > 2 * Power[Validators]
  BY <1>2, Zenon DEF HasMajority, TwoThirds
<1>5. S \in SUBSET Validators /\ Validators \in SUBSET Validators
  BY <1>2, Zenon
<1>6. Power[S] \in Nat /\ Power[Validators] \in Nat
  BY <1>5, ConsensusAssumption, Zenon
<1>7. (Power[Validators] * 2) \div 3 < Power[S]
  BY <1>4, <1>6
<1> QED BY <1>3, <1>7, Zenon DEF Voter!Polka, Voter!Quorum

LEMMA PolkaAgainstSeen ==
  ASSUME NEW s \in RoundState, NEW w \in Votes, NEW r \in Rounds, PolkaAgainst(s, w, r)
  PROVE  \E q \in (w.round + 1)..r : \E c \in BlockIDs \ {w.block} : Voter!Polka(SeenIn(s), q, c)
<1>1. PICK q \in (w.round + 1)..r : \E c \in BlockIDs \ {w.block} : HasMajority(s.prevotes[q], c)
  BY Zenon DEF PolkaAgainst
<1>2. q \in Rounds
  BY MessageFields, ConsensusAssumption DEF Rounds
<1> QED BY <1>1, <1>2, PolkaSeen, Zenon

\* What a signed vote is mapped to.
LEMMA SignedMap ==
  ASSUME NEW s \in RoundState, NEW m \in SignedIn(s)
  PROVE  \E w \in s.signed : /\ w \in Votes
                             /\ m.type = w.type /\ m.round = w.round /\ m.block = w.block
                             /\ m = [type |-> w.type, round |-> w.round, val |-> w.val,
                                     block |-> w.block]
                             /\ MsgStep(w) = IF m.type = "prevote" THEN Prevote ELSE Precommit
BY MessageFields DEF SignedIn

LEMMA VoterStep ==
  ASSUME NEW s, NEW t, Good(s), Good(t), Within(s, t)
  PROVE  /\ SeenIn(s) \subseteq SeenIn(t)
         /\ SignedIn(s) \subseteq SignedIn(t)
         /\ \A m \in SignedIn(t) \ SignedIn(s) :
              /\ Voter!Allowed({w \in SignedIn(t) : Voter!Before(w, m)}, SeenIn(t), m)
              /\ \A w \in SignedIn(t) : w = m \/ Voter!Before(w, m) \/ Voter!Before(m, w)
         /\ \A m \in SignedIn(t) \ SignedIn(s), w \in SignedIn(s) : Voter!Before(w, m)
<1>0. s \in RoundState /\ t \in RoundState /\ s.round \in Nat /\ s.step \in 1..8
  BY Fields, Zenon DEF Good
<1>1. SeenIn(s) \subseteq SeenIn(t)
  <2> SUFFICES ASSUME NEW m \in SeenIn(s) PROVE m \in SeenIn(t)
    BY Zenon
  <2>1. m.round \in Rounds /\ m.val \in Validators /\ m.block # None
    BY Constants, Zenon DEF SeenIn
  <2>2. Grows(s.prevotes, t.prevotes) /\ Grows(s.precommits, t.precommits)
    BY Zenon DEF Within
  <2> QED BY <2>1, <2>2 DEF SeenIn, Grows
<1>2. SignedIn(s) \subseteq SignedIn(t)
  BY Zenon DEF SignedIn, Within
<1>3. \A m \in SignedIn(t) \ SignedIn(s), w \in SignedIn(s) : Voter!Before(w, m)
  <2> SUFFICES ASSUME NEW m \in SignedIn(t), m \notin SignedIn(s), NEW w \in SignedIn(s)
               PROVE  Voter!Before(w, m)
    BY Zenon
  <2>1. PICK m0 \in t.signed :
          /\ m0 \in Votes /\ m.type = m0.type /\ m.round = m0.round
          /\ m = [type |-> m0.type, round |-> m0.round, val |-> m0.val, block |-> m0.block]
          /\ MsgStep(m0) = IF m.type = "prevote" THEN Prevote ELSE Precommit
    BY <1>0, SignedMap, Zenon
  <2>2. PICK w0 \in s.signed :
          /\ w0 \in Votes /\ w.type = w0.type /\ w.round = w0.round
          /\ MsgStep(w0) = IF w.type = "prevote" THEN Prevote ELSE Precommit
    BY <1>0, SignedMap, Zenon
  <2>3. m0 \notin s.signed
    BY <2>1, Zenon DEF SignedIn
  <2>4. After(s, m0) /\ Reached(s, w0)
    BY <2>3, Zenon DEF Within, Good, SignedInOrder
  <2>5. m.round \in Nat /\ w.round \in Nat
    BY <2>1, <2>2, MessageFields, Zenon
  <2> QED BY <1>0, <2>1, <2>2, <2>4, <2>5
       DEF After, Reached, Voter!Before, Voter!Step, Prevote, Precommit
<1>4. \A m, w \in SignedIn(t) : w = m \/ Voter!Before(w, m) \/ Voter!Before(m, w)
  <2> SUFFICES ASSUME NEW m \in SignedIn(t), NEW w \in SignedIn(t),
                      ~Voter!Before(w, m), ~Voter!Before(m, w)
               PROVE  w = m
    BY Zenon
  <2>1. PICK m0 \in t.signed :
          /\ m0 \in Votes /\ m.type = m0.type /\ m.round = m0.round
          /\ m = [type |-> m0.type, round |-> m0.round, val |-> m0.val, block |-> m0.block]
          /\ MsgStep(m0) = IF m.type = "prevote" THEN Prevote ELSE Precommit
    BY <1>0, SignedMap, Zenon
  <2>2. PICK w0 \in t.signed :
          /\ w0 \in Votes /\ w.type = w0.type /\ w.round = w0.round
          /\ w = [type |-> w0.type, round |-> w0.round, val |-> w0.val, block |-> w0.block]
          /\ MsgStep(w0) = IF w.type = "prevote" THEN Prevote ELSE Precommit
    BY <1>0, SignedMap, Zenon
  <2>3. m.round \in Nat /\ w.round \in Nat
    BY <2>1, <2>2, MessageFields, Zenon
  <2>4. m.round = w.round /\ Voter!Step(m) = Voter!Step(w)
    BY <2>3 DEF Voter!Before, Voter!Step
  <2>5. MsgStep(m0) = MsgStep(w0)
    BY <2>1, <2>2, <2>4 DEF Voter!Step
  <2>6. m0 = w0
    BY <2>1, <2>2, <2>4, <2>5, Zenon DEF Good, SignedInOrder
  <2> QED BY <2>1, <2>2, <2>6, Zenon
<1>5. \A m \in SignedIn(t) : Voter!Allowed({w \in SignedIn(t) : Voter!Before(w, m)}, SeenIn(t), m)
  <2> SUFFICES ASSUME NEW m \in SignedIn(t)
               PROVE  Voter!Allowed({w \in SignedIn(t) : Voter!Before(w, m)}, SeenIn(t), m)
    BY Zenon
  <2>1. PICK m0 \in t.signed :
          m0 \in Votes /\ m.type = m0.type /\ m.round = m0.round /\ m.block = m0.block
    BY <1>0, SignedMap, Zenon
  <2>2. m.round \in Rounds /\ m.round \in Nat /\ m.block \in BlockIDs
    BY <2>1, MessageFields, Zenon
  <2>3. m.type = "precommit" /\ m.block \in Blocks => Voter!Polka(SeenIn(t), m.round, m.block)
    <3> SUFFICES ASSUME m.type = "precommit", m.block \in Blocks
                 PROVE  Voter!Polka(SeenIn(t), m.round, m.block)
      BY Zenon
    <3>1. HasMajority(t.prevotes[m.round], m.block)
      BY <2>1, Zenon DEF Good, Precommitted, IsPrecommit
    <3> QED BY <1>0, <2>2, <3>1, PolkaSeen, Zenon
  <2>4. ASSUME m.type = "prevote", NEW w \in SignedIn(t), Voter!Before(w, m),
               w.type = "precommit", w.block \in Blocks, w.block # m.block
        PROVE  \E q \in (w.round + 1)..m.round : \E c \in BlockIDs \ {w.block} :
                 Voter!Polka(SeenIn(t), q, c)
    <3>1. PICK w0 \in t.signed :
            w0 \in Votes /\ w.type = w0.type /\ w.round = w0.round /\ w.block = w0.block
      BY <1>0, SignedMap, Zenon
    <3>2. w.round < m.round
      BY <2>2, <2>4, <3>1, MessageFields DEF Voter!Before, Voter!Step
    <3>3. PolkaAgainst(t, w0, m0.round)
      BY <2>1, <2>4, <3>1, <3>2, Zenon DEF Good, Prevoted, IsPrecommit
    <3>4. \E q \in (w0.round + 1)..m0.round : \E c \in BlockIDs \ {w0.block} :
            Voter!Polka(SeenIn(t), q, c)
      BY <1>0, <2>1, <2>2, <3>1, <3>3, PolkaAgainstSeen, Zenon
    <3> QED BY <2>1, <3>1, <3>4, Zenon
  <2>5. m.type = "prevote" =>
          Voter!Unlocked({w \in SignedIn(t) : Voter!Before(w, m)}, SeenIn(t), m.round, m.block)
    <3> SUFFICES ASSUME m.type = "prevote",
                        NEW w \in {x \in SignedIn(t) : Voter!Before(x, m)},
                        w.type = "precommit", w.block \in Blocks, w.block # m.block
                 PROVE  \E q \in (w.round + 1)..m.round : \E c \in BlockIDs \ {w.block} :
                          Voter!Polka(SeenIn(t), q, c)
      BY Zenon DEF Voter!Unlocked, Voter!BlockIDs, BlockIDs
    <3>1. w \in SignedIn(t) /\ Voter!Before(w, m)
      BY Zenon
    <3> QED BY <2>4, <3>1, Zenon
  <2> QED BY <2>3, <2>5, Zenon DEF Voter!Allowed
<1> QED BY <1>1, <1>2, <1>3, <1>4, <1>5, Zenon

\* ConsensusState implements Voter: whatever a validator running state.go receives, it
\* votes by the rules from which agreement is proved.
THEOREM ImplementsVoterHolds == Spec => ImplementsVoter
<1>0. signedVotes = SignedIn(cs) /\ seenVotes = SeenIn(cs)
  BY Zenon DEF signedVotes, seenVotes, SignedIn, SeenIn
<1>1. (signedVotes = SignedIn(cs) /\ seenVotes = SeenIn(cs))'
  BY Zenon DEF signedVotes, seenVotes, SignedIn, SeenIn
<1>2. Init => Voter!Init
  <2> SUFFICES ASSUME Init PROVE Voter!Init
    BY Zenon
  <2>1. cs.height = 1 /\ cs.signed = {}
    BY Zenon DEF Init, InitState
  <2>2. cs.prevotes = [r \in Rounds |-> NoVotes] /\ cs.precommits = [r \in Rounds |-> NoVotes]
    BY Zenon DEF Init, InitState
  <2>3. SeenIn(cs) = {}
    BY <2>2, Constants DEF SeenIn, NoVotes
  <2>4. SignedIn(cs) = {}
    BY <2>1, Zenon DEF SignedIn
  <2> QED BY <1>0, <2>1, <2>3, <2>4, Zenon DEF Voter!Init
<1>3. IInv /\ IInv' /\ Moves(cs, cs') => [Voter!Next]_(Voter!vars)
  <2> SUFFICES ASSUME IInv, IInv', Moves(cs, cs') PROVE Voter!Next
    BY Zenon
  <2>1. CASE Within(cs, cs')
    <3>1. Good(cs) /\ Good(cs')
      BY Zenon DEF IInv
    <3>2. cs'.height = cs.height
      BY <2>1, Zenon DEF Within
    <3> QED BY <1>0, <1>1, <2>1, <3>1, <3>2, VoterStep, Zenon DEF Voter!Next, Voter!Vote
  <2>2. CASE Leaves(cs, cs')
    <3>1. SeenIn(cs') = {}
      BY <2>2, Constants DEF Leaves, SeenIn, NoVotes
    <3>2. SignedIn(cs') = {}
      BY <2>2, Zenon DEF Leaves, SignedIn
    <3>3. cs'.height = cs.height + 1
      BY <2>2, Zenon DEF Leaves
    <3> QED BY <1>1, <3>1, <3>2, <3>3, Zenon DEF Voter!Next, Voter!NewHeight
  <2> QED BY <2>1, <2>2, Zenon DEF Moves
<1>4. UNCHANGED cs => UNCHANGED Voter!vars
  BY Zenon DEF Voter!vars, signedVotes, seenVotes
<1>5. Spec => Init /\ []IInv /\ [][IInv /\ Moves(cs, cs')]_cs
  BY Inductive, PTL DEF Spec
<1>6. Spec => Voter!Spec
  BY <1>2, <1>3, <1>4, <1>5, PTL DEF Voter!Spec
<1> QED BY <1>6, Zenon DEF ImplementsVoter
===============================================================================
