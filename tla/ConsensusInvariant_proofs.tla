---------------------- MODULE ConsensusInvariant_proofs -----------------------
(***************************************************************************)
(* The inductive invariant of the state machine of a validator, what is    *)
(* common to its functions, and those that enter the prevotes and what is  *)
(* before them, and the waits for votes.                                   *)
(*                                                                         *)
(* Each function of state.go is an operator on round states, and has one   *)
(* lemma: from a round state that satisfies Good it leads to one that      *)
(* does, and the two are related by Within (the same height) or Leaves     *)
(* (the next one).  Here are Good, those relations, and the lemmas on      *)
(* fields and votes; the precommits, the commit and what is done with      *)
(* proposals and polkas follow in ConsensusSteps_proofs, the handlers and  *)
(* the theorems in ConsensusState_proofs.                                  *)
(***************************************************************************)
EXTENDS ConsensusState, TLAPS

\* The step in which a message of Self is signed.
MsgStep(m) == IF m \in Proposals THEN Propose ELSE IF m.type = "prevote" THEN Prevote ELSE Precommit

\* Message m was signed in a step the node has reached, or belongs to a later one.
Reached(s, m) == m.round < s.round \/ (m.round = s.round /\ MsgStep(m) <= s.step)
After(s, m) == m.round > s.round \/ (m.round = s.round /\ MsgStep(m) > s.step)

\* Some block other than that of w, a precommit, has a polka in a round after w, up to r.
PolkaAgainst(s, w, r) ==
  \E q \in (w.round + 1)..r : \E c \in BlockIDs \ {w.block} : HasMajority(s.prevotes[q], c)

IsPrecommit(w) == w \in Votes /\ w.type = "precommit" /\ w.block \in Blocks

\* What was signed is of this step or an earlier one, and one message for each.
SignedInOrder(s) ==
  /\ ~s.refused
  /\ \A w \in s.signed : Reached(s, w)
  /\ \A w, m \in s.signed : w.round = m.round /\ MsgStep(w) = MsgStep(m) => w = m

\* No timeout is of a later round: enterPrevote and enterPrecommit sign for the round
\* the node is in, whatever round they were called with.
TimeoutsPassed(s) ==
  \A t \in s.tock : t.height < s.height \/ (t.height = s.height /\ t.round <= s.round)

Locked(s) ==
  s.lockedBlock # None =>
    /\ s.lockedRound \in 0..s.round
    /\ HasMajority(s.prevotes[s.lockedRound], s.lockedBlock)
    /\ \E w \in s.signed : IsPrecommit(w) /\ w.round = s.lockedRound /\ w.block = s.lockedBlock

Valid(s) ==
  s.validBlock # None =>
    s.validRound \in 0..s.round /\ HasMajority(s.prevotes[s.validRound], s.validBlock)

\* The Commit step is entered with the round of the commit.
CommitSet(s) == s.step = Commit => s.commitRound \in Rounds

\* A block was precommitted on a polka, and is locked until there is one against it.
Precommitted(s) ==
  \A w \in s.signed : IsPrecommit(w) =>
    /\ HasMajority(s.prevotes[w.round], w.block)
    /\ \/ s.lockedBlock = w.block /\ w.round <= s.lockedRound
       \/ PolkaAgainst(s, w, s.round)

\* Anything else was prevoted only after such a polka.
Prevoted(s) ==
  \A w, m \in s.signed :
    /\ IsPrecommit(w) /\ w.round < m.round
    /\ m \in Votes /\ m.type = "prevote" /\ m.block # w.block
    => PolkaAgainst(s, w, m.round)

Good(s) ==
  /\ s \in RoundState
  /\ SignedInOrder(s)
  /\ TimeoutsPassed(s)
  /\ CommitSet(s)
  /\ Locked(s)
  /\ Valid(s)
  /\ Precommitted(s)
  /\ Prevoted(s)

\* The inductive invariant.
IInv == Good(cs)

Forward(s, t) == t.round > s.round \/ (t.round = s.round /\ t.step >= s.step)

\* Votes are added and never replaced.
Grows(vs, ws) == \A r \in Rounds : \A v \in Validators : vs[r][v] # None => ws[r][v] = vs[r][v]

\* A step within a height: forward, with more votes, and what it signs comes after
\* everything signed before.
Within(s, t) ==
  /\ t.height = s.height
  /\ Forward(s, t)
  /\ Grows(s.prevotes, t.prevotes) /\ Grows(s.precommits, t.precommits)
  /\ s.signed \subseteq t.signed
  /\ \A m \in t.signed \ s.signed : After(s, m)

\* The step to the next height: on a commit of a valid block, with no vote yet.
Leaves(s, t) ==
  /\ t.height = s.height + 1
  /\ t.prevotes = [r \in Rounds |-> NoVotes] /\ t.precommits = [r \in Rounds |-> NoVotes]
  /\ \A m \in t.signed : m \notin Votes
  /\ \E c \in ValidBlocks : HasMajority(t.lastCommit, c)

Moves(s, t) == Within(s, t) \/ Leaves(s, t)
-------------------------------------------------------------------------------
\* Facts about votes, messages and the constants.
LEMMA Constants ==
  /\ Rounds \subseteq Nat /\ Heights \subseteq Nat /\ Nil \notin Blocks
  /\ None \notin BlockIDs /\ None \notin Blocks /\ Nil \in BlockIDs /\ Blocks \subseteq BlockIDs
  /\ ValidBlocks \subseteq Blocks /\ Self \in Validators /\ 0 \in Rounds
BY ConsensusAssumption, BlocksAssumption DEF Rounds, Heights, BlockIDs

LEMMA MessageKinds ==
  \A m \in Votes : m \notin Proposals
BY DEF Votes, Proposals

LEMMA Majority ==
  ASSUME NEW vs
  PROVE  /\ TwoThirdsMajority(vs) \in BlockIDs \cup {None}
         /\ TwoThirdsMajority(vs) # None =>
              TwoThirdsMajority(vs) \in BlockIDs /\ HasMajority(vs, TwoThirdsMajority(vs))
<1>1. CASE \E c \in BlockIDs : HasMajority(vs, c)
  <2>1. TwoThirdsMajority(vs) = CHOOSE c \in BlockIDs : HasMajority(vs, c)
    BY <1>1, Zenon DEF TwoThirdsMajority, HasTwoThirdsMajority
  <2> QED BY <1>1, <2>1, Zenon
<1>2. CASE ~ \E c \in BlockIDs : HasMajority(vs, c)
  BY <1>2, Zenon DEF TwoThirdsMajority, HasTwoThirdsMajority
<1> QED BY <1>1, <1>2, Zenon

\* A majority is not lost when votes are added.
LEMMA MajorityKept ==
  ASSUME NEW vs, NEW ws, \A v \in Validators : vs[v] # None => ws[v] = vs[v],
         NEW c \in BlockIDs, HasMajority(vs, c)
  PROVE  HasMajority(ws, c)
<1> DEFINE S == {v \in Validators : vs[v] = c}
           T == {v \in Validators : ws[v] = c}
<1>1. S \subseteq T /\ S \in SUBSET Validators /\ T \in SUBSET Validators /\ Validators \in SUBSET Validators
  BY Constants, Zenon
<1>2. 3 * Power[S] > 2 * Power[Validators]
  BY Zenon DEF HasMajority, TwoThirds
<1> HIDE DEF S, T
<1>3. Power[S] <= Power[T] /\ Power[S] \in Nat /\ Power[T] \in Nat /\ Power[Validators] \in Nat
  BY <1>1, ConsensusAssumption, Zenon
<1>4. 3 * Power[T] > 2 * Power[Validators]
  BY <1>2, <1>3
<1> QED BY <1>4, Zenon DEF HasMajority, TwoThirds, T
-------------------------------------------------------------------------------
\* The fields of a round state that the proofs look into.
LEMMA Fields ==
  ASSUME NEW s \in RoundState
  PROVE  /\ s.height \in Nat /\ s.round \in Nat /\ s.round \in Rounds /\ s.step \in 1..8
         /\ s.lockedRound \in Int /\ s.validRound \in Int
         /\ s.lockedBlock \in Blocks \cup {None} /\ s.validBlock \in Blocks \cup {None}
         /\ s.signed \subseteq Votes \cup Proposals /\ s.tock \subseteq Timeouts
         /\ s.prevotes \in [Rounds -> VoteSets] /\ s.precommits \in [Rounds -> VoteSets]
<1>1. s.height \in Heights /\ s.round \in Rounds /\ s.step \in NewHeight..Commit
  BY ZenonT(120) DEF RoundState
<1>2. s.lockedRound \in Rounds \cup {-1} /\ s.validRound \in Rounds \cup {-1}
  BY ZenonT(120) DEF RoundState
<1>3. s.lockedBlock \in Blocks \cup {None} /\ s.validBlock \in Blocks \cup {None}
  BY ZenonT(120) DEF RoundState
<1>4. s.signed \subseteq Votes \cup Proposals /\ s.tock \subseteq Timeouts
  BY ZenonT(120) DEF RoundState
<1>5. s.prevotes \in [Rounds -> VoteSets] /\ s.precommits \in [Rounds -> VoteSets]
  BY ZenonT(120) DEF RoundState
<1>6. s.height \in Nat /\ s.round \in Nat /\ s.step \in 1..8
  BY <1>1, Constants, Zenon DEF NewHeight, Commit
<1>7. s.lockedRound \in Int /\ s.validRound \in Int
  BY <1>2, ConsensusAssumption DEF Rounds
<1> QED BY <1>1, <1>3, <1>4, <1>5, <1>6, <1>7, Zenon

LEMMA MessageFields ==
  /\ \A m \in Votes \cup Proposals : /\ m.round \in Nat /\ m.round \in Rounds
                                     /\ MsgStep(m) \in {Propose, Prevote, Precommit}
  /\ \A m \in Votes : /\ m.block \in BlockIDs
                      /\ MsgStep(m) = IF m.type = "prevote" THEN Prevote ELSE Precommit
  /\ \A m \in Proposals : MsgStep(m) = Propose
  /\ \A t \in Timeouts : t.height \in Nat /\ t.round \in Nat
<1>1. \A m \in Votes \cup Proposals : m.round \in Rounds
  BY Zenon DEF Votes, Proposals
<1>2. \A m \in Votes : m.block \in BlockIDs
  BY Zenon DEF Votes
<1>3. \A t \in Timeouts : t.height \in Nat /\ t.round \in Rounds
  BY ConsensusAssumption DEF Timeouts
<1> QED BY <1>1, <1>2, <1>3, Constants, MessageKinds, Zenon DEF MsgStep

\* What the node signs next is never refused by the signer.
LEMMA NotRefused ==
  ASSUME NEW s, Good(s), NEW m \in Votes \cup Proposals, After(s, m),
         NEW a, a.signed = s.signed
  PROVE  ~Refuses(a, m)
<1> SUFFICES ASSUME NEW w \in s.signed
             PROVE  ~ \/ w.round > m.round
                      \/ w.round = m.round /\ SignStep(w) > SignStep(m)
                      \/ w.round = m.round /\ SignStep(w) = SignStep(m) /\ w # m
  BY Zenon DEF Refuses
<1>1. w \in Votes \cup Proposals /\ Reached(s, w)
  BY Fields, Zenon DEF Good, SignedInOrder
<1>2. w.round < m.round \/ (w.round = m.round /\ MsgStep(w) < MsgStep(m))
  BY <1>1, Fields, MessageFields DEF Good, Reached, After, Propose, Prevote, Precommit
<1>3. MsgStep(w) < MsgStep(m) => SignStep(w) < SignStep(m)
  BY DEF MsgStep, SignStep, Propose, Prevote, Precommit
<1>4. SignStep(w) \in Nat /\ SignStep(m) \in Nat
  BY Zenon DEF SignStep
<1> QED BY <1>1, <1>2, <1>3, <1>4, MessageFields

\* The votes and the valid block are the same.
SameVotes(s, t) ==
  /\ t.height = s.height /\ t.prevotes = s.prevotes /\ t.precommits = s.precommits
  /\ t.refused = s.refused /\ t.validRound = s.validRound /\ t.validBlock = s.validBlock

\* Steps that sign nothing and leave votes and locks alone.
LEMMA Frame ==
  ASSUME NEW s, Good(s), NEW t \in RoundState, Forward(s, t), CommitSet(t), SameVotes(s, t),
         t.signed = s.signed, t.lockedRound = s.lockedRound, t.lockedBlock = s.lockedBlock,
         \A x \in t.tock : x \in s.tock \/ (x.height = s.height /\ x.round <= t.round)
  PROVE  Good(t) /\ Within(s, t)
<1>1. s \in RoundState /\ s.round <= t.round
  BY Fields DEF Good, Forward
<1>2. SignedInOrder(t)
  BY <1>1, Fields, MessageFields DEF Good, SignedInOrder, Reached, Forward, Propose, Prevote, Precommit, SameVotes
<1>3. TimeoutsPassed(t)
  BY <1>1, Fields, MessageFields DEF Good, TimeoutsPassed, SameVotes
<1>4. Locked(t) /\ Valid(t)
  BY <1>1, Fields DEF Good, Locked, Valid, SameVotes
<1>5. \A w \in s.signed : PolkaAgainst(s, w, s.round) => PolkaAgainst(t, w, t.round)
  BY <1>1, Fields, MessageFields DEF PolkaAgainst, SameVotes
<1>6. Precommitted(t)
  BY <1>5, Zenon DEF Good, Precommitted, SameVotes
<1>7. Prevoted(t)
  BY Zenon DEF Good, Prevoted, PolkaAgainst, SameVotes
<1>8. Within(s, t)
  BY Zenon DEF Within, Grows, SameVotes
<1> QED BY <1>2, <1>3, <1>4, <1>6, <1>7, <1>8, Zenon DEF Good

\* A step from s to t that signs m keeps the lock, releases it on a polka for something
\* else, or takes it with a precommit on a polka.
Keeps(s, t, m) ==
  t.lockedRound = s.lockedRound /\ t.lockedBlock = s.lockedBlock /\ ~IsPrecommit(m)

Frees(s, t, m) ==
  /\ t.lockedBlock = None /\ ~IsPrecommit(m)
  /\ \E c \in BlockIDs : c # s.lockedBlock /\ HasMajority(s.prevotes[s.round], c)
  /\ \A w \in s.signed : IsPrecommit(w) => w.round < s.round

Takes(s, t, m) ==
  /\ t.lockedRound = m.round /\ t.lockedBlock = m.block
  /\ IsPrecommit(m) /\ m.round = s.round /\ HasMajority(s.prevotes[s.round], m.block)

\* A prevote is of the round of s and for the block it is locked on.
ObeysLock(s, m) ==
  m \in Votes /\ m.type = "prevote" =>
    m.round = s.round /\ (s.lockedBlock # None => m.block = s.lockedBlock)

\* Steps that sign m.
LEMMA Signs ==
  ASSUME NEW s, Good(s), NEW t \in RoundState, Forward(s, t), CommitSet(t), SameVotes(s, t),
         \A x \in t.tock : x \in s.tock \/ (x.height = s.height /\ x.round <= t.round),
         NEW m \in Votes \cup Proposals, t.signed = s.signed \cup {m},
         After(s, m), Reached(t, m), ObeysLock(s, m),
         Keeps(s, t, m) \/ Frees(s, t, m) \/ Takes(s, t, m)
  PROVE  Good(t) /\ Within(s, t)
<1>1. /\ s \in RoundState /\ s.round <= t.round /\ s.round \in Nat /\ t.round \in Nat
      /\ m.round \in Nat /\ s.round <= m.round /\ m.round <= t.round
  BY Fields, MessageFields DEF Good, Forward, After, Reached
<1>2. SignedInOrder(t)
  <2>1. \A w \in s.signed : /\ w \in Votes \cup Proposals /\ Reached(s, w) /\ Reached(t, w)
    BY <1>1, Fields, MessageFields DEF Good, SignedInOrder, Reached, Forward, Propose, Prevote, Precommit
  <2>2. \A w \in s.signed : ~(w.round = m.round /\ MsgStep(w) = MsgStep(m))
    BY <2>1, <1>1, Fields, MessageFields DEF Reached, After, Propose, Prevote, Precommit
  <2> QED BY <2>1, <2>2, Zenon DEF Good, SignedInOrder, SameVotes
<1>3. TimeoutsPassed(t)
  BY <1>1, Fields, MessageFields DEF Good, TimeoutsPassed, SameVotes
<1>4. Locked(t)
  <2>1. CASE Keeps(s, t, m)
    BY <1>1, <2>1, Fields DEF Good, Locked, Keeps, SameVotes
  <2>2. CASE Frees(s, t, m)
    BY <2>2, Zenon DEF Locked, Frees
  <2>3. CASE Takes(s, t, m)
    BY <1>1, <2>3 DEF Locked, Takes, SameVotes
  <2> QED BY <2>1, <2>2, <2>3, Zenon
<1>5. Valid(t)
  BY <1>1, Fields DEF Good, Valid, SameVotes
<1>6. \A w \in s.signed : PolkaAgainst(s, w, s.round) => PolkaAgainst(t, w, t.round)
  BY <1>1, Fields, MessageFields DEF PolkaAgainst, SameVotes
<1>7. \A w \in s.signed : IsPrecommit(w) =>
         /\ w.round \in Nat /\ w.block \in BlockIDs
         /\ HasMajority(s.prevotes[w.round], w.block)
         /\ \/ s.lockedBlock = w.block /\ w.round <= s.lockedRound /\ s.lockedBlock # None
            \/ PolkaAgainst(s, w, s.round)
  BY MessageFields, Constants, Zenon DEF Good, Precommitted, IsPrecommit
<1>8. Precommitted(t)
  <2>1. CASE Keeps(s, t, m)
    BY <1>6, <1>7, <2>1, Zenon DEF Precommitted, Keeps, SameVotes
  <2>2. CASE Frees(s, t, m)
    <3> SUFFICES ASSUME NEW w \in s.signed, IsPrecommit(w), s.lockedBlock = w.block
                 PROVE  PolkaAgainst(t, w, t.round)
      BY <1>6, <1>7, <2>2, Zenon DEF Precommitted, Frees, SameVotes
    <3>1. PICK c \in BlockIDs : c # w.block /\ HasMajority(s.prevotes[s.round], c)
      BY <2>2, Zenon DEF Frees
    <3>2. s.round \in (w.round + 1)..t.round
      BY <1>1, <1>7, <2>2 DEF Frees
    <3> QED BY <3>1, <3>2, Zenon DEF PolkaAgainst, SameVotes
  <2>3. CASE Takes(s, t, m)
    <3>1. m \in t.signed /\ HasMajority(t.prevotes[m.round], m.block) /\ m.block \in BlockIDs
      BY <2>3, Constants, Zenon DEF Takes, IsPrecommit, SameVotes
    <3>2. \A w \in s.signed : IsPrecommit(w) => w.round < m.round
      <4> SUFFICES ASSUME NEW w \in s.signed, IsPrecommit(w) PROVE w.round < m.round
        BY Zenon
      <4>1. MsgStep(w) = Precommit /\ MsgStep(m) = Precommit
        BY <2>3, MessageFields, Zenon DEF Takes, IsPrecommit
      <4>2. Reached(s, w)
        BY Zenon DEF Good, SignedInOrder
      <4> QED BY <1>1, <1>7, <2>3, <4>1, <4>2, Fields DEF Takes, Reached, After, Precommit
    <3>3. \A w \in s.signed : IsPrecommit(w) =>
             \/ t.lockedBlock = w.block /\ w.round <= t.lockedRound
             \/ PolkaAgainst(t, w, t.round)
      <4> SUFFICES ASSUME NEW w \in s.signed, IsPrecommit(w), m.block # w.block
                   PROVE  PolkaAgainst(t, w, t.round)
        BY <1>1, <1>7, <2>3, <3>2 DEF Takes
      <4>1. m.round \in (w.round + 1)..t.round
        BY <1>1, <1>7, <3>2
      <4> QED BY <3>1, <4>1, Zenon DEF PolkaAgainst
    <3>4. t.lockedBlock = m.block /\ m.round <= t.lockedRound
      BY <1>1, <2>3, Zenon DEF Takes
    <3> QED BY <1>7, <3>1, <3>3, <3>4, Zenon DEF Precommitted, SameVotes
  <2> QED BY <2>1, <2>2, <2>3, Zenon
<1>9. Prevoted(t)
  <2> SUFFICES ASSUME NEW w \in t.signed, NEW v \in t.signed, IsPrecommit(w), w.round < v.round,
                      v \in Votes, v.type = "prevote", v.block # w.block
               PROVE  PolkaAgainst(t, w, v.round)
    BY Zenon DEF Prevoted
  <2>1. w # m
    <3> SUFFICES ASSUME w = m PROVE FALSE
      BY Zenon
    <3>1. v \in s.signed
      BY MessageFields, Zenon
    <3> QED BY <1>1, <3>1, Fields, MessageFields DEF Good, SignedInOrder, Reached
  <2>2. CASE v = m
    BY <1>7, <2>1, <2>2, Zenon DEF PolkaAgainst, ObeysLock, SameVotes
  <2>3. CASE v # m
    BY <2>1, <2>3, Zenon DEF Good, Prevoted, PolkaAgainst, SameVotes
  <2> QED BY <2>2, <2>3, Zenon
<1>10. Within(s, t)
  BY Zenon DEF Within, Grows, SameVotes
<1> QED BY <1>2, <1>3, <1>4, <1>5, <1>8, <1>9, <1>10, Zenon DEF Good
-------------------------------------------------------------------------------
\* What the enter functions do: they keep the votes, and stay within the height.
Enters(s, t) ==
  /\ Good(t) /\ Within(s, t)
  /\ t.prevotes = s.prevotes /\ t.precommits = s.precommits /\ t.lastCommit = s.lastCommit

LEMMA WithinTrans ==
  ASSUME NEW s \in RoundState, NEW t \in RoundState, NEW u \in RoundState, Within(s, t), Within(t, u)
  PROVE  Within(s, u)
<1>1. Forward(s, u)
  BY Fields DEF Within, Forward
<1>2. Grows(s.prevotes, u.prevotes) /\ Grows(s.precommits, u.precommits)
  BY DEF Within, Grows
<1>3. \A m \in u.signed \ s.signed : After(s, m)
  <2> SUFFICES ASSUME NEW m \in u.signed, m \notin s.signed PROVE After(s, m)
    BY Zenon
  <2>1. CASE m \in t.signed
    BY <2>1, Zenon DEF Within
  <2>2. CASE m \notin t.signed
    <3>1. After(t, m) /\ Forward(s, t)
      BY <2>2, Zenon DEF Within
    <3> QED BY <3>1, Fields, MessageFields DEF After, Forward, Propose, Prevote, Precommit
  <2> QED BY <2>1, <2>2, Zenon
<1> QED BY <1>1, <1>2, <1>3, Zenon DEF Within

LEMMA WithinRefl ==
  ASSUME NEW s \in RoundState
  PROVE  Within(s, s)
BY Fields DEF Within, Forward, Grows

LEMMA EntersTrans ==
  ASSUME NEW s, Good(s), NEW t, NEW u, Enters(s, t), Enters(t, u)
  PROVE  Enters(s, u)
<1>1. s \in RoundState /\ t \in RoundState /\ u \in RoundState /\ Within(s, t) /\ Within(t, u)
  BY Zenon DEF Enters, Good
<1>2. Within(s, u)
  BY <1>1, WithinTrans, Zenon
<1> QED BY <1>2, Zenon DEF Enters

LEMMA EntersRefl ==
  ASSUME NEW s, Good(s)
  PROVE  Enters(s, s)
BY WithinRefl, Zenon DEF Enters, Good

\* The round state in another step, and with a message signed and queued; the names
\* stand for the records, which the proofs below need not look into.
Steps == NewHeight..Commit

LEMMA StepValues ==
  /\ NewHeight \in Steps /\ NewRound \in Steps /\ Propose \in Steps /\ Prevote \in Steps
  /\ PrevoteWait \in Steps /\ Precommit \in Steps /\ PrecommitWait \in Steps /\ Commit \in Steps
BY DEF Steps, NewHeight, NewRound, Propose, Prevote, PrevoteWait, Precommit, PrecommitWait, Commit

Moved(s, round, step) == [s EXCEPT !.round = round, !.step = step]

Added(s, m, queue) == [s EXCEPT !.signed = s.signed \cup {m}, !.internal = s.internal \cup queue]

LEMMA FlagTypes ==
  ASSUME NEW s \in RoundState, NEW b \in BOOLEAN
  PROVE  [s EXCEPT !.triggered = b] \in RoundState /\ [s EXCEPT !.panicked = b] \in RoundState
BY DEF RoundState

\* The fields that neither of them changes.
Same(s, t) ==
  /\ t.height = s.height /\ t.prevotes = s.prevotes /\ t.precommits = s.precommits
  /\ t.lastCommit = s.lastCommit /\ t.refused = s.refused
  /\ t.validRound = s.validRound /\ t.validBlock = s.validBlock
  /\ t.lockedRound = s.lockedRound /\ t.lockedBlock = s.lockedBlock
  /\ t.proposal = s.proposal /\ t.commitRound = s.commitRound

LEMMA MovedFields ==
  ASSUME NEW s \in RoundState, NEW round \in Rounds, NEW step \in Steps
  PROVE  /\ Moved(s, round, step) \in RoundState
         /\ Moved(s, round, step).round = round /\ Moved(s, round, step).step = step
         /\ Moved(s, round, step).signed = s.signed /\ Moved(s, round, step).tock = s.tock
         /\ Same(s, Moved(s, round, step))
<1>1. [s EXCEPT !.round = round] \in RoundState
  BY ZenonT(120) DEF RoundState
<1>2. PICK x \in RoundState : x = [s EXCEPT !.round = round]
  BY <1>1, Zenon
<1>3. [x EXCEPT !.step = step] \in RoundState
  BY DEF RoundState, Steps
<1>4. Moved(s, round, step) = [x EXCEPT !.step = step]
  BY <1>2, ZenonT(120) DEF RoundState, Moved
<1>5. /\ Moved(s, round, step).round = round /\ Moved(s, round, step).step = step
      /\ Moved(s, round, step).signed = s.signed /\ Moved(s, round, step).tock = s.tock
      /\ Same(s, Moved(s, round, step))
  BY ZenonT(120) DEF RoundState, Moved, Same
<1> QED BY <1>3, <1>4, <1>5, Zenon

LEMMA AddedFields ==
  ASSUME NEW s \in RoundState, NEW m \in Votes \cup Proposals,
         NEW queue \in SUBSET (Votes \cup Proposals \cup Parts)
  PROVE  /\ Added(s, m, queue) \in RoundState
         /\ Added(s, m, queue).round = s.round /\ Added(s, m, queue).step = s.step
         /\ Added(s, m, queue).signed = s.signed \cup {m} /\ Added(s, m, queue).tock = s.tock
         /\ Same(s, Added(s, m, queue))
<1>1. Added(s, m, queue) \in RoundState
  BY ZenonT(120) DEF RoundState, Added
<1>2. /\ Added(s, m, queue).round = s.round /\ Added(s, m, queue).step = s.step
      /\ Added(s, m, queue).signed = s.signed \cup {m} /\ Added(s, m, queue).tock = s.tock
      /\ Same(s, Added(s, m, queue))
  BY ZenonT(120) DEF RoundState, Added, Same
<1> QED BY <1>1, <1>2, Zenon

\* scheduleTimeout changes the ticker only.
LEMMA ScheduleFields ==
  ASSUME NEW s \in RoundState, NEW round \in Rounds, NEW step \in Steps
  PROVE  /\ scheduleTimeout(s, round, step) \in RoundState
         /\ scheduleTimeout(s, round, step).round = s.round
         /\ scheduleTimeout(s, round, step).step = s.step
         /\ scheduleTimeout(s, round, step).signed = s.signed
         /\ Same(s, scheduleTimeout(s, round, step))
         /\ \A x \in scheduleTimeout(s, round, step).tock :
              x \in s.tock \/ (x.height = s.height /\ x.round = round)
<1>1. CASE scheduleTimeout(s, round, step) = s
  BY <1>1, Zenon DEF Same
<1>2. CASE scheduleTimeout(s, round, step) # s
  <2>1. PICK t : t = [height |-> s.height, round |-> round, step |-> step]
    BY Zenon
  <2>2. t \in Timeouts /\ t.height = s.height /\ t.round = round
    BY <2>1 DEF RoundState, Timeouts, Heights, Steps, NewHeight, Commit
  <2>3. scheduleTimeout(s, round, step) = [s EXCEPT !.ti = t, !.tock = s.tock \cup {t}]
    BY <1>2, <2>1, Zenon DEF scheduleTimeout
  <2>4. [s EXCEPT !.ti = t, !.tock = s.tock \cup {t}] \in RoundState
    BY <2>2, ZenonT(120) DEF RoundState
  <2> QED BY <2>2, <2>3, <2>4 DEF RoundState, Same
<1> QED BY <1>1, <1>2, Zenon

\* A vote of the round the node is in.
OwnVote(s, type, c) ==
  [height |-> s.height, type |-> type, round |-> s.round, val |-> Self, block |-> c]

LEMMA OwnVoteFields ==
  ASSUME NEW s \in RoundState, NEW type \in {"prevote", "precommit"}, NEW c \in BlockIDs
  PROVE  /\ OwnVote(s, type, c) \in Votes /\ OwnVote(s, type, c).type = type
         /\ OwnVote(s, type, c).round = s.round /\ OwnVote(s, type, c).block = c
BY Constants, ZenonT(120) DEF Votes, OwnVote, RoundState

\* It is signed and queued when it is for a step the node has not reached.
LEMMA SignsVote ==
  ASSUME NEW s, Good(s), NEW type \in {"prevote", "precommit"}, NEW c \in BlockIDs,
         After(s, OwnVote(s, type, c)),
         NEW a, a.signed = s.signed, a.height = s.height, a.round = s.round
  PROVE  signAddVote(a, type, c) = Added(a, OwnVote(s, type, c), {OwnVote(s, type, c)})
<1>1. OwnVote(s, type, c) \in Votes
  BY OwnVoteFields, Zenon DEF Good
<1>2. ~Refuses(a, OwnVote(s, type, c))
  BY <1>1, NotRefused, Zenon
<1> QED BY <1>2, Zenon DEF signAddVote, signAndSend, OwnVote, Added
-------------------------------------------------------------------------------
(* The functions of state.go that enter a step before the precommits, or a wait. *)

\* enterPrevote, called for the round the node is in or an earlier one.
LEMMA EnterPrevote ==
  ASSUME NEW s, Good(s), NEW round \in Rounds, round <= s.round
  PROVE  Enters(s, enterPrevote(s, round))
<1>1. CASE ~CanEnter(s, round, Prevote)
  BY <1>1, EntersRefl, Zenon DEF enterPrevote
<1>2. CASE CanEnter(s, round, Prevote)
  <2>1. round = s.round /\ s.step < Prevote /\ s \in RoundState
    BY <1>2, Fields, Constants DEF CanEnter, Good
  <2>2. PICK c : c = IF s.lockedBlock # None THEN s.lockedBlock
                     ELSE IF s.block \in ValidBlocks THEN s.block ELSE Nil
    BY Zenon
  <2>3. c \in BlockIDs
    BY <2>1, <2>2, Fields, Constants, Zenon
  <2>4. PICK m : m = OwnVote(s, "prevote", c)
    BY Zenon
  <2>5. m \in Votes /\ m.type = "prevote" /\ m.round = s.round /\ m.block = c
    BY <2>1, <2>3, <2>4, OwnVoteFields, Zenon
  <2>6. MsgStep(m) = Prevote /\ After(s, m)
    BY <2>1, <2>5, MessageFields, Zenon DEF After
  <2>7. signAddVote(s, "prevote", c) = Added(s, m, {m})
    BY <2>3, <2>4, <2>6, SignsVote, Zenon
  <2>8. PICK t : t = Moved(Added(s, m, {m}), round, Prevote)
    BY Zenon
  <2>9. enterPrevote(s, round) = t
    BY <1>2, <2>2, <2>7, <2>8, Zenon DEF enterPrevote, defaultDoPrevote, Moved
  <2>10. /\ t \in RoundState /\ t.round = s.round /\ t.step = Prevote
         /\ t.signed = s.signed \cup {m} /\ t.tock = s.tock /\ Same(s, t)
    <3>1. Prevote \in Steps
      BY StepValues, Zenon
    <3>2. {m} \in SUBSET (Votes \cup Proposals \cup Parts) /\ m \in Votes \cup Proposals
      BY <2>5, Zenon
    <3> QED BY <2>1, <2>8, <3>1, <3>2, AddedFields, MovedFields DEF Same
  <2>11. Forward(s, t) /\ Reached(t, m) /\ ~IsPrecommit(m) /\ CommitSet(t)
    BY <2>1, <2>5, <2>6, <2>10, Fields DEF Forward, Reached, IsPrecommit, CommitSet, Prevote, Commit
  <2>12. Good(t) /\ Within(s, t)
    BY <2>2, <2>5, <2>6, <2>10, <2>11, Signs, Zenon DEF Same, SameVotes, Keeps, ObeysLock
  <2> QED BY <2>9, <2>10, <2>12, Zenon DEF Enters, Same
<1> QED BY <1>1, <1>2, Zenon

\* What a step within the height signs is no vote.
NoVote(s, t) == \A m \in t.signed \ s.signed : m \notin Votes

\* decideProposal signs at most a proposal of the round.
LEMMA DecideProposal ==
  ASSUME NEW s, Good(s), NEW round \in Rounds,
         round > s.round \/ (round = s.round /\ s.step < Propose),
         NEW a \in RoundState, a.signed = s.signed
  PROVE  \/ decideProposal(a, round) = a
         \/ \E m \in Proposals, q \in SUBSET (Votes \cup Proposals \cup Parts) :
              m.round = round /\ After(s, m) /\ decideProposal(a, round) = Added(a, m, q)
<1>1. PICK b : b = IF a.validBlock # None THEN a.validBlock ELSE NewBlock[round]
  BY Zenon
<1>2. b \in Blocks
  BY <1>1, Fields, Constants, ConsensusAssumption, Zenon
<1>3. PICK m : m = [height |-> a.height, round |-> round, polRound |-> a.validRound, block |-> b]
  BY Zenon
<1>4. m \in Proposals /\ m.round = round
  BY <1>2, <1>3, ZenonT(120) DEF Proposals, RoundState
<1>5. PICK p : p = [height |-> a.height, part |-> b]
  BY Zenon
<1>6. p \in Parts
  BY <1>2, <1>5, ZenonT(120) DEF Parts, RoundState
<1>7. PICK q : q = {m, p}
  BY Zenon
<1>8. q \in SUBSET (Votes \cup Proposals \cup Parts)
  BY <1>4, <1>6, <1>7, Zenon
<1>9. After(s, m)
  BY <1>4, MessageFields, Zenon DEF After
<1>10. ~Refuses(a, m)
  BY <1>4, <1>9, NotRefused, Zenon
<1>11. decideProposal(a, round) = a \/ decideProposal(a, round) = signAndSend(a, m, q)
  BY <1>1, <1>3, <1>5, <1>7, Zenon DEF decideProposal
<1>12. signAndSend(a, m, q) = Added(a, m, q)
  BY <1>10, Zenon DEF signAndSend, Added
<1> QED BY <1>4, <1>8, <1>9, <1>11, <1>12, Zenon

LEMMA EnterPropose ==
  ASSUME NEW s, Good(s), NEW round \in Rounds
  PROVE  /\ Enters(s, enterPropose(s, round))
         /\ s.proposal = None => NoVote(s, enterPropose(s, round))
<1>1. CASE ~CanEnter(s, round, Propose)
  BY <1>1, EntersRefl, Zenon DEF enterPropose, NoVote
<1>2. CASE CanEnter(s, round, Propose)
  <2>0. s \in RoundState /\ Propose \in Steps
    BY StepValues, Zenon DEF Good
  <2>1. round > s.round \/ (round = s.round /\ s.step < Propose)
    BY <1>2, Zenon DEF CanEnter
  <2>2. PICK a : a = scheduleTimeout(s, round, Propose)
    BY Zenon
  <2>3. /\ a \in RoundState /\ a.round = s.round /\ a.step = s.step /\ a.signed = s.signed
        /\ Same(s, a)
        /\ \A x \in a.tock : x \in s.tock \/ (x.height = s.height /\ x.round = round)
    BY <2>0, <2>2, ScheduleFields, Zenon
  <2>4. PICK b : b = IF Proposer[round] = Self THEN decideProposal(a, round) ELSE a
    BY Zenon
  <2>5. PICK c : c = Moved(b, round, Propose)
    BY Zenon
  <2>6. enterPropose(s, round) = IF isProposalComplete(c) THEN enterPrevote(c, c.round) ELSE c
    BY <1>2, <2>2, <2>4, <2>5 DEF enterPropose, Moved
  <2>7. Enters(s, c) /\ NoVote(s, c) /\ c.proposal = s.proposal /\ c.round = round
    <3>1. CASE b = a
      <4>1. /\ c \in RoundState /\ c.round = round /\ c.step = Propose /\ c.signed = s.signed
            /\ c.tock = a.tock /\ Same(s, c)
        BY <2>0, <2>3, <2>5, <3>1, MovedFields DEF Same
      <4>2. Forward(s, c) /\ CommitSet(c)
        BY <2>0, <2>1, <4>1, Fields DEF Forward, CommitSet, Propose, Commit
      <4>3. Good(c) /\ Within(s, c)
        BY <2>3, <4>1, <4>2, Frame, Constants DEF Same, SameVotes
      <4> QED BY <4>1, <4>3, Zenon DEF Enters, NoVote, Same
    <3>2. CASE b # a
      <4>1. PICK m \in Proposals, q \in SUBSET (Votes \cup Proposals \cup Parts) :
              m.round = round /\ After(s, m) /\ b = Added(a, m, q)
        BY <2>1, <2>3, <2>4, <3>2, DecideProposal, Zenon
      <4>2. /\ b \in RoundState /\ b.signed = s.signed \cup {m} /\ b.tock = a.tock /\ Same(s, b)
        BY <2>3, <4>1, AddedFields DEF Same
      <4>3. /\ c \in RoundState /\ c.round = round /\ c.step = Propose
            /\ c.signed = s.signed \cup {m} /\ c.tock = a.tock /\ Same(s, c)
        BY <2>0, <2>5, <4>2, MovedFields DEF Same
      <4>4. Forward(s, c) /\ CommitSet(c)
        BY <2>0, <2>1, <4>3, Fields DEF Forward, CommitSet, Propose, Commit
      <4>5. m \notin Votes /\ MsgStep(m) = Propose /\ m \in Votes \cup Proposals
        BY MessageKinds, MessageFields, Zenon
      <4>6. ~IsPrecommit(m) /\ Reached(c, m)
        BY <4>1, <4>3, <4>5 DEF IsPrecommit, Reached, Propose
      <4>7. \A x \in c.tock : x \in s.tock \/ (x.height = s.height /\ x.round <= c.round)
        BY <2>3, <4>3, Constants
      <4>8. Good(c) /\ Within(s, c)
        BY <4>1, <4>3, <4>4, <4>5, <4>6, <4>7, Signs, Zenon DEF Same, SameVotes, Keeps, ObeysLock
      <4> QED BY <4>3, <4>5, <4>8, Zenon DEF Enters, NoVote, Same
    <3> QED BY <3>1, <3>2, Zenon
  <2>8. CASE isProposalComplete(c)
    <3>1. c.proposal # None
      BY <2>8, Zenon DEF isProposalComplete
    <3>2. Good(c) /\ c.round <= c.round
      BY <2>7, Constants DEF Enters
    <3>3. Enters(c, enterPrevote(c, c.round))
      BY <2>7, <3>2, EnterPrevote, Zenon
    <3> QED BY <2>6, <2>7, <2>8, <3>1, <3>3, EntersTrans, Zenon
  <2>9. CASE ~isProposalComplete(c)
    BY <2>6, <2>7, <2>9, Zenon
  <2> QED BY <2>8, <2>9, Zenon
<1> QED BY <1>1, <1>2, Zenon

LEMMA EnterNewRound ==
  ASSUME NEW s, Good(s), NEW round \in Rounds
  PROVE  /\ Enters(s, enterNewRound(s, round))
         /\ s.proposal = None => NoVote(s, enterNewRound(s, round))
         /\ round <= enterNewRound(s, round).round
<1>0. s \in RoundState /\ NewRound \in Steps /\ round \in Nat /\ s.round \in Nat /\ s.step \in 1..8
  BY StepValues, Fields, Constants, Zenon DEF Good
<1>1. CASE round < s.round \/ (round = s.round /\ s.step # NewHeight)
  BY <1>0, <1>1, EntersRefl DEF enterNewRound, NoVote
<1>2. CASE ~(round < s.round \/ (round = s.round /\ s.step # NewHeight))
  <2>1. PICK a : a = [s EXCEPT !.round = round, !.step = NewRound, !.triggered = FALSE,
                               !.tracked = round + 1]
    BY Zenon
  <2>2. PICK b : b = IF round = 0 THEN a
                     ELSE [a EXCEPT !.proposal = None, !.block = None, !.parts = None]
    BY Zenon
  <2>3. \/ enterNewRound(s, round) = b
        \/ enterNewRound(s, round) = scheduleTimeout(b, round, NewRound)
        \/ enterNewRound(s, round) = enterPropose(b, round)
    BY <1>2, <2>1, <2>2, Zenon DEF enterNewRound
  <2>4. a \in RoundState
    <3>1. PICK x : x = Moved(s, round, NewRound)
      BY Zenon
    <3>2. x \in RoundState
      BY <1>0, <3>1, MovedFields, Zenon
    <3>3. round + 1 \in 0..MaxRound + 1
      BY ConsensusAssumption DEF Rounds
    <3>4. [x EXCEPT !.triggered = FALSE] \in RoundState
      BY <3>2, FlagTypes, Zenon
    <3>5. PICK y \in RoundState : y = [x EXCEPT !.triggered = FALSE]
      BY <3>4, Zenon
    <3>6. PICK k : k = round + 1 /\ k \in 0..MaxRound + 1
      BY <3>3, Zenon
    <3>7. [y EXCEPT !.tracked = k] \in RoundState
      BY <3>6 DEF RoundState
    <3>8. a = [y EXCEPT !.tracked = k]
      BY <1>0, <2>1, <3>1, <3>2, <3>5, <3>6, ZenonT(120) DEF Moved, RoundState
    <3> QED BY <3>7, <3>8, Zenon
  <2>5. b \in RoundState
    <3>1. [a EXCEPT !.proposal = None] \in RoundState
      BY <2>4 DEF RoundState
    <3>2. PICK x \in RoundState : x = [a EXCEPT !.proposal = None]
      BY <3>1, Zenon
    <3>3. [x EXCEPT !.block = None, !.parts = None] \in RoundState
      BY ZenonT(120) DEF RoundState
    <3> QED BY <2>2, <2>4, <3>2, <3>3, ZenonT(120) DEF RoundState
  <2>6. /\ a.height = s.height /\ a.prevotes = s.prevotes /\ a.precommits = s.precommits
        /\ a.lastCommit = s.lastCommit /\ a.refused = s.refused
        /\ a.validRound = s.validRound /\ a.validBlock = s.validBlock
        /\ a.lockedRound = s.lockedRound /\ a.lockedBlock = s.lockedBlock
        /\ a.round = round /\ a.step = NewRound /\ a.signed = s.signed /\ a.tock = s.tock
        /\ a.proposal = s.proposal
    BY <1>0, <2>1, ZenonT(120) DEF RoundState
  <2>7. /\ b.height = s.height /\ b.prevotes = s.prevotes /\ b.precommits = s.precommits
        /\ b.lastCommit = s.lastCommit /\ b.refused = s.refused
        /\ b.validRound = s.validRound /\ b.validBlock = s.validBlock
        /\ b.lockedRound = s.lockedRound /\ b.lockedBlock = s.lockedBlock
        /\ b.round = round /\ b.step = NewRound /\ b.signed = s.signed /\ b.tock = s.tock
        /\ b.proposal = s.proposal \/ b.proposal = None
    BY <2>2, <2>4, <2>6, ZenonT(120) DEF RoundState
  <2>8. Forward(s, b) /\ CommitSet(b)
    BY <1>0, <1>2, <2>7 DEF Forward, CommitSet, NewHeight, NewRound, Commit
  <2>9. Good(b) /\ Within(s, b)
    BY <2>5, <2>7, <2>8, Frame, Zenon DEF SameVotes
  <2>10. Enters(s, b) /\ NoVote(s, b)
    BY <2>7, <2>9, Zenon DEF Enters, NoVote
  <2>11. CASE enterNewRound(s, round) = b
    BY <1>0, <2>7, <2>10, <2>11
  <2>12. CASE enterNewRound(s, round) = scheduleTimeout(b, round, NewRound)
    <3>1. PICK t : t = scheduleTimeout(b, round, NewRound)
      BY Zenon
    <3>2. /\ t \in RoundState /\ t.round = b.round /\ t.step = b.step /\ t.signed = b.signed
          /\ Same(b, t)
          /\ \A x \in t.tock : x \in b.tock \/ (x.height = b.height /\ x.round = round)
      BY <1>0, <2>5, <3>1, ScheduleFields, Zenon
    <3>3. Forward(b, t) /\ CommitSet(t)
      BY <2>5, <2>7, <3>2, Fields DEF Forward, CommitSet, NewRound, Commit
    <3>4. \A x \in t.tock : x \in b.tock \/ (x.height = b.height /\ x.round <= t.round)
      BY <1>0, <2>7, <3>2
    <3>5. Good(t) /\ Within(b, t)
      BY <2>9, <3>2, <3>3, <3>4, Frame, Zenon DEF Same, SameVotes
    <3>6. Enters(b, t)
      BY <3>2, <3>5, Zenon DEF Enters, Same
    <3>7. Enters(s, t) /\ NoVote(s, t)
      BY <2>7, <2>10, <3>2, <3>6, EntersTrans, Zenon DEF NoVote
    <3> QED BY <1>0, <2>7, <2>12, <3>1, <3>2, <3>7
  <2>13. CASE enterNewRound(s, round) = enterPropose(b, round)
    <3>1. PICK t : t = enterPropose(b, round)
      BY Zenon
    <3>2. Enters(b, t) /\ (b.proposal = None => NoVote(b, t))
      BY <2>9, <3>1, EnterPropose, Zenon
    <3>3. Enters(s, t) /\ (s.proposal = None => NoVote(s, t))
      BY <2>7, <2>10, <3>2, EntersTrans, Zenon DEF NoVote
    <3>4. round <= t.round
      <4>1. t \in RoundState /\ Forward(b, t)
        BY <3>2, Zenon DEF Enters, Good, Within
      <4> QED BY <1>0, <2>7, <4>1, Fields DEF Forward
    <3> QED BY <2>13, <3>1, <3>3, <3>4, Zenon
  <2> QED BY <2>3, <2>11, <2>12, <2>13, Zenon
<1> QED BY <1>1, <1>2, Zenon

LEMMA Panics ==
  ASSUME NEW s, Good(s)
  PROVE  Enters(s, Panic(s)) /\ Panic(s).proposal = s.proposal
<1>1. PICK t : t = Panic(s)
  BY Zenon
<1>2. t \in RoundState /\ s \in RoundState
  BY <1>1, FlagTypes, Zenon DEF Panic, Good
<1>3. t.round = s.round /\ t.step = s.step /\ t.signed = s.signed /\ t.tock = s.tock /\ Same(s, t)
  BY <1>1, <1>2, ZenonT(120) DEF Panic, RoundState, Same
<1>4. Forward(s, t) /\ CommitSet(t)
  BY <1>2, <1>3, Fields DEF Forward, Good, CommitSet, Same
<1>5. Good(t) /\ Within(s, t)
  BY <1>2, <1>3, <1>4, Frame, Zenon DEF Same, SameVotes
<1> QED BY <1>1, <1>3, <1>5, Zenon DEF Enters, Same

LEMMA EnterPrevoteWait ==
  ASSUME NEW s, Good(s), NEW round \in Rounds, round <= s.round
  PROVE  Enters(s, enterPrevoteWait(s, round))
<1>0. s \in RoundState /\ PrevoteWait \in Steps /\ round \in Nat /\ s.round \in Nat /\ s.step \in 1..8
  BY StepValues, Fields, Constants, Zenon DEF Good
<1>1. CASE ~CanEnter(s, round, PrevoteWait)
  BY <1>1, EntersRefl, Zenon DEF enterPrevoteWait
<1>2. CASE CanEnter(s, round, PrevoteWait) /\ ~HasTwoThirdsAny(s.prevotes[round])
  BY <1>2, Panics, Zenon DEF enterPrevoteWait
<1>3. CASE CanEnter(s, round, PrevoteWait) /\ HasTwoThirdsAny(s.prevotes[round])
  <2>1. round = s.round /\ s.step < PrevoteWait
    BY <1>0, <1>3 DEF CanEnter
  <2>2. PICK a : a = scheduleTimeout(s, round, PrevoteWait)
    BY Zenon
  <2>3. /\ a \in RoundState /\ a.signed = s.signed /\ Same(s, a)
        /\ \A x \in a.tock : x \in s.tock \/ (x.height = s.height /\ x.round = round)
    BY <1>0, <2>2, ScheduleFields, Zenon
  <2>4. PICK t : t = Moved(a, round, PrevoteWait)
    BY Zenon
  <2>5. enterPrevoteWait(s, round) = t
    BY <1>3, <2>2, <2>4, Zenon DEF enterPrevoteWait, Moved
  <2>6. /\ t \in RoundState /\ t.round = s.round /\ t.step = PrevoteWait /\ t.signed = s.signed
        /\ t.tock = a.tock /\ Same(s, t)
    BY <1>0, <2>1, <2>3, <2>4, MovedFields DEF Same
  <2>7. Forward(s, t) /\ CommitSet(t)
    BY <1>0, <2>1, <2>6 DEF Forward, CommitSet, PrevoteWait, Commit
  <2>8. Good(t) /\ Within(s, t)
    BY <2>3, <2>6, <2>7, Frame, Zenon DEF Same, SameVotes
  <2> QED BY <2>5, <2>6, <2>8, Zenon DEF Enters, Same
<1> QED BY <1>1, <1>2, <1>3, Zenon

LEMMA EnterPrecommitWait ==
  ASSUME NEW s, Good(s), NEW round \in Rounds, round <= s.round
  PROVE  Enters(s, enterPrecommitWait(s, round))
<1>0. /\ s \in RoundState /\ PrecommitWait \in Steps /\ round \in Nat /\ s.round \in Nat
      /\ s.step \in 1..8
  BY StepValues, Fields, Constants, Zenon DEF Good
<1>1. CASE round < s.round \/ (round = s.round /\ s.triggered)
  BY <1>1, EntersRefl, Zenon DEF enterPrecommitWait
<1>2. CASE ~(round < s.round \/ (round = s.round /\ s.triggered)) /\ ~HasTwoThirdsAny(s.precommits[round])
  BY <1>2, Panics, Zenon DEF enterPrecommitWait
<1>3. CASE ~(round < s.round \/ (round = s.round /\ s.triggered)) /\ HasTwoThirdsAny(s.precommits[round])
  <2>1. round = s.round
    BY <1>0, <1>3
  <2>2. PICK a : a = scheduleTimeout(s, round, PrecommitWait)
    BY Zenon
  <2>3. /\ a \in RoundState /\ a.signed = s.signed /\ a.round = s.round /\ a.step = s.step /\ Same(s, a)
        /\ \A x \in a.tock : x \in s.tock \/ (x.height = s.height /\ x.round = round)
    BY <1>0, <2>2, ScheduleFields, Zenon
  <2>4. PICK t : t = [a EXCEPT !.triggered = TRUE]
    BY Zenon
  <2>5. enterPrecommitWait(s, round) = t
    BY <1>3, <2>2, <2>4, Zenon DEF enterPrecommitWait
  <2>6. t \in RoundState
    BY <2>3, <2>4, FlagTypes, Zenon
  <2>7. t.round = s.round /\ t.step = s.step /\ t.signed = s.signed /\ t.tock = a.tock /\ Same(a, t)
    BY <2>3, <2>4, ZenonT(120) DEF RoundState, Same
  <2>8. Forward(s, t) /\ Same(s, t) /\ CommitSet(t)
    BY <1>0, <2>3, <2>7 DEF Forward, Same, Good, CommitSet
  <2>9. \A x \in t.tock : x \in s.tock \/ (x.height = s.height /\ x.round <= t.round)
    BY <1>0, <2>1, <2>3, <2>7, Zenon
  <2>10. Good(t) /\ Within(s, t)
    BY <2>6, <2>7, <2>8, <2>9, Frame, Zenon DEF Same, SameVotes
  <2> QED BY <2>5, <2>8, <2>10, Zenon DEF Enters, Same
<1> QED BY <1>1, <1>2, <1>3, Zenon
===============================================================================
