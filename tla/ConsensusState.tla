---------------------------- MODULE ConsensusState ----------------------------
(***************************************************************************)
(* internal/consensus/state.go: the state machine of one validator, Self.  *)
(*                                                                         *)
(* receiveRoutine takes one input at a time (a peer's message, one of its  *)
(* own queued messages, a timeout, a notice that transactions arrived) and *)
(* runs its handler to the end.  The RoundState is the record cs; every    *)
(* function of the code that changes it is an operator from RoundState to  *)
(* RoundState, and a handler is the composition of the functions it calls. *)
(*                                                                         *)
(* The other validators are the environment: they send any votes and any   *)
(* proposals, in any order, as long as no block that fails validation is   *)
(* voted for by 2/3 of the power.  A block stands for its hash, its header *)
(* and its single part.  Vote sets keep the first vote of each validator;  *)
(* VoteSet models conflicting votes, HeightVoteSet the rounds tracked.     *)
(***************************************************************************)
EXTENDS Integers, Electorate

CONSTANTS
  Self,                 \* the validator modelled
  PeerVotes,            \* the votes other validators may send
  PeerProposals,        \* the proposals they may send, in the rounds they propose
  ValidBlocks,          \* the blocks blockExec.ValidateBlock accepts
  None,                 \* a nil pointer: no vote, no block, no proposal
  Proposer,             \* [Rounds -> Validators]: GetProposer, rotated by round
  NewBlock,             \* [Rounds -> ValidBlocks]: what CreateProposalBlock reaps
  WaitForTxs,           \* config: do not propose before there are transactions
  EmptyBlocksInterval,  \* config: CreateEmptyBlocksInterval > 0
  SkipTimeoutCommit,    \* config
  ProofHeights,         \* heights at which needProofBlock holds
  MaxRound, MaxHeight   \* bounds on the exploration

Rounds  == 0..MaxRound
Heights == 1..MaxHeight + 1

ASSUME ConsensusAssumption ==
  /\ Self \in Validators
  /\ PeerVotes \subseteq [type : {"prevote", "precommit"}, round : Rounds,
                          val : Validators \ {Self}, block : BlockIDs]
  /\ PeerProposals \subseteq [round : Rounds, polRound : Rounds \cup {-1}, block : Blocks]
  /\ \A p \in PeerProposals : Proposer[p.round] # Self
  /\ Power \in [SUBSET Validators -> Nat]
  /\ \A S, T \in SUBSET Validators : S \subseteq T => Power[S] <= Power[T]
  /\ ValidBlocks \subseteq Blocks
  /\ None \notin BlockIDs
  /\ Proposer \in [Rounds -> Validators]
  /\ NewBlock \in [Rounds -> ValidBlocks]
  /\ 1 \in ProofHeights
  /\ MaxRound \in Nat /\ MaxHeight \in Nat

NewHeight     == 1      \* RoundStepType
NewRound      == 2
Propose       == 3
Prevote       == 4
PrevoteWait   == 5
Precommit     == 6
PrecommitWait == 7
Commit        == 8

VARIABLE cs             \* State: the RoundState, its queues, ticker and signer
-------------------------------------------------------------------------------
\* Messages of peers and of the internal queue.
Votes     == [height : Heights, type : {"prevote", "precommit"}, round : Rounds,
              val : Validators, block : BlockIDs]
Proposals == [height : Heights, round : Rounds, polRound : Rounds \cup {-1},
              block : Blocks]
Parts     == [height : Heights, part : Blocks]
Timeouts  == [height : 0..MaxHeight + 1, round : Rounds, step : 0..Commit]

VoteSets == [Validators -> BlockIDs \cup {None}]

RoundState ==
  [height : Heights, round : Rounds, step : NewHeight..Commit,
   proposal : Proposals \cup {None},
   block : Blocks \cup {None},          \* ProposalBlock
   parts : Blocks \cup {None},          \* the header of ProposalBlockParts
   lockedRound : Rounds \cup {-1}, lockedBlock : Blocks \cup {None},
   validRound : Rounds \cup {-1}, validBlock : Blocks \cup {None},
   prevotes : [Rounds -> VoteSets], precommits : [Rounds -> VoteSets],
   tracked : 0..MaxRound + 1,           \* the round HeightVoteSet tracks up to
   commitRound : Rounds \cup {-1},
   lastCommit : VoteSets,               \* precommits of the height before,
   lastRound : Rounds \cup {-1},        \*   and the round they are of
   triggered : BOOLEAN,                 \* TriggeredTimeoutPrecommit
   internal : SUBSET (Votes \cup Proposals \cup Parts),  \* internalMsgQueue
   ti : Timeouts,                       \* the last timeout the ticker accepted
   tock : SUBSET Timeouts,              \* timeouts that may still be received
   signed : SUBSET (Votes \cup Proposals), \* signatures of this height
   refused : BOOLEAN,                   \* the PrivValidator returned an error
   panicked : BOOLEAN]                  \* a panic stopped receiveRoutine

NoVotes == [v \in Validators |-> None]

\* NewState at the initial height, after OnStart has called scheduleRound0.
InitState ==
  [height |-> 1, round |-> 0, step |-> NewHeight, proposal |-> None,
   block |-> None, parts |-> None, lockedRound |-> -1, lockedBlock |-> None,
   validRound |-> -1, validBlock |-> None,
   prevotes |-> [r \in Rounds |-> NoVotes],
   precommits |-> [r \in Rounds |-> NoVotes], tracked |-> 0,
   commitRound |-> -1, lastCommit |-> NoVotes, lastRound |-> -1, triggered |-> FALSE,
   internal |-> {}, ti |-> [height |-> 1, round |-> 0, step |-> NewHeight],
   tock |-> {[height |-> 1, round |-> 0, step |-> NewHeight]}, signed |-> {},
   refused |-> FALSE, panicked |-> FALSE]
-------------------------------------------------------------------------------
\* Vote sets: the queries of types.VoteSet that the state machine makes.
TwoThirds(S) == 3 * Power[S] > 2 * Power[Validators]

HasMajority(vs, c) == TwoThirds({v \in Validators : vs[v] = c})

HasTwoThirdsMajority(vs) == \E c \in BlockIDs : HasMajority(vs, c)

HasTwoThirdsAny(vs) == TwoThirds({v \in Validators : vs[v] # None})

HasAll(vs) == \A v \in Validators : vs[v] # None

\* The block ID of TwoThirdsMajority, None when there is no majority.
TwoThirdsMajority(vs) ==
  IF HasTwoThirdsMajority(vs) THEN CHOOSE c \in BlockIDs : HasMajority(vs, c)
                              ELSE None
-------------------------------------------------------------------------------
Panic(s) == [s EXCEPT !.panicked = TRUE]

\* timeoutTicker.timeoutRoutine: a timeout for an older height, round or step
\* is ignored, any other replaces the one that is running.  The one replaced
\* may have expired before and wait in tockChan, so it stays in tock.
scheduleTimeout(s, round, step) ==
  IF \/ s.height < s.ti.height
     \/ s.height = s.ti.height /\ round < s.ti.round
     \/ s.height = s.ti.height /\ round = s.ti.round /\ s.ti.step > 0 /\ step <= s.ti.step
  THEN s
  ELSE LET t == [height |-> s.height, round |-> round, step |-> step]
       IN  [s EXCEPT !.ti = t, !.tock = @ \cup {t}]

\* The step number PrivValidator orders signatures by.
SignStep(m) == IF m \in Proposals THEN 1 ELSE IF m.type = "prevote" THEN 2 ELSE 3

\* PrivValidator.SignVote and SignProposal: nothing older than the last
\* signature, and nothing that conflicts with it.
Refuses(s, m) ==
  \E w \in s.signed :
    \/ w.round > m.round
    \/ w.round = m.round /\ SignStep(w) > SignStep(m)
    \/ w.round = m.round /\ SignStep(w) = SignStep(m) /\ w # m

\* Sign m and queue it, with whatever must follow it, for receiveRoutine.
signAndSend(s, m, queue) ==
  IF Refuses(s, m)
  THEN [s EXCEPT !.refused = TRUE]
  ELSE [s EXCEPT !.signed = @ \cup {m}, !.internal = @ \cup queue]

signAddVote(s, type, c) ==
  LET vote == [height |-> s.height, type |-> type, round |-> s.round,
               val |-> Self, block |-> c]
  IN  signAndSend(s, vote, {vote})

\* The valid block if there is one, else a new one, which needs a commit of the
\* height before; the proposal's POL round is the valid round.
decideProposal(s, round) ==
  LET block == IF s.validBlock # None THEN s.validBlock ELSE NewBlock[round]
      prop  == [height |-> s.height, round |-> round, polRound |-> s.validRound,
                block |-> block]
  IN  IF s.validBlock = None /\ s.height > 1 /\ ~HasTwoThirdsMajority(s.lastCommit)
      THEN s
      ELSE signAndSend(s, prop, {prop, [height |-> s.height, part |-> block]})

isProposalComplete(s) ==
  /\ s.proposal # None /\ s.block # None
  /\ s.proposal.polRound >= 0 => HasTwoThirdsMajority(s.prevotes[s.proposal.polRound])
-------------------------------------------------------------------------------
\* Mutant: a step may be entered again.
CanEnter_StepIgnored(s, round, step) == round >= s.round

\* The guard shared by enterPropose, enterPrevote, enterPrevoteWait and
\* enterPrecommit: round is not behind and step was not reached in it.
CanEnter(s, round, step) == round > s.round \/ (round = s.round /\ s.step < step)

\* Mutant: the lock is forgotten when there is a valid proposal.
defaultDoPrevote_IgnoresLock(s) ==
  signAddVote(s, "prevote", IF s.block \in ValidBlocks THEN s.block
                            ELSE IF s.lockedBlock # None THEN s.lockedBlock ELSE Nil)

defaultDoPrevote(s) ==
  signAddVote(s, "prevote", IF s.lockedBlock # None THEN s.lockedBlock
                            ELSE IF s.block \in ValidBlocks THEN s.block ELSE Nil)

enterPrevote(s, round) ==
  IF ~CanEnter(s, round, Prevote) THEN s
  ELSE [defaultDoPrevote(s) EXCEPT !.round = round, !.step = Prevote]

enterPropose(s, round) ==
  IF ~CanEnter(s, round, Propose) THEN s
  ELSE LET a == scheduleTimeout(s, round, Propose)
           b == IF Proposer[round] = Self THEN decideProposal(a, round) ELSE a
           c == [b EXCEPT !.round = round, !.step = Propose]
       IN  IF isProposalComplete(c) THEN enterPrevote(c, c.round) ELSE c

\* Mutant: the empty block interval is not scheduled.
enterNewRound_NoInterval(s, round) ==
  IF round < s.round \/ (round = s.round /\ s.step # NewHeight) THEN s
  ELSE LET a == [s EXCEPT !.round = round, !.step = NewRound, !.triggered = FALSE,
                          !.tracked = round + 1]
       IN  IF WaitForTxs /\ round = 0 /\ s.height \notin ProofHeights THEN a
           ELSE enterPropose(a, round)

\* WaitForTxs delays the proposal of round 0 unless a proof block is due.
enterNewRound(s, round) ==
  IF round < s.round \/ (round = s.round /\ s.step # NewHeight) THEN s
  ELSE LET a == [s EXCEPT !.round = round, !.step = NewRound, !.triggered = FALSE,
                             !.tracked = round + 1]
           b == IF round = 0 THEN a
                ELSE [a EXCEPT !.proposal = None, !.block = None, !.parts = None]
       IN  IF WaitForTxs /\ round = 0 /\ s.height \notin ProofHeights
           THEN IF EmptyBlocksInterval THEN scheduleTimeout(b, round, NewRound) ELSE b
           ELSE enterPropose(b, round)

\* Mutant: the wait may begin after the precommit.
enterPrevoteWait_NoStepGuard(s, round) ==
  IF round < s.round THEN s
  ELSE [scheduleTimeout(s, round, PrevoteWait) EXCEPT !.round = round, !.step = PrevoteWait]

enterPrevoteWait(s, round) ==
  IF ~CanEnter(s, round, PrevoteWait) THEN s
  ELSE IF ~HasTwoThirdsAny(s.prevotes[round]) THEN Panic(s)
  ELSE [scheduleTimeout(s, round, PrevoteWait) EXCEPT !.round = round, !.step = PrevoteWait]

Unlock(s) == [s EXCEPT !.lockedRound = -1, !.lockedBlock = None]

\* HeightVoteSet.POLInfo: the last round tracked with a majority of prevotes.
polRound(s) ==
  LET R == {-1} \cup {q \in Rounds : q <= s.tracked /\ HasTwoThirdsMajority(s.prevotes[q])}
  IN  CHOOSE r \in R : \A q \in R : q <= r

\* Mutant: changing the lock to another block keeps the round of the old one.
precommitStep_OldRound(s, round, maj) ==
  IF maj \in Blocks /\ maj = s.block
  THEN signAddVote([s EXCEPT !.lockedRound = IF @ < 0 THEN round ELSE @,
                             !.lockedBlock = maj], "precommit", maj)
  ELSE signAddVote(s, "precommit", Nil)

\* The lock, the proposal block and the vote that enterPrecommit decides on,
\* given the majority of the round's prevotes.
precommitStep(s, round, maj) ==
  IF maj # None /\ polRound(s) < round THEN Panic(s)
  ELSE CASE maj = None -> signAddVote(s, "precommit", Nil)
         [] maj = Nil  -> signAddVote(Unlock(s), "precommit", Nil)
         [] maj \in Blocks /\ maj = s.lockedBlock ->
              signAddVote([s EXCEPT !.lockedRound = round], "precommit", maj)
         [] maj \in Blocks /\ maj # s.lockedBlock /\ maj = s.block ->
              IF s.block \notin ValidBlocks THEN Panic(s)
              ELSE signAddVote([s EXCEPT !.lockedRound = round, !.lockedBlock = maj],
                               "precommit", maj)
         [] OTHER ->
              signAddVote([Unlock(s) EXCEPT !.block = IF s.parts = maj THEN @ ELSE None,
                                            !.parts = maj], "precommit", Nil)

enterPrecommit(s, round) ==
  IF ~CanEnter(s, round, Precommit) THEN s
  ELSE [precommitStep(s, round, TwoThirdsMajority(s.prevotes[round]))
        EXCEPT !.round = round, !.step = Precommit]

enterPrecommitWait(s, round) ==
  IF round < s.round \/ (round = s.round /\ s.triggered) THEN s
  ELSE IF ~HasTwoThirdsAny(s.precommits[round]) THEN Panic(s)
  ELSE [scheduleTimeout(s, round, PrecommitWait) EXCEPT !.triggered = TRUE]
-------------------------------------------------------------------------------
\* Mutant: LastCommit is taken from the current round.
updateToState_CurrentRound(s) ==
  LET t == [InitState EXCEPT !.height = s.height + 1,
                             !.lastCommit = s.precommits[s.round],
                             !.lastRound = s.round, !.internal = s.internal,
                             !.ti = s.ti, !.tock = s.tock]
  IN  scheduleTimeout(t, 0, NewHeight)

\* updateToState with the state ApplyBlock returned, then scheduleRound0.
updateToState(s) ==
  LET t == [InitState EXCEPT !.height = s.height + 1,
                             !.lastCommit = s.precommits[s.commitRound],
                             !.lastRound = s.commitRound,
                             !.internal = s.internal,
                             !.ti = s.ti, !.tock = s.tock]
  IN  scheduleTimeout(t, 0, NewHeight)

finalizeCommit(s) ==
  LET maj == TwoThirdsMajority(s.precommits[s.commitRound])
  IN  IF s.step # Commit THEN s
      ELSE IF maj = None \/ s.parts # maj \/ s.block # maj \/ s.block \notin ValidBlocks
      THEN Panic(s)
      ELSE updateToState(s)

tryFinalizeCommit(s) ==
  LET maj == TwoThirdsMajority(s.precommits[s.commitRound])
  IN  IF maj \notin Blocks \/ s.block # maj THEN s ELSE finalizeCommit(s)

enterCommit(s, commitRound) ==
  LET maj == TwoThirdsMajority(s.precommits[commitRound])
      a   == IF maj = s.lockedBlock THEN [s EXCEPT !.block = maj, !.parts = maj] ELSE s
      b   == IF a.block # maj /\ a.parts # maj
             THEN [a EXCEPT !.block = None, !.parts = maj] ELSE a
  IN  IF s.step >= Commit THEN s
      ELSE IF maj = None THEN Panic(s)
      ELSE tryFinalizeCommit([b EXCEPT !.step = Commit, !.commitRound = commitRound])
-------------------------------------------------------------------------------
\* Mutant: the parts expected are replaced although they are set.
setProposal_ReplacesParts(s, p) ==
  IF s.proposal # None \/ p.height # s.height \/ p.round # s.round \/ p.polRound >= p.round
  THEN s
  ELSE [s EXCEPT !.proposal = p, !.parts = p.block]

\* defaultSetProposal, for a proposal with a good signature of the proposer.
setProposal(s, p) ==
  IF \/ s.proposal # None \/ p.height # s.height \/ p.round # s.round
     \/ p.polRound >= p.round
  THEN s
  ELSE [s EXCEPT !.proposal = p, !.parts = IF @ = None THEN p.block ELSE @]

\* A part that is expected completes the block; ValidBlock is updated, then
\* the node prevotes (and precommits, on a polka) or finalizes.
addProposalBlockPart(s, m) ==
  IF m.height # s.height \/ s.parts # m.part \/ s.block = m.part THEN s
  ELSE LET maj == TwoThirdsMajority(s.prevotes[s.round])
           a   == [s EXCEPT !.block = m.part]
           b   == IF maj = m.part /\ s.validRound < s.round
                  THEN [a EXCEPT !.validRound = s.round, !.validBlock = m.part] ELSE a
           c   == enterPrevote(b, b.round)
       IN  IF b.step <= Propose /\ isProposalComplete(b)
           THEN IF maj # None THEN enterPrecommit(c, c.round) ELSE c
           ELSE IF b.step = Commit THEN tryFinalizeCommit(b) ELSE b

\* addVote on a prevote that was added: a polka of a later round releases the
\* lock, a polka of this round updates ValidBlock or asks for the block.
onPolka(s, round) ==
  LET maj == TwoThirdsMajority(s.prevotes[round])
      a   == IF s.lockedBlock # None /\ s.lockedRound < round /\ round <= s.round
                /\ s.lockedBlock # maj
             THEN Unlock(s) ELSE s
  IN  IF maj = None THEN s
      ELSE IF maj = Nil \/ a.validRound >= round \/ round # a.round THEN a
      ELSE IF a.block = maj
           THEN [a EXCEPT !.validRound = round, !.validBlock = maj, !.parts = maj]
           ELSE [a EXCEPT !.block = None, !.parts = maj]

\* Mutant: 2/3 of the prevotes of a later round do not make the node skip to it.
addPrevote_NoSkip(s, round) ==
  LET a   == onPolka(s, round)
      maj == TwoThirdsMajority(a.prevotes[round])
  IN  IF a.round # round \/ a.step < Prevote THEN a
      ELSE IF maj # None /\ (isProposalComplete(a) \/ maj = Nil) THEN enterPrecommit(a, round)
      ELSE IF HasTwoThirdsAny(a.prevotes[round]) THEN enterPrevoteWait(a, round) ELSE a

addPrevote(s, round) ==
  LET a   == onPolka(s, round)
      maj == TwoThirdsMajority(a.prevotes[round])
  IN  CASE a.round < round /\ HasTwoThirdsAny(a.prevotes[round]) ->
             enterNewRound(a, round)
        [] a.round = round /\ Prevote <= a.step ->
             IF maj # None /\ (isProposalComplete(a) \/ maj = Nil)
             THEN enterPrecommit(a, round)
             ELSE IF HasTwoThirdsAny(a.prevotes[round]) THEN enterPrevoteWait(a, round)
             ELSE a
        [] round < a.round /\ a.proposal # None /\ a.proposal.polRound = round
             /\ isProposalComplete(a) ->
             enterPrevote(a, a.round)
        [] OTHER -> a

addPrecommit(s, round) ==
  LET maj == TwoThirdsMajority(s.precommits[round])
      a   == enterPrecommit(enterNewRound(s, round), round)
      b   == enterCommit(a, round)
  IN  IF maj \in Blocks
      THEN IF SkipTimeoutCommit /\ HasAll(s.precommits[round])
           THEN enterNewRound(b, 0) ELSE b
      ELSE IF maj = Nil THEN enterPrecommitWait(a, round)
      ELSE IF s.round <= round /\ HasTwoThirdsAny(s.precommits[round])
      THEN enterPrecommitWait(enterNewRound(s, round), round)
      ELSE s

\* A precommit of the previous height, while the commit timeout runs.
addLastCommit(s, v) ==
  IF s.step # NewHeight \/ v.round # s.lastRound \/ s.lastCommit[v.val] # None THEN s
  ELSE LET a == [s EXCEPT !.lastCommit[v.val] = v.block]
       IN  IF SkipTimeoutCommit /\ HasAll(a.lastCommit) THEN enterNewRound(a, 0) ELSE a

addVote(s, v) ==
  CASE v.height + 1 = s.height /\ v.type = "precommit" -> addLastCommit(s, v)
    [] v.height = s.height /\ v.type = "prevote" /\ s.prevotes[v.round][v.val] = None ->
         addPrevote([s EXCEPT !.prevotes[v.round][v.val] = v.block], v.round)
    [] v.height = s.height /\ v.type = "precommit" /\ s.precommits[v.round][v.val] = None ->
         addPrecommit([s EXCEPT !.precommits[v.round][v.val] = v.block], v.round)
    [] OTHER -> s

handleMsg(s, m) == CASE m \in Proposals -> setProposal(s, m)
                     [] m \in Parts     -> addProposalBlockPart(s, m)
                     [] m \in Votes     -> addVote(s, m)
-------------------------------------------------------------------------------
\* handleTimeout drops a timeout of a height, round or step already passed.
Stale(s, t) == \/ t.height # s.height
               \/ t.round < s.round
               \/ t.round = s.round /\ t.step < s.step

\* Timeouts already passed are ignored whenever they are received (heights,
\* rounds and steps only grow), so they are dropped as soon as they are passed.
dropStale(s) == [s EXCEPT !.tock = {t \in @ : ~Stale(s, t)}]

handleTimeout(s, t) ==
  IF Stale(s, t) THEN s
  ELSE CASE t.step = NewHeight     -> enterNewRound(s, 0)
         [] t.step = NewRound      -> enterPropose(s, 0)
         [] t.step = Propose       -> enterPrevote(s, t.round)
         [] t.step = PrevoteWait   -> enterPrecommit(s, t.round)
         [] t.step = PrecommitWait -> enterNewRound(enterPrecommit(s, t.round), t.round + 1)
         [] OTHER -> Panic(s)

handleTxsAvailable(s) ==
  IF s.round # 0 THEN s
  ELSE CASE s.step = NewHeight /\ s.height \notin ProofHeights ->
              scheduleTimeout(s, 0, NewRound)
         [] s.step = NewRound -> enterPropose(s, 0)
         [] OTHER -> s
-------------------------------------------------------------------------------
Init == cs = InitState

Running == ~cs.panicked /\ cs.height <= MaxHeight

Deliver(m) == /\ cs' = dropStale(handleMsg(cs, m))
              /\ cs' # cs

\* A proposal for the current height, signed by the round's proposer.
ReceiveProposal ==
  /\ Running
  /\ \E p \in PeerProposals :
       Deliver([height |-> cs.height, round |-> p.round, polRound |-> p.polRound,
                block |-> p.block])

ReceiveBlockPart ==
  /\ Running
  /\ \E b \in Blocks : Deliver([height |-> cs.height, part |-> b])

\* A vote of another validator for the current height.
ReceiveVote ==
  /\ Running
  /\ \E v \in PeerVotes :
       Deliver([height |-> cs.height, type |-> v.type, round |-> v.round, val |-> v.val,
                block |-> v.block])

\* A precommit for the previous height.
ReceiveLastPrecommit ==
  /\ Running
  /\ cs.height > 1
  /\ \E v \in PeerVotes :
       /\ v.type = "precommit"
       /\ Deliver([height |-> cs.height - 1, type |-> v.type, round |-> v.round,
                   val |-> v.val, block |-> v.block])

\* A message of the internal queue, in any order: sendInternalMessage starts a
\* goroutine for each when the queue is full.
ReceiveInternal ==
  /\ Running
  /\ \E m \in cs.internal :
       cs' = dropStale(handleMsg([cs EXCEPT !.internal = @ \ {m}], m))

ReceiveTimeout ==
  /\ Running
  /\ \E t \in cs.tock :
       /\ t.step = PrecommitWait => t.round < MaxRound
       /\ cs' = dropStale(handleTimeout([cs EXCEPT !.tock = @ \ {t}], t))

TxsAvailable ==
  /\ Running
  /\ WaitForTxs
  /\ cs' = dropStale(handleTxsAvailable(cs))
  /\ cs' # cs

Next == \/ ReceiveProposal
        \/ ReceiveBlockPart
        \/ ReceiveVote
        \/ ReceiveLastPrecommit
        \/ ReceiveInternal
        \/ ReceiveTimeout
        \/ TxsAvailable

Spec == Init /\ [][Next]_cs
-------------------------------------------------------------------------------
\* The round state keeps its shape: nil is never locked, valid or proposed, and
\* rounds stay in range.
TypeOK == cs \in RoundState

\* No panic of state.go is reachable: enterPrevoteWait, enterPrecommitWait and
\* enterCommit find the votes they were called for, no polka and no commit is
\* for an invalid block, and finalizeCommit holds the block that was decided.
NoPanic == ~cs.panicked

\* The signer never refuses a vote or proposal of a node that did not crash:
\* the state machine asks for each height, round and step at most once, in order.
NeverRefused == ~cs.refused

\* A locked block is one Self precommitted in lockedRound, after a polka that is
\* in its vote sets; a valid block had a polka in validRound.  Proposals for a
\* locked or valid block can always show the prevotes they rest on.
LocksJustified ==
  /\ cs.lockedBlock # None =>
       /\ cs.lockedRound \in 0..cs.round
       /\ HasMajority(cs.prevotes[cs.lockedRound], cs.lockedBlock)
       /\ \E w \in cs.signed \cap Votes :
            w.type = "precommit" /\ w.round = cs.lockedRound /\ w.block = cs.lockedBlock
  /\ cs.validBlock # None =>
       /\ cs.validRound \in 0..cs.round
       /\ HasMajority(cs.prevotes[cs.validRound], cs.validBlock)

\* The votes Self cast at this height, and those in its vote sets, as Voter's.
signedVotes ==
  {[type |-> w.type, round |-> w.round, val |-> w.val, block |-> w.block] :
     w \in cs.signed \cap Votes}

seenVotes ==
  {m \in [type : {"prevote", "precommit"}, round : Rounds, val : Validators, block : BlockIDs] :
     m.block = IF m.type = "prevote" THEN cs.prevotes[m.round][m.val]
                                     ELSE cs.precommits[m.round][m.val]}

Voter == INSTANCE Voter WITH height <- cs.height, seen <- seenVotes,
                             signed <- signedVotes

\* enterPrevote and enterPrecommit vote as the rules that agreement rests on
\* allow: in order and once per step; a block is precommitted on a polka of the
\* same round; after that anything else is prevoted only on a later polka.
ImplementsVoter == Voter!Spec

TimerRuns == cs.ti \in cs.tock

OwnVoteQueued(type) ==
  \E m \in cs.internal \cap Votes :
    m.type = type /\ m.height = cs.height /\ m.round = cs.round

\* Nothing the node can act on is left waiting for an input that may not come.
\* A step that waits for a timeout has it running; 2/3 of the votes of a step
\* were acted on once Self's own vote was handled; no later round has 2/3 of any
\* votes; and the Commit step waits for exactly the block that was decided.
NoStall ==
  ~cs.panicked =>
    /\ cs.step \in {NewHeight, Propose, PrevoteWait} => TimerRuns
    /\ cs.step = NewRound /\ EmptyBlocksInterval => TimerRuns
    /\ cs.triggered /\ cs.step # Commit => TimerRuns
    /\ cs.step = Prevote /\ HasTwoThirdsAny(cs.prevotes[cs.round])
         => OwnVoteQueued("prevote") \/ TimerRuns
    /\ HasTwoThirdsAny(cs.precommits[cs.round]) => cs.triggered \/ cs.step = Commit
    /\ \A q \in Rounds : q > cs.round => /\ ~HasTwoThirdsAny(cs.prevotes[q])
                                         /\ ~HasTwoThirdsAny(cs.precommits[q])
    /\ cs.step = Commit => /\ cs.block = None
                           /\ HasMajority(cs.precommits[cs.commitRound], cs.parts)

\* Height, round and step only move forward, whatever order votes, block parts
\* and timeouts come in.
HRSAdvances ==
  [][\/ cs'.height > cs.height
     \/ cs'.height = cs.height /\ cs'.round > cs.round
     \/ cs'.height = cs.height /\ cs'.round = cs.round /\ cs'.step >= cs.step]_cs

\* tryFinalizeCommit: "If we have the block AND +2/3 commits for it, finalize."
\* (state.go:1582): a node never sits on a block 2/3 of the power precommitted.
FinalizesWhenItCan ==
  \A q \in Rounds : cs.block \in Blocks => ~HasMajority(cs.precommits[q], cs.block)

\* A height is left only with 2/3 of the power having precommitted one valid
\* block in one round, and those precommits are the new LastCommit.
CommitsDecided ==
  [][cs'.height # cs.height =>
       /\ cs'.height = cs.height + 1
       /\ \E c \in ValidBlocks : HasMajority(cs'.lastCommit, c)]_cs
===============================================================================
