-------------------------- MODULE ConsensusReactor --------------------------
(* The consensus reactor of a node that serves one peer                        *)
(* (internal/consensus/reactor.go). Three goroutines read the node's round     *)
(* state and the peer's (PeerState), send block parts, votes and claims of     *)
(* majorities, and note what they sent; handlers note what the peer announces, *)
(* one goroutine per channel. A loop iteration is three steps: read the two    *)
(* states, pick and send, note what was sent. The states may change between.   *)
(* The peer runs the same program; only what the node can see of it is here:   *)
(* its place, the votes and parts it has, and the messages it sends. The votes *)
(* that exist and the blocks proposed and decided are constants; the node has  *)
(* those of the heights it has reached.                                        *)
EXTENDS PeerState, Sequences, SequencesExt

CONSTANTS
  Votes,        \* all votes: records of height h, round r, type t and index i
  Quorum,       \* number of votes that make a majority
  Parts,        \* indices of the parts of a block
  Proposals,    \* proposals the node gets: height h, round r, block b, POL round
  Decided,      \* the block decided at each height
  SeenRound,    \* the round of the node's commit of each height
  BlockRound,   \* the round of the commit in the next block
  Routines,     \* the goroutines of this instance: "data", "votes", "query"
  EarlyMessages,\* whether a message may be handled before the peer's PeerUpdate
  Steps,        \* the steps within a round that the peer announces
  NodeRounds,   \* the rounds the node may be in
  PeerRound,    \* the last round the peer enters
  MaxRound, MaxHeight, MaxQueue, MaxLost

VARIABLES
  node,      \* the node's height and round
  prs,       \* the node's PeerRoundState of the peer; None before its PeerUpdate
  data,      \* the gossipDataRoutine: stage and what it read
  votes,     \* the gossipVotesRoutine
  peer,      \* the peer's own round state
  toPeer,    \* messages to the peer on the data and the vote channel
  toNode,    \* messages to the node, by channel
  lost       \* votes lost on the way to the peer

crVars == <<node, prs, data, votes, peer, toPeer, toNode, lost>>

NewHeight == 1
Propose == 3
Precommit == 6
Commit == 8

ReaderIdle == [stage |-> "idle"]

RoundStep(p) == [m |-> "step", h |-> p.height, r |-> p.round, s |-> p.step,
                 last |-> p.last]

Start(on) ==
  /\ \E r \in NodeRounds : node = [height |-> 1, round |-> r, on |-> on]
  /\ prs = None
  /\ data = ReaderIdle /\ votes = ReaderIdle
  /\ peer = [height |-> 1, round |-> 0, step |-> NewHeight, last |-> -1,
             votes |-> {}, opened |-> {}, proposal |-> FALSE,
             header |-> None, parts |-> {}]
  /\ toPeer = [data |-> <<>>, vote |-> <<>>]
  /\ toNode = [data |-> <<>>, vote |-> <<>>, bits |-> <<>>,
               state |-> <<RoundStep(peer)>>]
  /\ lost = {}

Init == Start(TRUE)

-----------------------------------------------------------------------------
(* The node's votes and commits. A vote set of the height reached, or of a     *)
(* commit in the store.                                                        *)

VoteSetOf(h, r, t) ==
  LET voted == {v.i : v \in {v \in Votes : v.h = h /\ v.r = r /\ v.t = t}}
  IN  [h |-> h, r |-> r, t |-> t, voted |-> voted, size |-> 1,
       commit |-> t = "precommit" /\ Cardinality(voted) >= Quorum]

NoVotes == [h |-> 0, r |-> 0, t |-> "precommit", voted |-> {}, size |-> 0, commit |-> FALSE]

LastCommit(n) ==
  IF n.height = 1 THEN NoVotes ELSE VoteSetOf(n.height - 1, SeenRound[n.height - 1], "precommit")

LoadBlockCommit(h) == VoteSetOf(h, BlockRound[h], "precommit")

LoadCommit(h) == IF h = node.height - 1 THEN VoteSetOf(h, SeenRound[h], "precommit")
                 ELSE LoadBlockCommit(h)

ProposalOf(n) == {p \in Proposals : p.h = n.height /\ p.r = n.round}

\* The node moves on, with the help of others.
NodeAdvances ==
  /\ node.on /\ node.height < MaxHeight
  /\ \E r \in NodeRounds : node' = [node EXCEPT !.height = @ + 1, !.round = r]
  /\ UNCHANGED <<prs, data, votes, peer, toPeer, toNode, lost>>

\* processPeerUpdate, PeerStatusUp.
processPeerUpdate ==
  /\ node.on /\ prs = None
  /\ prs' = NewPeerState
  /\ UNCHANGED <<node, data, votes, peer, toPeer, toNode, lost>>

Room(q) == Len(q) < MaxQueue

-----------------------------------------------------------------------------
(* gossipVotesRoutine. *)

\* The copies of the two states, or what the routine uses of them.
Reading(fields) == [stage |-> "read", node |-> node, prs |-> [f \in fields |-> prs[f]]]

\* The vote sets that gossipVotesForHeight tries, in order.
gossipVotesForHeight(n, s) ==
  LET known    == s.round # -1 /\ s.round <= n.round
      pol      == IF s.polRound \notin 0..(n.round + 1) THEN <<>>
                  ELSE <<VoteSetOf(n.height, s.polRound, "prevote")>>
      When(c, q) == IF c THEN q ELSE <<>>
      prevotes == <<VoteSetOf(n.height, s.round, "prevote")>>
  IN  When(s.step = NewHeight, <<LastCommit(n)>>)
      \o When(s.step <= Propose /\ known, pol)
      \o When(s.step <= 5 /\ known, prevotes)
      \o When(s.step <= 7 /\ known, <<VoteSetOf(n.height, s.round, "precommit")>>)
      \o When(known, prevotes)
      \o pol

ToTry(n, s) ==
  CASE n.height = s.height -> gossipVotesForHeight(n, s)
    [] n.height = s.height + 1 /\ s.height # 0 -> <<LastCommit(n)>>
    [] n.height >= s.height + 2 /\ s.height # 0 -> <<LoadBlockCommit(s.height)>>
    [] OTHER -> <<>>

\* One turn of the loop: reads the two states and, from these, the vote sets to
\* try.
VotesRead ==
  /\ "votes" \in Routines /\ prs # None /\ votes.stage = "idle"
  /\ ToTry(node, prs) # <<>>
  /\ votes' = [stage |-> "read", todo |-> ToTry(node, prs)]
  /\ UNCHANGED <<node, prs, data, peer, toPeer, toNode, lost>>

\* pickSendVote up to the send, of the next set. Without a vote to send the set
\* still leaves its trace in the peer state, and the next one is tried.
pickSendVote ==
  /\ votes.stage = "read" /\ Room(toPeer.vote)
  /\ LET set == Head(votes.todo)
         try == PickVoteToSend(prs, set)
     IN  /\ prs' = try.prs
         /\ \/ /\ try.picks = {}
               /\ votes' = IF Len(votes.todo) = 1 THEN ReaderIdle
                           ELSE [votes EXCEPT !.todo = Tail(@)]
               /\ UNCHANGED toPeer
            \/ \E i \in try.picks :
                 LET v == [h |-> set.h, r |-> set.r, t |-> set.t, i |-> i]
                 IN  /\ votes' = [stage |-> "sent", vote |-> v]
                     /\ toPeer' = [toPeer EXCEPT !.vote = Append(@, v)]
  /\ UNCHANGED <<node, data, peer, toNode, lost>>

SetHasVote ==
  /\ votes.stage = "sent"
  /\ prs' = setHasVote(prs, votes.vote)
  /\ votes' = ReaderIdle
  /\ UNCHANGED <<node, data, peer, toPeer, toNode, lost>>

-----------------------------------------------------------------------------
(* gossipDataRoutine. *)

DataRead ==
  /\ "data" \in Routines /\ prs # None /\ data.stage = "idle"
  /\ data' = Reading({"height", "round", "proposal", "header", "parts"})
  /\ UNCHANGED <<node, prs, votes, peer, toPeer, toNode, lost>>

Missing(s) == IF s.parts = None THEN {} ELSE Parts \ s.parts

\* A part of the node's own proposal block, if the peer waits for that block.
SendPart(n, s) ==
  \E p \in ProposalOf(n), i \in Missing(s) :
    /\ p.b = s.header
    /\ Room(toPeer.data)
    /\ toPeer' = [toPeer EXCEPT !.data = Append(@, [m |-> "part", h |-> n.height, b |-> p.b, i |-> i])]
    /\ data' = [stage |-> "sent", h |-> s.height, r |-> s.round, i |-> i]
    /\ UNCHANGED prs

Sendable(n, s) == \E p \in ProposalOf(n) : p.b = s.header /\ Missing(s) # {}

\* gossipDataForCatchup does not note what it sends.
gossipDataForCatchup(n, s) ==
  /\ ~Sendable(n, s)
  /\ 0 < s.height /\ s.height < n.height
  /\ data' = ReaderIdle
  /\ \/ /\ s.parts = None
        /\ prs' = InitProposalBlockParts(prs, Decided[s.height])
        /\ UNCHANGED toPeer
     \/ /\ s.parts # None /\ s.header = Decided[s.height]
        /\ Room(toPeer.data)
        /\ \E i \in Missing(s) :
             toPeer' = [toPeer EXCEPT !.data =
                          Append(@, [m |-> "part", h |-> s.height, b |-> s.header, i |-> i])]
        /\ UNCHANGED prs
     \/ /\ s.parts # None /\ (s.header # Decided[s.height] \/ Missing(s) = {})
        /\ UNCHANGED <<prs, toPeer>>

\* The proposal, and the prevotes the node has for its POL round.
SendProposal(n, s) ==
  /\ ~Sendable(n, s)
  /\ ~(0 < s.height /\ s.height < n.height)
  /\ data' = ReaderIdle
  /\ IF n.height = s.height /\ n.round = s.round /\ ProposalOf(n) # {} /\ ~s.proposal
     THEN \E p \in ProposalOf(n) :
            /\ Room(toPeer.data)
            /\ toPeer' = [toPeer EXCEPT !.data = Append(@, [m |-> "proposal", p |-> p])]
            /\ prs' = SetHasProposal(prs, p)
     ELSE UNCHANGED <<prs, toPeer>>

gossipDataRoutine ==
  /\ data.stage = "read"
  /\ \/ SendPart(data.node, data.prs)
     \/ gossipDataForCatchup(data.node, data.prs)
     \/ SendProposal(data.node, data.prs)
  /\ UNCHANGED <<node, votes, peer, toNode, lost>>

NoteSentPart ==
  /\ data.stage = "sent"
  /\ prs' = SetHasProposalBlockPart(prs, data.h, data.r, data.i)
  /\ data' = ReaderIdle
  /\ UNCHANGED <<node, votes, peer, toPeer, toNode, lost>>

-----------------------------------------------------------------------------
(* queryMaj23Routine: claims of the majorities that the peer may be missing.   *)
(* The claim and the peer's answer, handleStateMessage's VoteSetMaj23, are one *)
(* step: the votes the peer has when the claim arrives. A round that the peer  *)
(* does not track has no votes to answer with, not even an empty set.          *)

Claim(vs) ==
  LET tracked == vs.r <= peer.round + 1 \/ vs.r \in peer.opened
      has     == {v.i : v \in {v \in peer.votes : v.r = vs.r /\ v.t = vs.t}}
  IN  /\ Cardinality(vs.voted) >= Quorum
      /\ vs.h = peer.height
      /\ Room(toNode.bits)
      /\ toNode' = [toNode EXCEPT !.bits = Append(@,
                      [h |-> vs.h, r |-> vs.r, t |-> vs.t,
                       votes |-> IF tracked THEN has ELSE None])]
      /\ UNCHANGED <<node, prs, data, votes, peer, toPeer, lost>>

Asking == "query" \in Routines /\ prs # None

QueryRound ==
  /\ Asking /\ node.height = prs.height
  /\ prs.round \in 0..(node.round + 1)
  /\ \E t \in {"prevote", "precommit"} : Claim(VoteSetOf(node.height, prs.round, t))

QueryPOL ==
  /\ Asking /\ node.height = prs.height /\ prs.polRound >= 0
  /\ Claim(VoteSetOf(node.height, prs.polRound, "prevote"))

QueryCatchup ==
  /\ Asking /\ prs.catchupRound # -1 /\ prs.height \in 1..(node.height - 1)
  /\ Claim(LoadCommit(prs.height))

-----------------------------------------------------------------------------
(* Handlers of the node, one goroutine per channel. A message of a peer whose  *)
(* PeerUpdate was not processed yet is dropped.                                *)

\* next is the peer's state after the first message on channel ch.
Handle(ch, next) ==
  /\ toNode[ch] # <<>>
  /\ prs # None \/ EarlyMessages
  /\ prs' = IF prs = None THEN None ELSE next
  /\ toNode' = [toNode EXCEPT ![ch] = Tail(@)]
  /\ UNCHANGED <<node, data, votes, peer, toPeer, lost>>

handleStateMessage ==
  LET m == Head(toNode.state)
  IN  Handle("state", CASE m.m = "step"  -> ApplyNewRoundStepMessage(prs, m)
                        [] m.m = "valid" -> ApplyNewValidBlockMessage(prs, m)
                        [] m.m = "has"   -> ApplyHasVoteMessage(prs, m.v))

handleDataMessage ==
  LET m == Head(toNode.data)
  IN  Handle("data", CASE m.m = "proposal" -> SetHasProposal(prs, m.p)
                       [] m.m = "pol"      -> ApplyProposalPOLMessage(prs, m)
                       [] m.m = "part"     -> SetHasProposalBlockPart(prs, m.h, m.r, m.i))

handleVoteMessage ==
  LET prs1 == ensureVoteBitArrays(prs, node.height)
      prs2 == IF node.height = 1 THEN prs1 ELSE ensureVoteBitArrays(prs1, node.height - 1)
  IN  Handle("vote", setHasVote(prs2, Head(toNode.vote)))

handleVoteSetBitsMessage ==
  LET m == Head(toNode.bits)
  IN  Handle("bits", ApplyVoteSetBitsMessage(prs, m, IF node.height # m.h THEN None
                                                     ELSE VoteSetOf(m.h, m.r, m.t).voted))

-----------------------------------------------------------------------------
(* The peer. *)

\* Sends messages to the node's state channel, if there is room for them.
Announce(msgs) ==
  /\ Len(toNode.state) + Len(msgs) <= MaxQueue + 1
  /\ toNode' = [toNode EXCEPT !.state = @ \o msgs]

Goes(p, msgs) ==
  /\ node.on /\ peer.height < MaxHeight
  /\ peer' = p
  /\ Announce(msgs)
  /\ UNCHANGED <<node, prs, data, votes, toPeer, lost>>

PeerSteps ==
  \E s \in Steps :
    /\ s > peer.step
    /\ Goes([peer EXCEPT !.step = s], <<RoundStep([peer EXCEPT !.step = s])>>)

PeerEntersRound ==
  /\ peer.step # Commit /\ peer.round < PeerRound
  /\ LET p == [peer EXCEPT !.round = @ + 1, !.step = Propose, !.proposal = FALSE,
                           !.header = None, !.parts = {}]
     IN  Goes(p, <<RoundStep(p)>>)

PrecommitsOf(r) == {v \in peer.votes : v.r = r /\ v.t = "precommit"}

\* enterCommit; NewValidBlock goes out before the step is set to Commit, so
\* that its IsCommit is false.
PeerEntersCommit ==
  /\ peer.step # Commit
  /\ \E r \in 0..MaxRound : Cardinality(PrecommitsOf(r)) >= Quorum
  /\ LET b  == Decided[peer.height]
         p1 == IF peer.header = b THEN peer ELSE [peer EXCEPT !.header = b, !.parts = {}]
         p2 == [p1 EXCEPT !.step = Commit]
         valid == [m |-> "valid", h |-> peer.height, r |-> peer.round, b |-> b,
                   parts |-> {}, isCommit |-> FALSE]
     IN  Goes(p2, IF peer.header = b THEN <<RoundStep(p2)>> ELSE <<valid, RoundStep(p2)>>)

PeerFinalizes ==
  /\ peer.step = Commit /\ peer.parts = Parts
  /\ \E r \in 0..MaxRound :
       /\ Cardinality(PrecommitsOf(r)) >= Quorum
       /\ LET p == [height |-> peer.height + 1, round |-> 0, step |-> NewHeight,
                    last |-> r, votes |-> {}, opened |-> {}, proposal |-> FALSE,
                    header |-> None, parts |-> {}]
          IN  Goes(p, <<RoundStep(p)>>)

\* A vote, a proposal or a part that the peer gets from others.
PeerGetsVote ==
  \E v \in Votes \ peer.votes :
    /\ v.h = peer.height /\ v.r <= peer.round + 1
    /\ Goes([peer EXCEPT !.votes = @ \cup {v}], <<[m |-> "has", v |-> v]>>)

WithProposal(p) ==
  IF p.h # peer.height \/ p.r # peer.round \/ peer.proposal THEN peer
  ELSE IF peer.header # None THEN [peer EXCEPT !.proposal = TRUE]
  ELSE [peer EXCEPT !.proposal = TRUE, !.header = p.b, !.parts = {}]

PeerGetsProposal ==
  \E p \in Proposals : WithProposal(p) # peer /\ Goes(WithProposal(p), <<>>)

PeerGetsPart ==
  /\ peer.header # None
  /\ \E i \in Parts \ peer.parts : Goes([peer EXCEPT !.parts = @ \cup {i}], <<>>)

\* The peer takes a message of the node.
Takes(ch, p) ==
  /\ toPeer' = [toPeer EXCEPT ![ch] = Tail(@)]
  /\ peer' = p
  /\ UNCHANGED <<node, prs, data, votes, lost>>

PeerTakesVote ==
  /\ toPeer.vote # <<>>
  /\ LET v == Head(toPeer.vote)
         tracked == v.r <= peer.round + 1 \/ v.r \in peer.opened
         wanted  == tracked \/ Cardinality(peer.opened) < 2
         p == [peer EXCEPT !.votes = @ \cup {v},
                           !.opened = IF tracked THEN @ ELSE @ \cup {v.r}]
     IN  \/ /\ v.h = peer.height /\ wanted /\ v \notin peer.votes
            /\ Announce(<<[m |-> "has", v |-> v]>>)
            /\ Takes("vote", p)
         \/ /\ ~(v.h = peer.height /\ wanted /\ v \notin peer.votes)
            /\ Takes("vote", peer)
            /\ UNCHANGED toNode

PeerTakesData ==
  /\ toPeer.data # <<>>
  /\ LET m == Head(toPeer.data)
         takesPart == m.m = "part" /\ m.h = peer.height /\ m.b = peer.header
     IN  Takes("data", IF m.m = "proposal" THEN WithProposal(m.p)
                       ELSE IF takesPart THEN [peer EXCEPT !.parts = @ \cup {m.i}]
                       ELSE peer)
  /\ UNCHANGED toNode

\* The peer gossips to the node what it has.
PeerSends(ch, m) ==
  /\ Room(toNode[ch])
  /\ toNode' = [toNode EXCEPT ![ch] = Append(@, m)]
  /\ UNCHANGED <<node, prs, data, votes, peer, toPeer, lost>>

PeerSendsVote == "votes" \in Routines /\ peer.height < MaxHeight /\ \E v \in peer.votes : PeerSends("vote", v)

PeerSendsData ==
  /\ "data" \in Routines
  /\ \/ \E p \in Proposals :
          /\ peer.proposal /\ p.h = peer.height /\ p.r = peer.round
          /\ \/ PeerSends("data", [m |-> "proposal", p |-> p])
             \/ /\ p.pol >= 0
                /\ PeerSends("data", [m |-> "pol", h |-> p.h, pol |-> p.pol, votes |->
                     {v.i : v \in {v \in peer.votes : v.r = p.pol /\ v.t = "prevote"}}])
     \/ \E i \in peer.parts :
          PeerSends("data", [m |-> "part", h |-> peer.height, r |-> peer.round, i |-> i])

\* The queue to the peer drops a vote.
LoseVote ==
  /\ toPeer.vote # <<>> /\ Head(toPeer.vote) \notin lost /\ Cardinality(lost) < MaxLost
  /\ lost' = lost \cup {Head(toPeer.vote)}
  /\ toPeer' = [toPeer EXCEPT !.vote = Tail(@)]
  /\ UNCHANGED <<node, prs, data, votes, peer, toNode>>

-----------------------------------------------------------------------------
Gossips == VotesRead \/ pickSendVote \/ SetHasVote
Serves  == DataRead \/ NoteSentPart
Handles == handleStateMessage \/ handleDataMessage \/ handleVoteMessage
           \/ handleVoteSetBitsMessage
PeerTakes == PeerTakesVote \/ PeerTakesData

Next ==
  \/ NodeAdvances \/ processPeerUpdate
  \/ Gossips \/ Serves \/ gossipDataRoutine
  \/ QueryRound \/ QueryPOL \/ QueryCatchup
  \/ Handles \/ PeerTakes
  \/ PeerSteps \/ PeerEntersRound \/ PeerEntersCommit \/ PeerFinalizes
  \/ PeerGetsVote \/ PeerGetsProposal \/ PeerGetsPart
  \/ PeerSendsVote \/ PeerSendsData
  \/ LoseVote

\* The reactor's goroutines for the peer, its handlers, and the peer go on.
Moves == processPeerUpdate \/ handleStateMessage
         \/ PeerTakesVote \/ PeerEntersCommit \/ PeerFinalizes
Asks  == QueryCatchup \/ handleVoteSetBitsMessage

VotesFairness == WF_crVars(Moves) /\ WF_crVars(Gossips) /\ WF_crVars(Asks)

Spec == Init /\ [][Next]_crVars

\* Heights and rounds stay in range and only known votes and parts are recorded.
TypeOK ==
  /\ node.height \in 1..MaxHeight /\ node.round \in 0..MaxRound
  /\ prs # None => /\ prs.height \in 0..(MaxHeight + 1) /\ prs.round \in -1..MaxRound
                   /\ prs.parts # None => prs.parts \subseteq Parts
  /\ peer.votes \subseteq Votes /\ peer.parts \subseteq Parts
  /\ lost \subseteq Votes

\* A vote that the node has marked as known to the peer, at the peer's height,
\* is one the peer has, or that is on its way to it, or was lost on the way.
MarkedIsSent ==
  prs # None /\ prs.height = peer.height =>
    \A v \in {v \in Votes : v.h = peer.height} :
      LET bits == Bits(prs, v.h, v.r, v.t) IN
      bits # None /\ v.i \in bits =>
        \/ v \in peer.votes \cup lost
        \/ \E k \in 1..Len(toPeer.vote) : toPeer.vote[k] = v

\* Whether the peer only ever waits for one block of its height.
OneBlock == \A p \in Proposals : p.h = peer.height => p.b = Decided[p.h]

\* A part marked as known to the peer, of the one block that the peer waits for,
\* is one the peer has or that is on its way to it: what a goroutine notes after
\* the send never lands in the arrays of a later round.
MarkedPartIsSent ==
  OneBlock /\ prs # None /\ prs.height = peer.height /\ prs.round = peer.round
  /\ prs.header = peer.header /\ prs.parts # None =>
    \A i \in prs.parts :
      \/ i \in peer.parts
      \/ \E k \in 1..Len(toPeer.data) :
           toPeer.data[k].m = "part" /\ toPeer.data[k].b = prs.header /\ toPeer.data[k].i = i

\* A peer that is behind the node is brought to its next height by the node
\* alone: the precommits of the commit reach it, those lost on the way as well.
CatchesUp == \A h \in {v.h : v \in Votes} :
  (peer.height = h /\ node.height > h) ~> (peer.height > h)
=============================================================================
