------------------------------ MODULE MCServices ------------------------------
(***************************************************************************)
(* Small instances of the parts that go on for ever or must get there in   *)
(* the end: recovery, the gossip of transactions and evidence, the remote  *)
(* signer, router and peer manager, the consensus reactor serving a peer   *)
(* that is behind.  They do not share state, and one of them is started.   *)
(***************************************************************************)
EXTENDS Recovery, RemoteSigner

CONSTANTS n1, n2, n3   \* nodes

VARIABLES reactor, clist, pushed, kept, routine, up, has, updates
VARIABLES pm, dialLoop, dials, route, queue, evictLoop, unheard, crashed
VARIABLES me, prs, data, votes, peer, toPeer, toNode, lost
VARIABLE which   \* the part that is started

goVars == <<reactor, clist, pushed, kept, routine, up, has, updates>>
rtVars == <<pm, dialLoop, dials, route, queue, evictLoop, unheard, crashed>>
crVars == <<me, prs, data, votes, peer, toPeer, toNode, lost>>

Go == INSTANCE Gossip WITH GossipPeers <- {n1}, MaxElements <- 3, MaxUpdates <- 3
Rt == INSTANCE Router WITH
  NodeIDs <- {n1, n2, n3}, PersistentPeers <- {n3}, MaxPeers <- 2, MaxConnected <- 1,
  MaxConnectedUpgrade <- 1, MaxScore <- 1, NumDials <- 1, Listed <- {n2, n3}, Inbound <- {n1},
  Faulty <- {n1}, Unreachable <- {n3}, Rising <- {}
CR == INSTANCE ConsensusReactor WITH
  Votes <- [h : {1}, r : {2}, t : {"precommit"}, i : {0, 1}], Quorum <- 2, Parts <- {},
  Proposals <- {}, Decided <- <<"B", "B">>, SeenRound <- <<2, 2>>,
  BlockRound <- <<2, 2>>, Routines <- {"votes", "query"}, EarlyMessages <- FALSE,
  Steps <- {}, NodeRounds <- {2}, PeerRound <- 0, MaxRound <- 2, MaxHeight <- 2,
  MaxQueue <- 1, MaxLost <- 1, node <- me
-------------------------------------------------------------------------------
Init ==
  /\ which \in {"recovery", "gossip", "signer", "router", "reactor"}
  /\ RecoveryStart(which = "recovery")
  /\ Go!Start(which = "gossip")
  /\ SignerStart(which = "signer")
  /\ Rt!Start(which = "router")
  /\ CR!Start(which = "reactor")

Next ==
  /\ UNCHANGED which
  /\ \/ which = "recovery" /\ RecoveryNext /\ UNCHANGED <<goVars, rsVars, rtVars, crVars>>
     \/ which = "gossip" /\ Go!Next /\ UNCHANGED <<recVars, rsVars, rtVars, crVars>>
     \/ which = "signer" /\ SignerNext /\ UNCHANGED <<recVars, goVars, rtVars, crVars>>
     \/ which = "router" /\ Rt!Next /\ UNCHANGED <<recVars, goVars, rsVars, crVars>>
     \/ which = "reactor" /\ CR!Next /\ UNCHANGED <<recVars, goVars, rsVars, rtVars>>

Spec ==
  /\ Init
  /\ [][Next]_<<which, recVars, goVars, rsVars, rtVars, crVars>>
  /\ RecoveryFairness /\ Go!Fairness /\ SignerFairness /\ Rt!Fairness /\ CR!VotesFairness
-------------------------------------------------------------------------------
\* Gossip: a peer's goroutine passes over no entry that stays, a goroutine of a peer
\* that is down is told to end, and an entry that stays reaches every peer that is
\* served.
Reaches ==
  /\ [](which = "gossip" => Go!TypeOK /\ Go!NoneSkipped /\ Go!ClosedWhenDown)
  /\ Go!Reaches

\* Router: an evicted peer with a queue is disconnected.
EvictedLeaves == Rt!EvictedLeaves

\* Consensus reactor: a peer that is behind is brought to the next height.
CatchesUp == CR!CatchesUp
===============================================================================
