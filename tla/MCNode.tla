-------------------------------- MODULE MCNode --------------------------------
(***************************************************************************)
(* Small instances of parts of a node that are checked for safety: the     *)
(* private validator, the mempool, the evidence pool, the stores, the      *)
(* light client, state sync, the rounds of a height, and the consensus     *)
(* reactor: with its votes, with its block parts and with a proof of lock. *)
(* They do not share state, and one of them is started.                    *)
(***************************************************************************)
EXTENDS FilePV, EvidencePool, HeightVoteSet

CONSTANTS x1, x2, x3,     \* transactions, evidence, snapshots
          sender,         \* of transactions
          self, n1, n2,   \* peers
          NoSender, None

VARIABLES which
VARIABLES mp, inflight, calling, answered, popped, committed, crashed
VARIABLES vals, params, state, blocks, todo, retain, valsAt, paramsAt, storeCrashes
VARIABLES lc, op, forks, now, sent, requests
VARIABLES snapshotPeers, peerIndex, blacklist, snapshot, chunks, syncPc, fetching,
          chunkReqs, current, restored, complaints, retried
VARIABLES pm, dialLoop, dials, route, queue, evictLoop, unheard, stopped
VARIABLES node, prs, data, votes, peer, toPeer, toNode, lost

mpVars == <<mp, inflight, calling, answered, popped, committed, crashed>>
stVars == <<vals, params, state, blocks, todo, retain, valsAt, paramsAt, storeCrashes>>
lcVars == <<lc, op, forks, now, sent, requests>>
ssVars == <<snapshotPeers, peerIndex, blacklist, snapshot, chunks, syncPc, fetching,
            chunkReqs, current, restored, complaints, retried>>
pvVars == vars
rtVars == <<pm, dialLoop, dials, route, queue, evictLoop, unheard, stopped>>
crVars == <<node, prs, data, votes, peer, toPeer, toNode, lost>>
-------------------------------------------------------------------------------
\* Every step of round 0, then single steps of the next round and height: HRS
\* regress by step, by round and by height, and every HRS has four candidates.
MCRequests ==
  {m \in PV!SignBytes : \/ m.height = 1 /\ m.round = 0
                        \/ m.height = 1 /\ m.step = PV!stepPrevote
                        \/ m.round = 0 /\ m.step = PV!stepPrevote}

\* A small transaction and a large one of one sender, and another small one, in
\* a mempool full with the small ones or the large one.
Pool == INSTANCE Mempool WITH
  Txs <- {x1, x2, x3}, SizeOf <- [x \in {x1, x2, x3} |-> IF x = x3 THEN 2 ELSE 1],
  SenderOf <- [x \in {x1, x2, x3} |-> IF x = x2 THEN NoSender ELSE sender],
  Priorities <- {1, 2}, Size <- 2, MaxTxsBytes <- 2, CacheSize <- 3, TTLNumBlocks <- 1,
  SetsDone <- TRUE, ReapRechecking <- FALSE, MaxHeight <- 2

\* One piece of evidence of height 1 and two of height 2.
MCHeightOf == [x \in Evidence |-> IF x = x1 THEN 1 ELSE 2]

St == INSTANCE Stores WITH
  InitialHeight <- 1, SyncHeights <- {2}, MaxHeight <- 4, valSetCheckpointInterval <- 2,
  BatchSize <- 1, MaxStoreCrashes <- 1

\* A chain whose validators are replaced one at a time and then all but one.
LB(h, v, n, sig, id, l) ==
  [h |-> h, t |-> h, vals |-> v, next |-> n, signers |-> sig, id |-> id, last |-> l]
ValsOf(h) == IF h <= 2 THEN {"a", "b", "c"} ELSE IF h <= 4 THEN {"b", "c", "d"} ELSE {"d", "e", "f"}
Weak == {LB(4, ValsOf(4), ValsOf(5), {"b"}, 40, 3), LB(5, {"a"}, {"a"}, {"a"}, 50, 4),
         LB(3, {"a"}, {"a"}, {"a"}, 30, 2)}
Strong == {LB(4, {"b", "c"}, {"b"}, {"b", "c"}, 41, 3), LB(5, {"b"}, {"b"}, {"b"}, 51, 41),
           [LB(5, {"b", "c"}, {"b"}, {"b", "c"}, 52, 3) EXCEPT !.t = 4]}
OfTrusted == {LB(2, {"a"}, {"a"}, {"a"}, 20, 1)}
MainChain == [h \in 1..5 |-> LB(h, ValsOf(h), ValsOf(h + 1), ValsOf(h), h, h - 1)]

\* A faulty primary, and a faulty witness.
Light == INSTANCE LightClient WITH
  Providers <- <<"p", "w", "x">>, FaultyProviders <- {"p"}, Chain <- MainChain,
  ForkSets <- {Weak, Strong}, SafeForks <- {Weak}, TrustHeight <- 2, TrustingPeriod <- 3,
  MaxClockDrift <- 1, PruningSize <- 2, MaxTime <- 6, MaxRequests <- 2, None <- 0
LightW == INSTANCE LightClient WITH
  Providers <- <<"p", "w", "x">>, FaultyProviders <- {"w"}, Chain <- MainChain,
  ForkSets <- {Weak, OfTrusted}, SafeForks <- {Weak, OfTrusted}, TrustHeight <- 2,
  TrustingPeriod <- 3, MaxClockDrift <- 1, PruningSize <- 2, MaxTime <- 5, MaxRequests <- 1,
  None <- 0

SS == INSTANCE StateSync WITH
  SnapPeers <- {n1, n2}, Snapshots <- {x1, x2}, Fetchers <- {1, 2}, NumChunks <- 2,
  SnapHeight <- [x \in {x1, x2} |-> IF x = x1 THEN 2 ELSE 1], SnapFormat <- [x \in {x1, x2} |-> 1],
  Adverts <- [x \in {n1, n2} |-> IF x = n1 THEN {x1, x2} ELSE {x1}],
  RecentSnapshots <- 1, MaxComplaints <- 1, MaxReqs <- 1

\* One connection at a time, and a peer whose score rises.
Rt == INSTANCE Router WITH
  NodeIDs <- {n1, n2}, PersistentPeers <- {}, MaxPeers <- 2, MaxConnected <- 1,
  MaxConnectedUpgrade <- 1, MaxScore <- 1, NumDials <- 1, Listed <- {n2}, Inbound <- {n1, n2},
  Faulty <- {n1}, Unreachable <- {}, Rising <- {n2}, crashed <- stopped

VoteAt(r, t) == [h |-> 1, r |-> r, t |-> t, i |-> 0]
ByVotes == INSTANCE ConsensusReactor WITH
  Votes <- {VoteAt(2, "precommit"), VoteAt(1, "prevote"), VoteAt(0, "prevote")}, Quorum <- 1,
  Parts <- {}, Proposals <- {}, Decided <- <<"B", "B", "B">>, SeenRound <- <<2, 2, 2>>,
  BlockRound <- <<2, 2, 2>>, Routines <- {"votes"}, EarlyMessages <- TRUE, Steps <- {},
  NodeRounds <- {1}, PeerRound <- 1, MaxRound <- 2, MaxHeight <- 3, MaxQueue <- 1, MaxLost <- 0

ProposalAt(r, pol) == [h |-> 1, r |-> r, b |-> "B", pol |-> pol]
ByData == INSTANCE ConsensusReactor WITH
  Votes <- {VoteAt(0, "precommit")}, Quorum <- 1, Parts <- {0},
  Proposals <- {ProposalAt(0, -1), ProposalAt(1, 0)}, Decided <- <<"B", "B">>, SeenRound <- <<2, 2>>,
  BlockRound <- <<2, 2>>, Routines <- {"data"}, EarlyMessages <- FALSE, Steps <- {},
  NodeRounds <- {0, 1}, PeerRound <- 1, MaxRound <- 2, MaxHeight <- 2, MaxQueue <- 1, MaxLost <- 0
ByPOL == INSTANCE ConsensusReactor WITH
  Votes <- {VoteAt(0, "prevote")}, Quorum <- 1, Parts <- {}, Proposals <- {ProposalAt(1, 0)},
  Decided <- <<"B">>, SeenRound <- <<2>>, BlockRound <- <<2>>,
  Routines <- {"data", "votes", "query"}, EarlyMessages <- FALSE, Steps <- {3},
  NodeRounds <- {1}, PeerRound <- 1, MaxRound <- 2, MaxHeight <- 1, MaxQueue <- 1, MaxLost <- 0
-------------------------------------------------------------------------------
GroupInit ==
  /\ which \in {"filepv", "mempool", "evidence", "stores", "light", "witness", "statesync",
             "rounds", "router", "votes", "parts", "pol"}
  /\ Init
  /\ Pool!Start(which = "mempool")
  /\ EvidenceStart(which = "evidence")
  /\ St!Start(which = "stores")
  /\ IF which = "witness" THEN LightW!Init ELSE Light!Start(which = "light")
  /\ SS!Start(which = "statesync")
  /\ HVSInit
  /\ Rt!Start(which = "router")
  /\ CASE which = "parts" -> ByData!Init
       [] which = "pol" -> ByPOL!Init
       [] OTHER -> ByVotes!Start(which = "votes")

GroupNext ==
  /\ UNCHANGED which
  /\ \/ /\ which = "filepv" /\ Next
        /\ UNCHANGED <<mpVars, epVars, stVars, lcVars, ssVars, hvsVars, rtVars, crVars>>
     \/ /\ which = "mempool" /\ Pool!Next
        /\ UNCHANGED <<pvVars, epVars, stVars, lcVars, ssVars, hvsVars, rtVars, crVars>>
     \/ /\ which = "evidence" /\ EvidenceNext
        /\ UNCHANGED <<pvVars, mpVars, stVars, lcVars, ssVars, hvsVars, rtVars, crVars>>
     \/ /\ which = "stores" /\ St!Next
        /\ UNCHANGED <<pvVars, mpVars, epVars, lcVars, ssVars, hvsVars, rtVars, crVars>>
     \/ /\ which = "light" /\ Light!Next
        /\ UNCHANGED <<pvVars, mpVars, epVars, stVars, ssVars, hvsVars, rtVars, crVars>>
     \/ /\ which = "witness" /\ LightW!Next
        /\ UNCHANGED <<pvVars, mpVars, epVars, stVars, ssVars, hvsVars, rtVars, crVars>>
     \/ /\ which = "statesync" /\ SS!Next
        /\ UNCHANGED <<pvVars, mpVars, epVars, stVars, lcVars, hvsVars, rtVars, crVars>>
     \/ /\ which = "rounds" /\ HVSNext
        /\ UNCHANGED <<pvVars, mpVars, epVars, stVars, lcVars, ssVars, rtVars, crVars>>
     \/ /\ which = "router" /\ Rt!Next
        /\ UNCHANGED <<pvVars, mpVars, epVars, stVars, lcVars, ssVars, hvsVars, crVars>>
     \/ /\ which = "votes" /\ ByVotes!Next
        /\ UNCHANGED <<pvVars, mpVars, epVars, stVars, lcVars, ssVars, hvsVars, rtVars>>
     \/ /\ which = "parts" /\ ByData!Next
        /\ UNCHANGED <<pvVars, mpVars, epVars, stVars, lcVars, ssVars, hvsVars, rtVars>>
     \/ /\ which = "pol" /\ ByPOL!Next
        /\ UNCHANGED <<pvVars, mpVars, epVars, stVars, lcVars, ssVars, hvsVars, rtVars>>

GroupSpec ==
  GroupInit /\ [][GroupNext]_<<which, pvVars, mpVars, epVars, stVars, lcVars, ssVars, hvsVars, rtVars, crVars>>
\* The light client with a faulty primary alone.
LightSpec == which = "light" /\ GroupSpec
-------------------------------------------------------------------------------
\* Mempool: no callback, reap or eviction panics; store, priority queue, gossip
\* list and byte count hold the same transactions, within the limits; committed
\* ones are gone and stay so; a recheck reaches every other one, and consensus is
\* told of them.
MempoolSound ==
  which = "mempool" =>
    /\ Pool!TypeOK /\ Pool!NoPanic /\ Pool!IndexesAgree /\ Pool!WithinLimits
    /\ Pool!CommittedLeft /\ Pool!AllRechecked /\ Pool!Notified

\* Stores: the validators, the parameters and the whole block of every retained
\* height can be loaded, and what was pruned is gone, through crashes while
\* pruning.
RetainedLoadable ==
  which = "stores" =>
    St!TypeOK /\ St!ValidatorsLoadable /\ St!ParamsLoadable /\ St!BlocksWhole /\ St!PrunedGone

\* Light client: a trusted block is on the chain while forks have no trusted third,
\* the latest one is in the store, and evidence sent to a correct provider accuses
\* a block that is not on the chain.  A block verified forwards has not expired.
LightSound ==
  /\ [](which = "light" =>
           Light!TypeOK /\ Light!TrustedOnChain /\ Light!EvidenceSound /\ Light!LatestStored)
  /\ [](which = "witness" =>
           LightW!TypeOK /\ LightW!TrustedOnChain /\ LightW!EvidenceSound /\ LightW!LatestStored)
  /\ [][Light!ForwardFresh]_lcVars

\* Light client: a block is trusted only if a witness returned the same one.
CrossChecked == [][Light!CrossCheck]_lcVars

\* State sync: the pool's indexes of snapshots and peers agree and hold nothing
\* that was rejected; a restored application got every chunk; a chunk counted as
\* returned is there, and an allocated one is being fetched or has been.  What was
\* rejected is never used again.
SnapshotRestored ==
  /\ [](which = "statesync" =>
           /\ SS!TypeOK /\ SS!PoolConsistent /\ SS!AllRestored
           /\ SS!ReturnedAreThere /\ SS!AllocatedIsFetched)
  /\ [][SS!NotUsedAgain]_ssVars

\* Router: the limits on connections and upgrades hold, the peer manager's view of
\* a peer is that of the router, claims on a connected peer end with the dial they
\* were made for, and a sleeping dial loop has nothing to dial that it was not told
\* of.
RouterInStep ==
  which = "router" =>
    Rt!TypeOK /\ Rt!WithinLimits /\ Rt!ManagerInStep /\ Rt!ClaimsLive /\ Rt!NoLostWakeup

\* Consensus reactor: a vote or part marked as known to the peer was sent to it.
MarkedIsSent ==
  /\ which = "votes" => ByVotes!TypeOK /\ ByVotes!MarkedIsSent
  /\ which = "parts" => ByData!TypeOK /\ ByData!MarkedIsSent /\ ByData!MarkedPartIsSent
  /\ which = "pol"   => ByPOL!TypeOK /\ ByPOL!MarkedIsSent
===============================================================================
