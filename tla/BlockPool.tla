------------------------------ MODULE BlockPool ------------------------------
(***************************************************************************)
(* Block sync, version 0: the pool of block requests (pool.go) and the     *)
(* routine that verifies and applies the blocks (reactor.go).              *)
(*                                                                         *)
(* Four kinds of goroutines share the pool: makeRequestersRoutine, one     *)
(* requestRoutine per requested height, the reactor's message and peer     *)
(* update handlers, and poolRoutine.  An action is one critical section of *)
(* the pool's or a requester's mutex, so that every interleaving the locks *)
(* allow is a behaviour.                                                   *)
(*                                                                         *)
(* A block is what its verification can tell: "good" is the block of the   *)
(* chain, "forged" another block with the right LastCommit, "uncommitted"  *)
(* one with a wrong LastCommit.                                            *)
(***************************************************************************)
EXTENDS Integers, FiniteSets, FiniteSetsExt, Sequences

CONSTANTS Peers,              \* peers that may connect
          Honest,             \* those that serve the blocks of the chain
          Top,                \* height of the chain the peers have
          Late,               \* those that may not answer in time
          StatusHeights,      \* the heights each peer may report in a StatusResponse
          BadBlocks,          \* what others may send: a subset of {"forged", "uncommitted"}
          MaxPending,         \* maxPendingRequests
          MaxRequesters,      \* maxTotalRequesters
          MaxPerPeer,         \* maxPendingRequestsPerPeer
          MaxJoins,           \* bound on how often peers join the pool
          None

\* Peers report heights of the chain; a nil pointer is neither a peer nor a block.
ASSUME BlockPoolAssumption ==
  /\ Top \in Nat
  /\ StatusHeights \in [Peers -> SUBSET (0 .. Top)]
  /\ None \notin Peers
  /\ None \notin [value : {"good"} \cup BadBlocks, from : Peers]

VARIABLES poolHeight,     \* pool.height
          requesters,     \* pool.requesters: height -> bpRequester
          bpPeers,        \* pool.peers: peer -> bpPeer
          maxPeerHeight,  \* pool.maxPeerHeight
          numPending,     \* pool.numPending
          asked,          \* BlockRequests that reached a peer and are unanswered
          peeked,         \* poolRoutine's first and second, and how far it got
          blockStore,     \* the blocks saved and applied, in order
          syncing,        \* blockSync: FALSE once consensus has taken over
          joins           \* how often a peer has joined the pool

poolVars == <<poolHeight, requesters, bpPeers, maxPeerHeight, numPending, asked,
              peeked, blockStore, syncing, joins>>

Blocks == {"good"} \cup BadBlocks
\* Mutant: a commit for any block will do.
VerifyCommitLightAny(first, second) == second # "uncommitted"

\* VerifyCommitLight of first with the LastCommit of second: two thirds of the
\* validators sign the block of the chain only.
VerifyCommitLight(first, second) == first = "good" /\ second # "uncommitted"

newBPPeer(base, height) ==
  [base |-> base, height |-> height, numPending |-> 0, didTimeout |-> FALSE]
\* pc: "pick" in PICK_PEER_LOOP, "picked" between pickIncrAvailablePeer and the
\* assignment of peerID, "wait" in WAIT_LOOP, "redo" before reset().
newBPRequester ==
  [pc |-> "pick", picked |-> None, peerID |-> None, block |-> None, redoCh |-> None]

\* The pool, started or not.
Start(on) ==
  /\ poolHeight = 1
  /\ requesters = <<>>
  /\ bpPeers = <<>>
  /\ maxPeerHeight = 0
  /\ numPending = 0
  /\ asked = {}
  /\ peeked = None
  /\ blockStore = <<>>
  /\ syncing = on
  /\ joins = 0

Init == Start(TRUE)

-----------------------------------------------------------------------------
(* removePeer, for a set of peers. *)

redo(r, p) == IF r.redoCh = None THEN [r EXCEPT !.redoCh = p] ELSE r

RedoAll(S) ==
  [h \in DOMAIN requesters |->
     IF requesters[h].peerID \in S THEN redo(requesters[h], requesters[h].peerID)
                                   ELSE requesters[h]]

PeersWithout(S) == [p \in DOMAIN bpPeers \ S |-> bpPeers[p]]

\* The biggest height is looked up again when a peer that had it is removed.
MaxHeightWithout(S) ==
  IF \E p \in S \cap DOMAIN bpPeers : bpPeers[p].height = maxPeerHeight
  THEN Max({0} \cup {bpPeers[p].height : p \in DOMAIN bpPeers \ S})
  ELSE maxPeerHeight

removePeers(S) ==
  /\ requesters' = RedoAll(S)
  /\ bpPeers' = PeersWithout(S)
  /\ maxPeerHeight' = MaxHeightWithout(S)

-----------------------------------------------------------------------------
(* makeRequestersRoutine *)

makeNextRequester ==
  LET nextHeight == poolHeight + Cardinality(DOMAIN requesters) IN
  /\ syncing
  /\ numPending < MaxPending
  /\ Cardinality(DOMAIN requesters) < MaxRequesters
  /\ nextHeight <= maxPeerHeight
  /\ requesters' = [h \in DOMAIN requesters \cup {nextHeight} |->
                      IF h = nextHeight THEN newBPRequester ELSE requesters[h]]
  /\ numPending' = numPending + 1
  /\ UNCHANGED <<poolHeight, bpPeers, maxPeerHeight, asked, peeked, blockStore, syncing, joins>>

\* slow: the peers whose rate of data is found too low.
removeTimedoutPeers ==
  /\ syncing
  /\ numPending >= MaxPending \/ Cardinality(DOMAIN requesters) >= MaxRequesters
  /\ \E slow \in SUBSET {p \in DOMAIN bpPeers \cap Late : bpPeers[p].numPending > 0} :
       LET gone == slow \cup {p \in DOMAIN bpPeers : bpPeers[p].didTimeout} IN
       /\ gone # {}
       /\ removePeers(gone)
  /\ UNCHANGED <<poolHeight, numPending, asked, peeked, blockStore, syncing, joins>>

-----------------------------------------------------------------------------
(* requestRoutine of the requester of height h. *)

Available(p, h) ==
  /\ ~bpPeers[p].didTimeout
  /\ bpPeers[p].numPending < MaxPerPeer
  /\ bpPeers[p].base <= h /\ h <= bpPeers[p].height

\* The peers are tried in the order of a Go map.  gone: the timed out ones that
\* came before the one chosen; all of them, if none can be chosen.
pickIncrAvailablePeer(h) ==
  /\ syncing
  /\ requesters[h].pc = "pick"
  /\ LET late == {p \in DOMAIN bpPeers : bpPeers[p].didTimeout} IN
     \/ /\ \A p \in DOMAIN bpPeers : ~Available(p, h)
        /\ late # {}
        /\ removePeers(late)
     \/ \E p \in DOMAIN bpPeers, gone \in SUBSET late :
          /\ Available(p, h)
          /\ requesters' = [RedoAll(gone) EXCEPT ![h].pc = "picked", ![h].picked = p]
          /\ bpPeers' = [PeersWithout(gone) EXCEPT ![p].numPending = @ + 1]
          /\ maxPeerHeight' = MaxHeightWithout(gone)
  /\ UNCHANGED <<poolHeight, numPending, asked, peeked, blockStore, syncing, joins>>

SendRequest(h) ==
  /\ syncing
  /\ requesters[h].pc = "picked"
  /\ requesters' = [requesters EXCEPT ![h].pc = "wait", ![h].picked = None,
                                      ![h].peerID = requesters[h].picked]
  /\ asked' = asked \cup ({requesters[h].picked} \cap Honest) \X {h}
  /\ UNCHANGED <<poolHeight, bpPeers, maxPeerHeight, numPending, peeked, blockStore, syncing, joins>>

ReceiveRedo(h) ==
  /\ syncing
  /\ requesters[h].pc = "wait"
  /\ requesters[h].redoCh # None
  /\ requesters' = [requesters EXCEPT ![h].redoCh = None,
                      ![h].pc = IF requesters[h].redoCh = requesters[h].peerID THEN "redo" ELSE "wait"]
  /\ UNCHANGED <<poolHeight, bpPeers, maxPeerHeight, numPending, asked, peeked, blockStore, syncing, joins>>

\* Mutant: a block that is thrown away is not counted as pending again.
resetUncounted(h) ==
  /\ syncing
  /\ requesters[h].pc = "redo"
  /\ requesters' = [requesters EXCEPT ![h].pc = "pick", ![h].peerID = None, ![h].block = None]
  /\ UNCHANGED <<poolHeight, bpPeers, maxPeerHeight, numPending, asked, peeked, blockStore, syncing, joins>>

reset(h) ==
  /\ syncing
  /\ requesters[h].pc = "redo"
  /\ requesters' = [requesters EXCEPT ![h].pc = "pick", ![h].peerID = None, ![h].block = None]
  /\ numPending' = IF requesters[h].block # None THEN numPending + 1 ELSE numPending
  /\ UNCHANGED <<poolHeight, bpPeers, maxPeerHeight, asked, peeked, blockStore, syncing, joins>>

-----------------------------------------------------------------------------
(* The handlers of messages and peer updates, and the peers' timers. *)

setBlock(r, p) == r.block = None /\ r.peerID = p

\* A block of peer p.  An unexpected one is dropped (and p reported, which the
\* node may answer with a disconnect: PeerDown).
AddBlock(p, h, b) ==
  /\ syncing
  /\ p \in Honest => b = "good" /\ <<p, h>> \in asked
  /\ asked' = asked \ {<<p, h>>}
  /\ IF h \in DOMAIN requesters /\ setBlock(requesters[h], p)
     THEN /\ requesters' = [requesters EXCEPT ![h].block = [value |-> b, from |-> p]]
          /\ numPending' = numPending - 1
          /\ bpPeers' = IF p \in DOMAIN bpPeers
                         THEN [bpPeers EXCEPT ![p].numPending = @ - 1] ELSE bpPeers
     ELSE /\ asked' # asked
          /\ UNCHANGED <<requesters, numPending, bpPeers>>
  /\ UNCHANGED <<poolHeight, maxPeerHeight, peeked, blockStore, syncing, joins>>

\* StatusResponse of peer p.
SetPeerRange(p, base, height) ==
  /\ syncing
  /\ bpPeers' = [q \in DOMAIN bpPeers \cup {p} |->
                   IF q # p THEN bpPeers[q]
                   ELSE IF p \in DOMAIN bpPeers
                        THEN [bpPeers[p] EXCEPT !.base = base, !.height = height]
                        ELSE newBPPeer(base, height)]
  /\ maxPeerHeight' = Max({height, maxPeerHeight})
  /\ joins' = IF p \in DOMAIN bpPeers THEN joins ELSE joins + 1
  /\ joins' <= MaxJoins
  /\ UNCHANGED <<poolHeight, requesters, numPending, asked, peeked, blockStore, syncing>>

PeerDown(p) ==
  /\ syncing
  /\ p \in DOMAIN bpPeers
  /\ removePeers({p})
  /\ asked' = {a \in asked : a[1] # p}
  /\ UNCHANGED <<poolHeight, numPending, peeked, blockStore, syncing, joins>>

\* The timer runs while the peer has requests pending.  It expires for a peer that
\* is late, and for one whose count is too high: with nothing left to answer.
onTimeout(p) ==
  /\ syncing
  /\ p \in DOMAIN bpPeers
  /\ p \in Late \/ \A h \in 1 .. Top : <<p, h>> \notin asked
  /\ bpPeers[p].numPending > 0
  /\ ~bpPeers[p].didTimeout
  /\ bpPeers' = [bpPeers EXCEPT ![p].didTimeout = TRUE]
  /\ UNCHANGED <<poolHeight, requesters, maxPeerHeight, numPending, asked, peeked, blockStore, syncing, joins>>

-----------------------------------------------------------------------------
(* poolRoutine.  Between PeekTwoBlocks and what follows the pool is unlocked. *)

Got(h) == h \in DOMAIN requesters /\ requesters[h].block # None

PeekTwoBlocks ==
  /\ syncing
  /\ peeked = None
  /\ Got(poolHeight) /\ Got(poolHeight + 1)
  /\ peeked' = [first |-> requesters[poolHeight].block.value,
                second |-> requesters[poolHeight + 1].block.value, redo |-> "first"]
  /\ UNCHANGED <<poolHeight, requesters, bpPeers, maxPeerHeight, numPending, asked, blockStore, syncing, joins>>

\* A popped requester whose redo was under way still resets itself, and counts
\* its block as pending; one with a redo in its channel may.
LateResets ==
  LET r == requesters[poolHeight] IN
  IF r.block = None THEN {0}
  ELSE IF r.pc = "redo" THEN {1}
  ELSE IF r.redoCh # None /\ r.redoCh = r.peerID THEN {0, 1} ELSE {0}

\* PopRequest, SaveBlock and ApplyBlock of the first block.
PopRequest ==
  /\ syncing
  /\ peeked # None
  /\ peeked.redo = "first"
  /\ VerifyCommitLight(peeked.first, peeked.second)
  /\ poolHeight \in DOMAIN requesters
  /\ \E n \in LateResets : numPending' = numPending + n
  /\ requesters' = [h \in DOMAIN requesters \ {poolHeight} |-> requesters[h]]
  /\ poolHeight' = poolHeight + 1
  /\ blockStore' = Append(blockStore, peeked.first)
  /\ peeked' = None
  /\ UNCHANGED <<bpPeers, maxPeerHeight, asked, syncing, joins>>

\* RedoRequest of the first block's height and then of the second's: whoever is
\* the peer of the request by now is removed.
RedoRequest ==
  /\ syncing
  /\ peeked # None
  /\ ~VerifyCommitLight(peeked.first, peeked.second)
  /\ LET h == IF peeked.redo = "first" THEN poolHeight ELSE poolHeight + 1 IN
     /\ h \in DOMAIN requesters
     /\ IF requesters[h].peerID # None THEN removePeers({requesters[h].peerID})
                                       ELSE UNCHANGED <<requesters, bpPeers, maxPeerHeight>>
  /\ peeked' = IF peeked.redo = "first" THEN [peeked EXCEPT !.redo = "second"] ELSE None
  /\ UNCHANGED <<poolHeight, numPending, asked, blockStore, syncing, joins>>

\* Mutant: caught up only above the highest block, which needs a commit after it.
IsCaughtUpAbove == DOMAIN bpPeers # {} /\ poolHeight > maxPeerHeight

IsCaughtUp == DOMAIN bpPeers # {} /\ poolHeight >= maxPeerHeight - 1

\* pool.Stop(): every requester's goroutine returns and the pool is not used again.
StopPool ==
  /\ syncing' = FALSE
  /\ requesters' = <<>>
  /\ asked' = {}
  /\ numPending' = 0
  /\ bpPeers' = <<>>
  /\ UNCHANGED <<poolHeight, maxPeerHeight, peeked, blockStore, joins>>

\* switchToConsensusTicker, when caught up and when nothing advanced for syncTimeout.
SwitchToConsensus == syncing /\ peeked = None /\ IsCaughtUp /\ StopPool
SyncTimeout == syncing /\ peeked = None /\ ~IsCaughtUp /\ StopPool

Next ==
  \/ makeNextRequester
  \/ removeTimedoutPeers
  \/ \E h \in DOMAIN requesters :
       pickIncrAvailablePeer(h) \/ SendRequest(h) \/ ReceiveRedo(h) \/ reset(h)
  \/ \E p \in Peers : \/ \E h \in 1 .. Top, b \in Blocks : AddBlock(p, h, b)
                      \/ \E t \in StatusHeights[p] : SetPeerRange(p, 1, t)
                      \/ PeerDown(p)
                      \/ onTimeout(p)
  \/ PeekTwoBlocks \/ PopRequest \/ RedoRequest
  \/ SwitchToConsensus \/ SyncTimeout

\* The pool's goroutines run, and honest peers report their range and answer.
Fairness ==
  /\ WF_poolVars(makeNextRequester)
  /\ \A h \in 1 .. Top : WF_poolVars(h \in DOMAIN requesters /\
       (pickIncrAvailablePeer(h) \/ SendRequest(h) \/ ReceiveRedo(h) \/ reset(h)))
  /\ \A p \in Honest : /\ WF_poolVars(\E h \in 1 .. Top : AddBlock(p, h, "good"))
                       /\ WF_poolVars(p \notin DOMAIN bpPeers /\ SetPeerRange(p, 1, Top))
                       /\ WF_poolVars(onTimeout(p))
  /\ WF_poolVars(PeekTwoBlocks \/ PopRequest \/ RedoRequest)
  /\ WF_poolVars(SwitchToConsensus)

Spec == Init /\ [][Next]_poolVars /\ Fairness

-----------------------------------------------------------------------------
TypeOK ==
  /\ poolHeight \in 1 .. Top + 1
  /\ DOMAIN requesters \subseteq 1 .. Top + 1
  /\ \A h \in DOMAIN requesters :
       requesters[h] \in [pc : {"pick", "picked", "wait", "redo"}, picked : Peers \cup {None},
                          peerID : Peers \cup {None}, redoCh : Peers \cup {None},
                          block : [value : Blocks, from : Peers] \cup {None}]
  /\ DOMAIN bpPeers \subseteq Peers
  /\ maxPeerHeight \in 0 .. Top /\ numPending \in Int
  /\ blockStore \in Seq(Blocks)

\* The requesters are the heights from pool.height on without a gap ("height: the
\* lowest key in requesters"), and the two blocks poolRoutine looks at have a
\* requester: PopRequest does not panic and RedoRequest finds its request.
RequestersContiguous ==
  /\ DOMAIN requesters = poolHeight .. poolHeight + Cardinality(DOMAIN requesters) - 1
  /\ peeked # None => {poolHeight, poolHeight + 1} \subseteq DOMAIN requesters

\* Whatever the peers send and whenever they are removed, the blocks applied are
\* those of the chain, each once and in order: what was verified is what was stored.
ChainApplied ==
  /\ \A i \in DOMAIN blockStore : blockStore[i] = "good"
  /\ Len(blockStore) = poolHeight - 1

\* A block in the pool came from the peer that its requester names, so RedoRequest
\* of a bad block in the pool removes the peer that sent it.
BlockFromItsPeer ==
  \A h \in DOMAIN requesters :
    requesters[h].block # None => requesters[h].block.from = requesters[h].peerID

\* numPending never counts fewer requests than are pending, so the limit on them is
\* not exceeded by makeNextRequester.
PendingNotUndercounted ==
  numPending >= Cardinality({h \in DOMAIN requesters : requesters[h].block = None})

\* Block sync v0: the requesters cover the heights from the pool's without a gap, a
\* block is held against the peer that was asked for it, and numPending is never
\* below the number of open requests.
RequestsAccounted ==
  TypeOK /\ RequestersContiguous /\ BlockFromItsPeer /\ PendingNotUndercounted

\* A requester that waits for an answer that will not come: its peer was removed
\* between pickIncrAvailablePeer and the assignment of peerID, and no redo is due.
Orphaned(h) ==
  /\ requesters[h].pc = "wait"
  /\ requesters[h].block = None
  /\ <<requesters[h].peerID, h>> \notin asked
  /\ requesters[h].redoCh # requesters[h].peerID

\* If from some time on the peers of the pool are the honest ones and none is late,
\* and no request is orphaned, the node catches up and switches to consensus without
\* the help of syncTimeout.
CatchesUp ==
  (/\ <>[](DOMAIN bpPeers = Honest /\ \A p \in DOMAIN bpPeers : ~bpPeers[p].didTimeout)
   /\ <>[](\A h \in DOMAIN requesters : ~Orphaned(h)))
    => <>~syncing
=============================================================================
