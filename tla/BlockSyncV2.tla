----------------------------- MODULE BlockSyncV2 -----------------------------
(***************************************************************************)
(* Block sync, version 2: the scheduler that decides what to request from  *)
(* whom (scheduler.go), the processor that verifies and applies blocks     *)
(* (processor.go), and the demultiplexer that carries their events         *)
(* (reactor.go, routine.go).                                               *)
(*                                                                         *)
(* The two run concurrently and know of each other only by events.  What   *)
(* the peers and the tickers send may be handled at any time and is not    *)
(* queued here; the events between scheduler and processor are.  The       *)
(* priority queue is a library: with Reorder, events of the two priorities *)
(* overtake each other either way, without it they do not.  Events of one  *)
(* priority keep their order.                                              *)
(***************************************************************************)
EXTENDS Integers, FiniteSets, FiniteSetsExt, SequencesExt

CONSTANTS ScPeers,        \* peers that may connect
          Top,            \* height of the chain they have
          TargetPending,  \* sc.targetPending
          StatusHeights,  \* the heights each peer may report
          MaxQueue,       \* bound on the events queued either way
          Trusted,        \* peers that send the blocks of the chain only
          Reorder,        \* whether priorities reorder the processor's queue
          None

VARIABLES sc,        \* the scheduler
          pcState,   \* the processor
          toSc,      \* events of the processor, queued for the scheduler
          toPc,      \* events of the scheduler, queued for the processor
          requested, \* block requests the peers have not answered
          scRunning, \* the scheduler's routine: "running", "finished", "stopped"
          panicked,  \* which panic ended the node, if any
          switched   \* pcFinished was handled: consensus has taken over

v2Vars == <<sc, pcState, toSc, toPc, requested, scRunning, panicked, switched>>

Heights == 1 .. Top

\* scPeer: lastTouched is only known to be set or not.
newScPeer == [state |-> "New", height |-> -1, touched |-> FALSE]

\* The sync, started or not.
Start(on) ==
  /\ sc = [height |-> 1, peers |-> <<>>, blockStates |-> [h \in Heights |-> "Unknown"],
           pendingBlocks |-> [h \in Heights |-> None], receivedBlocks |-> [h \in Heights |-> None]]
  /\ pcState = [height |-> 0, queue |-> <<>>, draining |-> FALSE, stored |-> <<>>]
  /\ toSc = <<>> /\ toPc = <<>>
  /\ requested = {}
  /\ scRunning = "running"
  /\ panicked = "no"
  /\ switched = ~on

Init == Start(TRUE)

-----------------------------------------------------------------------------
(* The scheduler's methods, from scheduler state to scheduler state. *)

ReadyPeers(s) == {p \in DOMAIN s.peers : s.peers[p].state = "Ready"}
maxHeight(s) == Max({s.height - 1} \cup {s.peers[p].height : p \in ReadyPeers(s)})
allBlocksProcessed(s) == DOMAIN s.peers # {} /\ s.height >= maxHeight(s)

addNewBlocks(s) ==
  IF Cardinality({h \in Heights : s.blockStates[h] # "Unknown"}) >= TargetPending THEN s
  ELSE [s EXCEPT !.blockStates =
          [h \in Heights |-> IF /\ h \in s.height .. s.height + TargetPending - 1
                                /\ h <= maxHeight(s) /\ s.blockStates[h] = "Unknown"
                             THEN "New" ELSE s.blockStates[h]]]

ensurePeer(s, p) ==
  IF p \in DOMAIN s.peers THEN s
  ELSE [s EXCEPT !.peers = [q \in DOMAIN s.peers \cup {p} |->
                              IF q = p THEN newScPeer ELSE s.peers[q]]]

\* Mutant: blocks that the peer had delivered are not requested again.
removePeerPendingOnly(s, p) ==
  IF p \notin DOMAIN s.peers \/ s.peers[p].state = "Removed" THEN s
  ELSE LET top == Max({0} \cup {s.peers[q].height : q \in ReadyPeers(s) \ {p}}) IN
    [s EXCEPT !.peers[p].state = "Removed",
              !.blockStates = [h \in Heights |->
                 IF h > top THEN "Unknown"
                 ELSE IF s.pendingBlocks[h] = p THEN "New" ELSE s.blockStates[h]],
              !.pendingBlocks = [h \in Heights |-> IF @[h] = p THEN None ELSE @[h]]]

removePeer(s, p) ==
  IF p \notin DOMAIN s.peers \/ s.peers[p].state = "Removed" THEN s
  ELSE LET top == Max({0} \cup {s.peers[q].height : q \in ReadyPeers(s) \ {p}}) IN
    [s EXCEPT !.peers[p].state = "Removed",
              !.blockStates = [h \in Heights |->
                 IF h > top THEN "Unknown"
                 ELSE IF p \in {s.pendingBlocks[h], s.receivedBlocks[h]} THEN "New"
                 ELSE s.blockStates[h]],
              !.pendingBlocks = [h \in Heights |-> IF @[h] = p THEN None ELSE @[h]],
              !.receivedBlocks = [h \in Heights |-> IF @[h] = p THEN None ELSE @[h]]]

removePeers(s, S) == FoldSet(LAMBDA p, t : removePeer(t, p), s, S)

getStateAtHeight(s, h) == IF h < s.height THEN "Processed" ELSE s.blockStates[h]

-----------------------------------------------------------------------------
(* The scheduler's handlers.  Its next event goes to the processor. *)

Quiet == panicked = "no" /\ ~switched
Schedules == Quiet /\ scRunning # "stopped" /\ Len(toPc) < MaxQueue

\* scFinishedEv, if all blocks are processed; otherwise the given event.
Finish(s, events) ==
  IF allBlocksProcessed(s)
  THEN toPc' = Append(toPc, [ev |-> "finished"]) /\ scRunning' = "finished"
  ELSE toPc' = toPc \o events /\ UNCHANGED scRunning

peerError(p) == [ev |-> "peerError", peer |-> p]

setPeerRange(s, p, height) ==
  addNewBlocks([s EXCEPT !.peers[p].height = height, !.peers[p].state = "Ready"])

handleStatusResponse(p, base, height) ==
  LET s == ensurePeer(sc, p) IN
  /\ Schedules
  /\ CASE s.peers[p].state = "Removed" -> sc' = s /\ UNCHANGED toPc
       [] s.peers[p].state # "Removed" /\ (height < s.peers[p].height \/ base > height) ->
            sc' = removePeer(s, p) /\ toPc' = Append(toPc, peerError(p))
       [] OTHER -> sc' = setPeerRange(s, p, height) /\ UNCHANGED toPc
  /\ UNCHANGED <<pcState, toSc, requested, scRunning, panicked, switched>>

handleAddNewPeer(p) ==
  /\ Schedules
  /\ sc' = ensurePeer(sc, p)
  /\ UNCHANGED <<pcState, toSc, toPc, requested, scRunning, panicked, switched>>

\* selectPeer takes a peer with the fewest requests pending.
selectPeer(h) ==
  LET able == {p \in ReadyPeers(sc) : h <= sc.peers[p].height}
      Load(p) == Cardinality({k \in Heights : sc.pendingBlocks[k] = p})
  IN  {p \in able : \A q \in able : Load(p) <= Load(q)}

\* nextHeightToSchedule, or no height.
nextHeightToSchedule ==
  LET new == {h \in Heights : sc.blockStates[h] = "New"} IN IF new = {} THEN {} ELSE {Min(new)}

markPending(s, p, h) == [s EXCEPT !.blockStates[h] = "Pending", !.pendingBlocks[h] = p]

handleTrySchedule ==
  /\ Schedules
  /\ \E h \in nextHeightToSchedule : \E p \in selectPeer(h) :
       /\ getStateAtHeight(sc, h) = "New"
       /\ sc' = markPending(sc, p, h)
       /\ requested' = requested \cup {<<p, h>>}
  /\ UNCHANGED <<pcState, toSc, toPc, scRunning, panicked, switched>>

\* syncTimeout passed without an advance.
handleTryScheduleTimeout ==
  /\ Schedules
  /\ scRunning = "running"
  /\ toPc' = Append(toPc, [ev |-> "finished"])
  /\ scRunning' = "finished"
  /\ UNCHANGED <<sc, pcState, toSc, requested, panicked, switched>>

markReceived(s, p, h) ==
  [s EXCEPT !.peers[p].touched = TRUE, !.blockStates[h] = "Received",
            !.pendingBlocks[h] = None, !.receivedBlocks[h] = p]

\* A peer that is not Ready is not listened to.
handleBlockResponse(p, h, b) ==
  /\ Schedules
  /\ <<p, h>> \in requested
  /\ p \in Trusted => b = "good"
  /\ requested' = requested \ {<<p, h>>}
  /\ IF p \notin ReadyPeers(sc) THEN UNCHANGED <<sc, toPc>>
     ELSE IF getStateAtHeight(sc, h) # "Pending" \/ sc.pendingBlocks[h] # p
     THEN sc' = removePeer(sc, p) /\ toPc' = Append(toPc, peerError(p))
     ELSE /\ sc' = markReceived(sc, p, h)
          /\ toPc' = Append(toPc, [ev |-> "block", peer |-> p, height |-> h, block |-> b])
  /\ UNCHANGED <<pcState, toSc, scRunning, panicked, switched>>

handleNoBlockResponse(p, h) ==
  /\ Schedules
  /\ <<p, h>> \in requested
  /\ p \notin Trusted
  /\ requested' = requested \ {<<p, h>>}
  /\ IF sc.peers[p].state = "Removed" THEN UNCHANGED <<sc, toPc>>
     ELSE sc' = removePeer(sc, p) /\ toPc' = Append(toPc, peerError(p))
  /\ UNCHANGED <<pcState, toSc, scRunning, panicked, switched>>

handleRemovePeer(p) ==
  /\ Schedules
  /\ p \in DOMAIN sc.peers
  /\ sc.peers[p].state # "Removed"
  /\ sc' = removePeer(sc, p)
  /\ requested' = {a \in requested : a[1] # p}
  /\ Finish(sc', <<peerError(p)>>)
  /\ UNCHANGED <<pcState, toSc, panicked, switched>>

\* The peer that holds up sc.height is removed, then those not heard of lately: a
\* peer that never sent a block has a zero lastTouched and is always among them.
\* The first removal alone is not reported to the processor.
handleTryPrunePeer ==
  /\ Schedules
  /\ \E late \in BOOLEAN :
       LET slow == sc.pendingBlocks[sc.height]
           s1 == IF late /\ sc.height <= Top THEN removePeer(sc, slow) ELSE sc IN
       /\ late => sc.height <= Top /\ slow # None
       /\ \E silent \in SUBSET ReadyPeers(s1) :
            LET prunable == silent \cup {p \in ReadyPeers(s1) : ~s1.peers[p].touched}
                s2 == removePeers(s1, prunable) IN
            /\ sc' = s2
            /\ IF prunable = {} THEN late /\ UNCHANGED <<toPc, scRunning>>
               ELSE Finish(s2, SetToSeq({peerError(p) : p \in prunable}))
  /\ UNCHANGED <<pcState, toSc, requested, panicked, switched>>

\* markProcessed: the block may have been requested again meanwhile.
MarkProcessed(h) ==
  addNewBlocks([sc EXCEPT !.height = h + 1, !.pendingBlocks[h] = None,
                          !.receivedBlocks[h] = None, !.blockStates[h] = "Unknown"])

handleBlockProcessed ==
  /\ Schedules
  /\ toSc # <<>> /\ Head(toSc).ev = "processed"
  /\ toSc' = Tail(toSc)
  /\ IF Head(toSc).height # sc.height
     THEN panicked' = "height" /\ UNCHANGED <<sc, toPc, scRunning>>
     ELSE /\ sc' = MarkProcessed(Head(toSc).height)
          /\ Finish(sc', <<>>)
          /\ UNCHANGED panicked
  /\ UNCHANGED <<pcState, requested, switched>>

handleBlockProcessError ==
  /\ Schedules
  /\ toSc # <<>> /\ Head(toSc).ev = "failure"
  /\ toSc' = Tail(toSc)
  /\ sc' = removePeers(sc, Head(toSc).peers)
  /\ Finish(sc', <<>>)
  /\ UNCHANGED <<pcState, requested, panicked, switched>>

\* demux handles scFinishedEv: scheduler.stop().
StopScheduler ==
  /\ Quiet
  /\ scRunning = "finished"
  /\ scRunning' = "stopped"
  /\ UNCHANGED <<sc, pcState, toSc, toPc, requested, panicked, switched>>

-----------------------------------------------------------------------------
(* The processor. *)

\* Which event of the queue is handled next.
Class(e) == IF e.ev = "peerError" THEN "high" ELSE "normal"
Gettable ==
  {i \in DOMAIN toPc : \A j \in 1 .. i - 1 : Reorder /\ Class(toPc[j]) # Class(toPc[i])}
Get(i) == toPc' = RemoveAt(toPc, i)

purgePeers(q, S) == [h \in {k \in DOMAIN q : q[k].peer \notin S} |-> q[h]]

HandlePeerError ==
  /\ Quiet
  /\ \E i \in Gettable : /\ toPc[i].ev = "peerError"
                        /\ Get(i)
                        /\ pcState' = [pcState EXCEPT !.queue = purgePeers(@, {toPc[i].peer})]
  /\ UNCHANGED <<sc, toSc, requested, scRunning, panicked, switched>>

HandleBlockReceived ==
  /\ Quiet
  /\ \E i \in Gettable :
       LET e == toPc[i] IN
       /\ e.ev = "block"
       /\ Get(i)
       /\ CASE e.height <= pcState.height -> UNCHANGED <<pcState, panicked>>
            [] e.height > pcState.height /\ e.height \in DOMAIN pcState.queue ->
                 panicked' = "duplicate" /\ UNCHANGED pcState
            [] OTHER ->
                 /\ pcState' = [pcState EXCEPT !.queue =
                      [h \in DOMAIN @ \cup {e.height} |->
                         IF h = e.height THEN [peer |-> e.peer, block |-> e.block] ELSE @[h]]]
                 /\ UNCHANGED panicked
  /\ UNCHANGED <<sc, toSc, requested, scRunning, switched>>

\* pcFinished: the demultiplexer switches to consensus and ends the sync.
HandleFinished ==
  /\ Quiet
  /\ \E i \in Gettable : /\ toPc[i].ev = "finished"
                        /\ Get(i)
                        /\ IF Cardinality(DOMAIN pcState.queue) <= 1
                           THEN switched' = TRUE /\ UNCHANGED pcState
                           ELSE pcState' = [pcState EXCEPT !.draining = TRUE] /\ UNCHANGED switched
  /\ UNCHANGED <<sc, toSc, requested, scRunning, panicked>>

Send(e) == toSc' = IF scRunning = "stopped" THEN toSc ELSE Append(toSc, e)

verifyCommit(first, second) == first = "good" /\ second # "uncommitted"

\* rProcessBlock
ProcessBlock ==
  LET h == pcState.height + 1
      q == pcState.queue IN
  /\ Quiet
  /\ Len(toSc) < MaxQueue \/ scRunning = "stopped"
  /\ {h, h + 1} \subseteq DOMAIN q
  /\ IF verifyCommit(q[h].block, q[h + 1].block)
     THEN /\ pcState' = [pcState EXCEPT !.height = h, !.stored = Append(@, q[h].block),
                                       !.queue = [k \in DOMAIN q \ {h} |-> q[k]]]
          /\ Send([ev |-> "processed", height |-> h])
     ELSE /\ pcState' = [pcState EXCEPT !.queue = purgePeers(@, {q[h].peer, q[h + 1].peer})]
          /\ Send([ev |-> "failure", peers |-> {q[h].peer, q[h + 1].peer}])
  /\ UNCHANGED <<sc, toPc, requested, scRunning, panicked, switched>>

\* Mutant: the processor waits for its queue to be empty, which it never is with
\* the last block in it.
ProcessNothingEmpty ==
  /\ Quiet
  /\ DOMAIN pcState.queue = {}
  /\ pcState.draining
  /\ switched' = TRUE
  /\ UNCHANGED <<sc, pcState, toSc, toPc, requested, scRunning, panicked>>

\* rProcessBlock without two blocks to process.
ProcessNothing ==
  /\ Quiet
  /\ ~ {pcState.height + 1, pcState.height + 2} \subseteq DOMAIN pcState.queue
  /\ pcState.draining
  /\ switched' = TRUE
  /\ UNCHANGED <<sc, pcState, toSc, toPc, requested, scRunning, panicked>>

Next ==
  \/ \E p \in ScPeers :
       \/ handleAddNewPeer(p)
       \/ \E t \in StatusHeights[p] : handleStatusResponse(p, 1, t)
       \/ \E h \in Heights : \/ handleNoBlockResponse(p, h)
                            \/ \E b \in {"good", "uncommitted"} : handleBlockResponse(p, h, b)
       \/ handleRemovePeer(p)
  \/ handleTrySchedule \/ handleTryScheduleTimeout \/ handleTryPrunePeer
  \/ handleBlockProcessed \/ handleBlockProcessError \/ StopScheduler
  \/ HandlePeerError \/ HandleBlockReceived \/ HandleFinished
  \/ ProcessBlock \/ ProcessNothing

\* The two routines and the demultiplexer run, the process ticker ticks.
Fairness ==
  /\ WF_v2Vars(StopScheduler)
  /\ WF_v2Vars(HandlePeerError \/ HandleBlockReceived \/ HandleFinished)
  /\ WF_v2Vars(ProcessBlock \/ ProcessNothing)

Spec == Init /\ [][Next]_v2Vars /\ Fairness

-----------------------------------------------------------------------------
TypeOK ==
  /\ sc.height \in 1 .. Top + 1
  /\ sc.blockStates \in [Heights -> {"Unknown", "New", "Pending", "Received"}]
  /\ sc.pendingBlocks \in [Heights -> ScPeers \cup {None}]
  /\ sc.receivedBlocks \in [Heights -> ScPeers \cup {None}]
  /\ DOMAIN sc.peers \subseteq ScPeers /\ DOMAIN pcState.queue \subseteq Heights
  /\ scRunning \in {"running", "finished", "stopped"}
  /\ panicked \in {"no", "height", "duplicate"} /\ switched \in BOOLEAN

\* The scheduler's maps agree, whatever peers are removed and blocks re-requested: a
\* block is Pending or Received exactly if a peer that is still Ready is recorded for
\* it, nothing below sc.height is tracked, and at most TargetPending blocks are.
ScheduleConsistent ==
  /\ \A h \in Heights :
       /\ sc.blockStates[h] = "Pending" <=> sc.pendingBlocks[h] # None
       /\ sc.blockStates[h] = "Received" <=> sc.receivedBlocks[h] # None
       /\ {sc.pendingBlocks[h], sc.receivedBlocks[h]} \subseteq ReadyPeers(sc) \cup {None}
       /\ sc.blockStates[h] # "Unknown" => h >= sc.height
  /\ Cardinality({h \in Heights : sc.blockStates[h] # "Unknown"}) <= TargetPending

\* A block that the scheduler counts as received, and so will not request again, is
\* with the processor or on the way to it, or its fate is on the way back.
ReceivedNotLost ==
  panicked = "no" =>
  \A h \in Heights : sc.receivedBlocks[h] # None =>
    LET p == sc.receivedBlocks[h] IN
    \/ h <= pcState.height
    \/ h \in DOMAIN pcState.queue /\ pcState.queue[h].peer = p
    \/ \E i \in DOMAIN toPc : toPc[i].ev = "block" /\ toPc[i].height = h /\ toPc[i].peer = p
    \/ \E i \in DOMAIN toSc : toSc[i].ev = "failure" /\ p \in toSc[i].peers
    \/ scRunning = "stopped"

\* The scheduler's height follows the processor's: handleBlockProcessed never meets a
\* height other than its own, although blocks are re-requested while being processed.
HeightsInStep == panicked # "height"

\* The blocks applied are the blocks of the chain, in order.
ChainProcessed ==
  /\ \A i \in DOMAIN pcState.stored : pcState.stored[i] = "good"
  /\ Len(pcState.stored) = pcState.height

\* Once the scheduler has finished, the processor drains its queue and the node
\* switches to consensus, unless it panicked.
FinishSwitches == scRunning = "finished" ~> (switched \/ panicked # "no")
=============================================================================
