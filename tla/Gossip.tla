------------------------------- MODULE Gossip -------------------------------
(* The goroutines that send the entries of a concurrent list to the peers,   *)
(* one for each peer: broadcastTxRoutine of the mempool reactors (v0 and v1)  *)
(* and broadcastEvidenceLoop of the evidence reactor, over the CList of       *)
(* internal/libs/clist.  An entry may be removed while a goroutine stands on  *)
(* it; a removed element keeps its next pointer.                              *)
EXTENDS Integers, Sequences, SequencesExt

CONSTANTS
    GossipPeers,   \* peers
    MaxElements,   \* entries pushed, numbered in order
    MaxUpdates,    \* peer updates processed, for each peer
    None

VARIABLES
    reactor,    \* which reactor this is
    clist,      \* the elements in the list
    pushed,     \* how many were pushed
    kept,       \* the next pointer that a removed element keeps
    routine,    \* for each peer, its goroutine and its entry in peerRoutines
    up,         \* the status last processed
    has,        \* what each peer has been sent by its goroutine
    updates

goVars == <<reactor, clist, pushed, kept, routine, up, has, updates>>

Elements == 1..MaxElements
NoRoutine == [running |-> FALSE, closing |-> FALSE, at |-> None, sent |-> FALSE]

Start(on) ==
    /\ reactor \in IF on THEN {"mempool", "evidence"} ELSE {"mempool"}
    /\ clist = <<>> /\ pushed = (IF on THEN 0 ELSE MaxElements) /\ kept = <<>>
    /\ routine = [p \in GossipPeers |-> NoRoutine]
    /\ up = [p \in GossipPeers |-> FALSE] /\ has = [p \in GossipPeers |-> {}]
    /\ updates = [p \in GossipPeers |-> IF on THEN 0 ELSE MaxUpdates]
Init == Start(TRUE)

----------------------------------------------------------------------------
(* The list.                                                                 *)

Removed(e) == e \in DOMAIN kept

\* The element after e; that of a removed one is what it was then.
NextOf(e) ==
    IF Removed(e) THEN kept[e]
    ELSE LET i == SelectInSeq(clist, LAMBDA x : x = e)
         IN  IF i = Len(clist) THEN None ELSE clist[i + 1]

\* Mutant: removing the tail does not wake those who wait for its next element.
NextWaitChanUnwoken(e) == NextOf(e) # None

\* NextWaitChan is closed.
NextWaitChan(e) == NextOf(e) # None \/ Removed(e)

PushBack ==
    /\ pushed < MaxElements
    /\ pushed' = pushed + 1 /\ clist' = Append(clist, pushed + 1)
    /\ UNCHANGED <<reactor, kept, routine, up, has, updates>>

\* A transaction is committed, evicted or invalid, evidence committed or expired.
RemoveElement(e) ==
    /\ Contains(clist, e)
    /\ clist' = RemoveFirst(clist, e)
    /\ kept' = [x \in DOMAIN kept \cup {e} |-> IF x = e THEN NextOf(e) ELSE kept[x]]
    /\ UNCHANGED <<reactor, pushed, routine, up, has, updates>>

----------------------------------------------------------------------------
(* processPeerUpdate, under the reactor's lock.                              *)

\* A goroutine is started unless peerRoutines has one for this peer.
PeerUp(p) ==
    /\ ~up[p] /\ updates[p] < MaxUpdates
    /\ up' = [up EXCEPT ![p] = TRUE] /\ updates' = [updates EXCEPT ![p] = @ + 1]
    /\ IF routine[p].running THEN UNCHANGED <<reactor, routine, has>>
       ELSE /\ routine' = [routine EXCEPT ![p] = [NoRoutine EXCEPT !.running = TRUE]]
            /\ has' = [has EXCEPT ![p] = {}]
    /\ UNCHANGED <<reactor, clist, pushed, kept>>

\* Its closer is closed; the goroutine removes its own entry when it ends.
PeerDown(p) ==
    /\ up[p] /\ updates[p] < MaxUpdates
    /\ up' = [up EXCEPT ![p] = FALSE] /\ updates' = [updates EXCEPT ![p] = @ + 1]
    /\ routine' = [routine EXCEPT ![p].closing = routine[p].running]
    /\ UNCHANGED <<reactor, clist, pushed, kept, has>>

----------------------------------------------------------------------------
(* The goroutine of a peer: wait for the first entry, send it, go on.        *)

First == Head(clist)

FrontWait(p) ==
    /\ routine[p].running /\ routine[p].at = None /\ clist # <<>>
    /\ routine' = [routine EXCEPT ![p].at = First, ![p].sent = FALSE]
    /\ UNCHANGED <<reactor, clist, pushed, kept, up, has, updates>>

\* Sent, or skipped as it came from this peer.
Send(p) ==
    /\ routine[p].running /\ routine[p].at # None /\ ~routine[p].sent
    /\ has' = [has EXCEPT ![p] = @ \cup {routine[p].at}]
    /\ routine' = [routine EXCEPT ![p].sent = TRUE]
    /\ UNCHANGED <<reactor, clist, pushed, kept, up, updates>>

\* The evidence reactor starts over when nothing came for ten seconds.
NextWait(p) ==
    /\ routine[p].running /\ routine[p].at # None /\ routine[p].sent
    /\ \/ /\ NextWaitChan(routine[p].at)
          /\ routine' = [routine EXCEPT ![p].at = NextOf(routine[p].at), ![p].sent = FALSE]
       \/ /\ reactor = "evidence" /\ ~NextWaitChan(routine[p].at)
          /\ routine' = [routine EXCEPT ![p].at = None, ![p].sent = FALSE]
    /\ UNCHANGED <<reactor, clist, pushed, kept, up, has, updates>>

\* In either wait the closed closer may be taken.
Exit(p) ==
    /\ routine[p].closing
    /\ routine[p].at = None \/ routine[p].sent
    /\ routine' = [routine EXCEPT ![p] = NoRoutine]
    /\ UNCHANGED <<reactor, clist, pushed, kept, up, has, updates>>

Next ==
    \/ PushBack
    \/ \E e \in Elements : RemoveElement(e)
    \/ \E p \in GossipPeers : PeerUp(p) \/ PeerDown(p)
    \/ \E p \in GossipPeers : FrontWait(p) \/ Send(p) \/ NextWait(p) \/ Exit(p)

\* Goroutines run; their sends are taken by the router.
Fairness == \A p \in GossipPeers :
               /\ WF_goVars(FrontWait(p) \/ Send(p) \/ NextWait(p))
               /\ WF_goVars(Exit(p))

Spec == Init /\ [][Next]_goVars /\ Fairness

----------------------------------------------------------------------------
TypeOK ==
    /\ ToSet(clist) \subseteq 1..pushed /\ pushed \in 0..MaxElements
    /\ DOMAIN kept \subseteq 1..pushed
    /\ \A p \in GossipPeers : routine[p].at \in (1..pushed) \cup {None}

\* No entry is skipped: a peer that has been sent an entry of the list has been
\* sent every one before it, whatever was removed under the goroutine's feet.
NoneSkipped ==
    \A p \in GossipPeers, i, j \in DOMAIN clist :
        i < j /\ routine[p].running /\ clist[j] \in has[p] => clist[i] \in has[p]

\* Only one goroutine serves a peer and none serves a peer that is gone.
ClosedWhenDown == \A p \in GossipPeers : ~up[p] /\ routine[p].running => routine[p].closing

Lags(p) == /\ up[p] /\ routine[p].running /\ ~routine[p].closing
           /\ ToSet(clist) \ has[p] # {}

\* Every entry that stays in the list reaches every peer that stays up and whose
\* goroutine was not told to end.
Reaches == \A p \in GossipPeers : Lags(p) ~> ~Lags(p)
=============================================================================
