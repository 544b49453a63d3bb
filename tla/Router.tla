------------------------------- MODULE Router -------------------------------
(***************************************************************************)
(* The router's goroutines (router.go) around the peer manager: the loop   *)
(* that asks whom to dial, the goroutines that dial, the loop that accepts *)
(* connections and the goroutine of each, the loop that evicts, and        *)
(* routePeer, which runs a connection from Ready to Disconnected.          *)
(*                                                                         *)
(* The transport is the environment: a dial or a handshake may fail, and   *)
(* either end may drop a connection.  Messages are not modelled, but the   *)
(* queue they go through is, since closing it is how a peer is evicted.    *)
(***************************************************************************)
EXTENDS PeerManager

CONSTANTS NumDials,     \* goroutines that dial
          Listed,       \* peers whose address PEX may give
          Inbound,      \* peers that may connect
          Faulty,       \* peers that may be reported for errors
          Unreachable,  \* peers that dialing may fail for
          Rising        \* peers that may be reported good, after they left too

VARIABLES pm,         \* the peer manager
          dialLoop,   \* dialPeers: "call", "sleep", or the peer it hands to a goroutine
          dials,      \* peers that a goroutine is dialing
          route,      \* routePeer of each peer: its step
          queue,      \* peerQueues: "none", "open" or "closed"
          evictLoop,  \* evictPeers: "call", "sleep", or the peer it evicts
          unheard,    \* history: whether a dial was rejected or a score rose since TryDialNext
          crashed     \* whether a nil map was written to

rtVars == <<pm, dialLoop, dials, route, queue, evictLoop, unheard, crashed>>

Start(on) ==
  /\ OptionsValid
  /\ pm = NewPeerManager
  /\ dialLoop = "call" /\ dials = {}
  /\ route = [p \in NodeIDs |-> "none"]
  /\ queue = [p \in NodeIDs |-> "none"]
  /\ evictLoop = "call"
  /\ unheard = FALSE
  /\ crashed = ~on

Init == Start(TRUE)

Running == ~crashed

-----------------------------------------------------------------------------
(* Other callers of the peer manager: PEX, the reactors. *)

AddPeer(p) ==
  /\ Running
  /\ ~Get(pm, p).addr
  /\ IF AddPanics(pm, p) THEN crashed' = TRUE /\ UNCHANGED pm
     ELSE pm' \in Add(pm, p) /\ UNCHANGED crashed
  /\ UNCHANGED <<dialLoop, dials, route, queue, evictLoop, unheard>>

PeerErrored(p) ==
  /\ Running
  /\ p \in pm.ready \ pm.evict
  /\ pm' = Errored(pm, p)
  /\ UNCHANGED <<dialLoop, dials, route, queue, evictLoop, unheard, crashed>>

PeerGood(p) ==
  /\ Running
  /\ Get(pm, p).score < MaxScore
  /\ pm' = processPeerEvent(pm, p)
  /\ unheard' = TRUE
  /\ UNCHANGED <<dialLoop, dials, route, queue, evictLoop, crashed>>

-----------------------------------------------------------------------------
(* dialPeers, connectPeer. *)

\* DialNext is called, or woken up.  The address goes to a goroutine, if one is free.
DialNext ==
  /\ Running
  /\ dialLoop = "call" \/ (dialLoop = "sleep" /\ pm.dialWake)
  /\ \E r \in TryDialNext([pm EXCEPT !.dialWake = @ /\ dialLoop = "call"]) :
       LET free == r.peer # None /\ Cardinality(dials) < NumDials IN
       /\ pm' = r.pm
       /\ dials' = IF free THEN dials \cup {r.peer} ELSE dials
       /\ dialLoop' = IF r.peer = None THEN "sleep" ELSE IF free THEN "call" ELSE r.peer
  /\ unheard' = FALSE
  /\ UNCHANGED <<route, queue, evictLoop, crashed>>

\* A goroutine becomes free and takes the address.
TakeAddress ==
  /\ Running
  /\ dialLoop \in NodeIDs
  /\ Cardinality(dials) < NumDials
  /\ dials' = dials \cup {dialLoop}
  /\ dialLoop' = "call"
  /\ UNCHANGED <<pm, route, queue, evictLoop, unheard, crashed>>

DialFails(p) ==
  /\ Running
  /\ p \in dials
  /\ pm' = DialFailed(pm, p)
  /\ dials' = dials \ {p}
  /\ UNCHANGED <<dialLoop, route, queue, evictLoop, unheard, crashed>>

RetryElapsed(p) ==
  /\ Running
  /\ p \in Known(pm) /\ pm.store[p].delayed
  /\ pm' = RetryTimer(pm, p)
  /\ UNCHANGED <<dialLoop, dials, route, queue, evictLoop, unheard, crashed>>

Connected(p) ==
  /\ Running
  /\ p \in dials
  /\ dials' = dials \ {p}
  /\ \E r \in Dialed(pm, p) :
       /\ pm' = r.pm
       /\ unheard' = (unheard \/ ~r.ok)
       /\ route' = IF r.ok THEN [route EXCEPT ![p] = "start"] ELSE route
  /\ UNCHANGED <<dialLoop, queue, evictLoop, crashed>>

-----------------------------------------------------------------------------
(* acceptPeers, openConnection. *)

openConnection(p) ==
  /\ Running
  /\ \E r \in Accepted(pm, p) :
       /\ pm' = r.pm
       /\ route' = IF r.ok THEN [route EXCEPT ![p] = "start"] ELSE route
  /\ UNCHANGED <<dialLoop, dials, queue, evictLoop, unheard, crashed>>

-----------------------------------------------------------------------------
(* routePeer: each step of one peer's goroutine. *)

RouteReady(p) ==
  /\ Running
  /\ route[p] = "start"
  /\ pm' = Ready(pm, p)
  /\ route' = [route EXCEPT ![p] = "ready"]
  /\ UNCHANGED <<dialLoop, dials, queue, evictLoop, unheard, crashed>>

getOrMakeQueue(p) ==
  /\ Running
  /\ route[p] = "ready"
  /\ queue' = [queue EXCEPT ![p] = IF @ = "none" THEN "open" ELSE @]
  /\ route' = [route EXCEPT ![p] = "run"]
  /\ UNCHANGED <<pm, dialLoop, dials, evictLoop, unheard, crashed>>

\* sendPeer or receivePeer returns, since the queue was closed or the connection
\* dropped.  The goroutine takes the queue from the map, then reports.
RouteStops(p) ==
  /\ Running
  /\ route[p] = "run"
  /\ queue' = [queue EXCEPT ![p] = "none"]
  /\ route' = [route EXCEPT ![p] = "left"]
  /\ UNCHANGED <<pm, dialLoop, dials, evictLoop, unheard, crashed>>

RouteDisconnected(p) ==
  /\ Running
  /\ route[p] = "left"
  /\ pm' = Disconnected(pm, p)
  /\ route' = [route EXCEPT ![p] = "none"]
  /\ UNCHANGED <<dialLoop, dials, queue, evictLoop, unheard, crashed>>

-----------------------------------------------------------------------------
(* evictPeers. *)

EvictNext ==
  /\ Running
  /\ evictLoop = "call" \/ (evictLoop = "sleep" /\ pm.evictWake)
  /\ \E r \in TryEvictNext([pm EXCEPT !.evictWake = @ /\ evictLoop = "call"]) : /\ pm' = r.pm
                                /\ evictLoop' = IF r.peer = None THEN "sleep" ELSE r.peer
  /\ UNCHANGED <<dialLoop, dials, route, queue, unheard, crashed>>

\* A peer whose goroutine has not made its queue yet is not disconnected.
EvictPeer ==
  /\ Running
  /\ evictLoop \in NodeIDs
  /\ LET p == evictLoop IN
     queue' = [queue EXCEPT ![p] = IF @ = "none" THEN @ ELSE "closed"]
     /\ evictLoop' = "call"
  /\ UNCHANGED <<pm, dialLoop, dials, route, unheard, crashed>>

-----------------------------------------------------------------------------
Next ==
  \/ DialNext \/ TakeAddress
  \/ EvictNext \/ EvictPeer
  \/ \E p \in NodeIDs :
       \/ (p \in Listed /\ AddPeer(p)) \/ (p \in Inbound /\ openConnection(p))
       \/ (p \in Rising /\ PeerGood(p)) \/ (p \in Faulty /\ PeerErrored(p))
       \/ (p \in Unreachable /\ DialFails(p)) \/ RetryElapsed(p) \/ Connected(p)
       \/ RouteReady(p) \/ getOrMakeQueue(p) \/ RouteStops(p) \/ RouteDisconnected(p)

\* The loops and the goroutines of the peers run.
RouteGoesOn(p) ==
  \/ RouteReady(p) \/ getOrMakeQueue(p) \/ RouteDisconnected(p)
  \/ queue[p] = "closed" /\ RouteStops(p)

Fairness ==
  /\ WF_rtVars(EvictNext \/ EvictPeer)
  /\ \A p \in NodeIDs : WF_rtVars(RouteGoesOn(p))

Spec == Init /\ [][Next]_rtVars /\ Fairness

-----------------------------------------------------------------------------
TypeOK ==
  /\ Known(pm) \subseteq NodeIDs
  /\ \A p \in Known(pm) : pm.store[p] \in [id : NodeIDs \cup {None}, addr : BOOLEAN,
                                           delayed : BOOLEAN, score : 0 .. MaxScore]
  /\ pm.ranked = None \/ pm.ranked \in Seq(NodeIDs)
  /\ dialLoop \in {"call", "sleep"} \cup NodeIDs /\ evictLoop \in {"call", "sleep"} \cup NodeIDs
  /\ queue \in [NodeIDs -> {"none", "open", "closed"}]

\* The connections stay within the limits, however dials and accepted connections come
\* together, and those above MaxConnected are on their way out.
WithinLimits ==
  /\ Cardinality(pm.connected) <= MaxConnected + MaxConnectedUpgrade
  /\ Cardinality(pm.connected \ (pm.evict \cup pm.evicting)) <= MaxConnected

\* The manager and the router agree on who is connected: a connected peer has exactly
\* one goroutine that will report it disconnected, a dialed peer one that will report
\* the dial, and what else is recorded of a peer is cleared with its connection.
ManagerInStep ==
  /\ pm.connected = {p \in NodeIDs : route[p] # "none"}
  /\ pm.dialing = dials \cup ({dialLoop} \cap NodeIDs)
  /\ pm.ready \cup pm.evicting \cup pm.evict \subseteq pm.connected
  /\ \A p \in NodeIDs : queue[p] # "none" => route[p] = "run"

\* A connected peer is claimed for at most one peer, which is being dialed, and a peer
\* being dialed claims at most one.
ClaimsLive ==
  /\ DOMAIN pm.upgrading \subseteq pm.connected
  /\ \A f \in DOMAIN pm.upgrading : pm.upgrading[f] \in pm.dialing
  /\ \A f, g \in DOMAIN pm.upgrading : pm.upgrading[f] = pm.upgrading[g] => f = g

NoTimer == \A p \in Known(pm) : ~pm.store[p].delayed

\* While the dialing loop sleeps and nobody is about to wake it, there is nobody to
\* dial: no wakeup is lost, except when a dial was rejected or a score rose.
NoLostWakeup ==
  dialLoop = "sleep" /\ ~pm.dialWake /\ ~unheard /\ pm.dialing = {} /\ NoTimer
    /\ pm.evict \cup pm.evicting = {}
  => \A r \in TryDialNext(pm) : r.peer = None

\* A peer that is scheduled for eviction (for an error, or to make room) once it has its
\* queue is disconnected.
EvictedLeaves ==
  \A p \in Faulty :
    (p \in pm.evict \ pm.evicting /\ route[p] = "run") ~> (p \notin pm.connected \/ crashed)
=============================================================================
