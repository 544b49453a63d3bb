---------------------------- MODULE PeerManager ----------------------------
(***************************************************************************)
(* The peer manager: which peers are known, dialed, connected, ready and   *)
(* to be evicted (peermanager.go).  Its methods run under one mutex; each  *)
(* is an operator from the manager's state to its state, or to the set of  *)
(* states it may leave, where a map is ranged over or equal scores sorted. *)
(*                                                                         *)
(* A peer has one address.  A failed address is delayed until its retry    *)
(* timer fires.  Blank is an entry without an ID and without a map of      *)
(* addresses, which processPeerEvent makes for a peer it does not know.    *)
(***************************************************************************)
EXTENDS Integers, FiniteSets, SequencesExt

CONSTANTS NodeIDs,             \* the peers there are
          PersistentPeers,     \* those with the highest score
          MaxPeers, MaxConnected, MaxConnectedUpgrade,
          MaxScore,            \* bound on MutableScore
          None                 \* no peer

\* PeerManagerOptions.Validate: NewPeerManager refuses other options.
OptionsValid ==
  /\ PersistentPeers \subseteq NodeIDs
  /\ MaxConnected \in Nat \ {0} /\ MaxConnectedUpgrade \in Nat
  /\ MaxConnected + MaxConnectedUpgrade <= MaxPeers
  /\ Cardinality(PersistentPeers) <= MaxConnected

\* NewPeerManager, with an empty store.
NewPeerManager ==
  [store |-> <<>>, ranked |-> None, dialing |-> {}, upgrading |-> <<>>, connected |-> {},
   ready |-> {}, evict |-> {}, evicting |-> {}, dialWake |-> FALSE, evictWake |-> FALSE]

-----------------------------------------------------------------------------
(* The peer store.  store maps a peer to its entry; ranked is the cached   *)
(* order, or None after it was invalidated.                                *)

newPeerInfo(p) == [id |-> p, addr |-> FALSE, delayed |-> FALSE, score |-> 0]
Blank == [id |-> None, addr |-> FALSE, delayed |-> FALSE, score |-> 0]

Known(m) == DOMAIN m.store
Get(m, p) == IF p \in Known(m) THEN m.store[p] ELSE newPeerInfo(p)
Score(e) == IF e.id \in PersistentPeers THEN MaxScore + 1 ELSE e.score

\* Set: the order is cached unless the peer is new or its score changed.
Set(m, p, e) ==
  [m EXCEPT !.store = [q \in Known(m) \cup {p} |-> IF q = p THEN e ELSE m.store[q]],
            !.ranked = IF p \in Known(m) /\ Score(m.store[p]) = Score(e) THEN @ ELSE None]

\* Delete by the ID of an entry: an entry without one stays.
Delete(m, p) ==
  IF m.store[p].id = None THEN m
  ELSE [m EXCEPT !.store = [q \in Known(m) \ {p} |-> m.store[q]], !.ranked = None]

\* Ranked: a cached order may be older than the scores it was made from.
Ranked(m) ==
  IF m.ranked # None THEN {m.ranked}
  ELSE {r \in SetToSeqs(Known(m)) :
          \A i, j \in DOMAIN r : i < j => Score(m.store[r[i]]) >= Score(m.store[r[j]])}

\* prunePeers goes through the order it started with, from the end.
pruneAlong(m, r) ==
  FoldRight(LAMBDA p, n : IF Cardinality(Known(n)) <= MaxPeers \/ p \in n.dialing \cup n.connected
                          THEN n ELSE Delete(n, p), r, m)
prunePeers(m) ==
  IF Cardinality(Known(m)) <= MaxPeers THEN {m}
  ELSE {pruneAlong([m EXCEPT !.ranked = r], r) : r \in Ranked(m)}

-----------------------------------------------------------------------------
\* Writing to the nil map of a blank entry panics.
AddPanics(m, p) == p \in Known(m) /\ m.store[p].id = None

Add(m, p) ==
  IF Get(m, p).addr THEN {m}
  ELSE {[n EXCEPT !.dialWake = TRUE] : n \in prunePeers(Set(m, p, [Get(m, p) EXCEPT !.addr = TRUE]))}

\* findUpgradeCandidate: the peer claimed already, or the last in the order that can be
\* had, as long as no peer with an equal or higher score comes behind it.
findUpgradeCandidate(m, r, p, score) ==
  LET from == {f \in DOMAIN m.upgrading : m.upgrading[f] = p}
      i == SelectLastInSubSeq(r, 1, Len(r), LAMBDA q :
             \/ Score(m.store[q]) >= score
             \/ q \in m.connected \ (m.evict \cup m.evicting \cup DOMAIN m.upgrading))
  IN  IF from # {} THEN from
      ELSE IF i = 0 \/ Score(m.store[r[i]]) >= score THEN {} ELSE {r[i]}

\* The orders that findUpgradeCandidate may look at: none if there is a claim.
RankedFor(m, p) == IF \E f \in DOMAIN m.upgrading : m.upgrading[f] = p THEN {m.ranked} ELSE Ranked(m)

Dialable(m, p) == p \notin m.dialing \cup m.connected /\ m.store[p].addr /\ ~m.store[p].delayed

\* TryDialNext: what it returns, and the state it leaves.
TryDialNext(m) ==
  IF Cardinality(m.connected) + Cardinality(m.dialing) >= MaxConnected + MaxConnectedUpgrade
  THEN {[peer |-> None, pm |-> m]}
  ELSE UNION {
    LET n == [m EXCEPT !.ranked = r]
        i == SelectInSeq(r, LAMBDA q : Dialable(m, q))
        full == Cardinality(m.connected) >= MaxConnected
        from == findUpgradeCandidate(n, r, r[i], Score(m.store[r[i]]))
    IN  IF i = 0 \/ (full /\ from = {}) THEN {[peer |-> None, pm |-> n]}
        ELSE IF full
        THEN {[peer |-> r[i],
               pm |-> [n EXCEPT !.dialing = @ \cup {r[i]},
                                !.upgrading = [f \in DOMAIN @ \cup {g} |->
                                                 IF f = g THEN r[i] ELSE @[f]]]] : g \in from}
        ELSE {[peer |-> r[i], pm |-> [n EXCEPT !.dialing = @ \cup {r[i]}]]}
    : r \in Ranked(m)}

\* The claims without those of p.
UnclaimBy(m, p) == [f \in {g \in DOMAIN m.upgrading : m.upgrading[g] # p} |-> m.upgrading[f]]

DialFailed(m, p) ==
  LET n == [m EXCEPT !.dialing = @ \ {p}, !.upgrading = UnclaimBy(m, p)] IN
  IF p \notin Known(n) \/ ~n.store[p].addr THEN n
  ELSE Set(n, p, [n.store[p] EXCEPT !.delayed = TRUE])

\* The retry timer of DialFailed fires.
RetryTimer(m, p) == [m EXCEPT !.store[p].delayed = FALSE, !.dialWake = TRUE]

\* Dialed: each result says whether the connection is kept.
Dialed(m, p) ==
  LET from == {f \in DOMAIN m.upgrading : m.upgrading[f] = p}
      n == [m EXCEPT !.dialing = @ \ {p}, !.upgrading = UnclaimBy(m, p)]
      full == Cardinality(m.connected) >= MaxConnected
      dialed == Set(n, p, [n.store[p] EXCEPT !.delayed = FALSE])
      Join(o) == [o EXCEPT !.connected = @ \cup {p}, !.evictWake = TRUE]
  IN  IF \/ p \in m.connected
         \/ full /\ from = {}
         \/ Cardinality(m.connected) >= MaxConnected + MaxConnectedUpgrade
         \/ p \notin Known(m)
      THEN {[ok |-> FALSE, pm |-> n]}
      ELSE IF ~full THEN {[ok |-> TRUE, pm |-> Join(dialed)]}
      ELSE {[ok |-> TRUE, pm |-> Join([dialed EXCEPT !.ranked = r, !.evict = @ \cup {u}])] :
              <<r, u>> \in UNION {UNION {
                 LET worse == findUpgradeCandidate(dialed, r, f, Score(dialed.store[f]))
                 IN  {<<r, u>> : u \in IF worse = {} THEN {f} ELSE worse}
                 : r \in RankedFor(dialed, f)} : f \in from}}

Accepted(m, p) ==
  IF \/ p \in m.connected
     \/ Cardinality(m.connected) >= MaxConnected + MaxConnectedUpgrade
  THEN {[ok |-> FALSE, pm |-> m]}
  ELSE UNION {
    LET n == [m EXCEPT !.ranked = r]
        full == Cardinality(m.connected) >= MaxConnected
        from == IF full THEN findUpgradeCandidate(n, r, p, Score(Get(m, p))) ELSE {}
    IN  IF (full /\ from = {}) \/ Get(m, p).id = None THEN {[ok |-> FALSE, pm |-> n]}
        ELSE {[ok |-> TRUE,
               pm |-> [Set(n, p, Get(m, p)) EXCEPT !.connected = @ \cup {p}, !.evictWake = TRUE,
                                                  !.evict = @ \cup S]]
              : S \in IF full THEN {{f} : f \in from} ELSE {{}}}
    : r \in IF Cardinality(m.connected) >= MaxConnected THEN RankedFor(m, p) ELSE {m.ranked}}

Ready(m, p) == IF p \in m.connected THEN [m EXCEPT !.ready = @ \cup {p}] ELSE m

\* TryEvictNext: a connected peer of evict, dropping those it meets that are not; or
\* the worst peer of a node above its capacity.
TryEvictNext(m) ==
  LET due == {p \in m.evict : p \in m.connected \ m.evicting}
      n == [m EXCEPT !.evict = {}]
      above == Cardinality(m.connected) - Cardinality(m.evicting) > MaxConnected
  IN  IF due # {}
      THEN {[peer |-> p, pm |-> [m EXCEPT !.evict = @ \ (S \cup {p}), !.evicting = @ \cup {p}]] :
              p \in due, S \in SUBSET (m.evict \ due)}
      ELSE IF ~above THEN {[peer |-> None, pm |-> n]}
      ELSE {LET i == SelectLastInSubSeq(r, 1, Len(r), LAMBDA q : q \in m.connected \ m.evicting) IN
              IF i = 0 THEN [peer |-> None, pm |-> [n EXCEPT !.ranked = r]]
              ELSE [peer |-> r[i], pm |-> [n EXCEPT !.ranked = r, !.evicting = @ \cup {r[i]}]]
            : r \in Ranked(m)}

\* Mutant: a disconnected peer stays marked for eviction.
DisconnectedMarked(m, p) ==
  [m EXCEPT !.connected = @ \ {p}, !.ready = @ \ {p}, !.dialWake = TRUE,
            !.upgrading = [f \in DOMAIN @ \ {p} |-> @[f]]]

Disconnected(m, p) ==
  [m EXCEPT !.connected = @ \ {p}, !.evict = @ \ {p}, !.evicting = @ \ {p}, !.ready = @ \ {p},
            !.upgrading = [f \in DOMAIN @ \ {p} |-> @[f]], !.dialWake = TRUE]

\* Mutant: the routine that evicts is not woken.
ErroredUnheard(m, p) == [m EXCEPT !.evict = IF p \in m.connected THEN @ \cup {p} ELSE @]

Errored(m, p) ==
  [m EXCEPT !.evict = IF p \in m.connected THEN @ \cup {p} ELSE @, !.evictWake = TRUE]

\* processPeerEvent: PeerStatusGood is the only status that is sent.  The order is not
\* invalidated.
processPeerEvent(m, p) ==
  LET e == IF p \in Known(m) THEN m.store[p] ELSE Blank IN
  [m EXCEPT !.store = [q \in Known(m) \cup {p} |->
                         IF q = p THEN [e EXCEPT !.score = @ + 1] ELSE m.store[q]]]
=============================================================================
