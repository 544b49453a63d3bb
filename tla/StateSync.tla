------------------------------ MODULE StateSync ------------------------------
(***************************************************************************)
(* State sync: the pool of snapshots that peers advertise (snapshots.go),  *)
(* the queue of a snapshot's chunks (chunks.go), and the syncer that       *)
(* offers a snapshot to the application, fetches its chunks with several   *)
(* fetchers and applies them in order (syncer.go).                         *)
(*                                                                         *)
(* The syncer, its fetchers and the reactor's handlers run concurrently;   *)
(* the pool and the queue have a mutex each, and an action is one critical *)
(* section, or several of the syncer's that nothing can come between.      *)
(* Fetchers of a Sync that returned are gone at once.                      *)
(***************************************************************************)
EXTENDS Integers, FiniteSets, Sequences

CONSTANTS SnapPeers,        \* peers that may advertise snapshots and serve chunks
          Snapshots,        \* snapshots, known by their key
          SnapHeight,       \* height of each
          SnapFormat,       \* format of each
          NumChunks,        \* snapshot.Chunks
          Fetchers,         \* the goroutines of fetchChunks
          RecentSnapshots,  \* recentSnapshots
          MaxComplaints,    \* bound on how often the application does not just accept
          MaxReqs,          \* bound on the chunk requests in flight
          Adverts,          \* the snapshots each peer may advertise
          None

VARIABLES snapshotPeers,  \* pool: snapshot -> its peers
          peerIndex,      \* pool: peer -> its snapshots
          blacklist,      \* pool: rejected snapshots, formats and peers
          snapshot,       \* the snapshot SyncAny is restoring
          chunks,         \* its chunk queue
          syncPc,         \* where SyncAny is
          fetching,       \* fetcher -> the chunk it waits for
          chunkReqs,      \* chunk requests that were sent and not answered
          current,        \* the chunk being applied
          restored,       \* application: chunk -> what was applied since the offer
          complaints,     \* how often it complained
          retried         \* it asked to retry this snapshot

ssVars == <<snapshotPeers, peerIndex, blacklist, snapshot, chunks, syncPc, fetching,
            chunkReqs, current, restored, complaints, retried>>
poolOfSnaps == <<snapshotPeers, peerIndex, blacklist>>
appVars == <<current, restored, complaints>>

Chunks == 1 .. NumChunks
newChunkQueue == [files |-> <<>>, allocated |-> {}, returned |-> {}]

\* The sync, started or not.
Start(on) ==
  /\ snapshotPeers = <<>>
  /\ peerIndex = [p \in SnapPeers |-> {}]
  /\ blacklist = [snapshots |-> {}, formats |-> {}, peers |-> {}]
  /\ snapshot = None
  /\ chunks = None
  /\ syncPc = IF on THEN "best" ELSE "failed"
  /\ fetching = [f \in Fetchers |-> None]
  /\ chunkReqs = {}
  /\ restored = [i \in Chunks |-> None]
  /\ current = None
  /\ complaints = 0
  /\ retried = FALSE

Init == Start(TRUE)

-----------------------------------------------------------------------------
(* snapshotPool *)

RestrictTo(f, S) == [x \in DOMAIN f \cap S |-> f[x]]

\* AddSnapshot, for a SnapshotsResponse of peer p.
AddSnapshot(p, s) ==
  /\ syncPc \notin {"done", "failed"}
  /\ SnapFormat[s] \notin blacklist.formats
  /\ p \notin blacklist.peers
  /\ s \notin blacklist.snapshots
  /\ Cardinality(peerIndex[p]) < RecentSnapshots
  /\ snapshotPeers' = [t \in DOMAIN snapshotPeers \cup {s} |->
                         IF t # s THEN snapshotPeers[t]
                         ELSE {p} \cup (IF s \in DOMAIN snapshotPeers THEN snapshotPeers[s] ELSE {})]
  /\ peerIndex' = [peerIndex EXCEPT ![p] = @ \cup {s}]
  /\ UNCHANGED <<blacklist, snapshot, chunks, syncPc, fetching, chunkReqs, appVars, retried>>

\* removeSnapshot, of every snapshot in S.
removeSnapshots(S) ==
  /\ snapshotPeers' = RestrictTo(snapshotPeers, Snapshots \ S)
  /\ peerIndex' = [p \in SnapPeers |-> peerIndex[p] \ S]

\* removePeer, of every peer in P: snapshots without a peer go.
removePeers(P) ==
  /\ snapshotPeers' = [s \in {t \in DOMAIN snapshotPeers : ~snapshotPeers[t] \subseteq P} |->
                         snapshotPeers[s] \ P]
  /\ peerIndex' = [p \in SnapPeers |-> IF p \in P THEN {} ELSE peerIndex[p]]

Reject(s) ==
  /\ removeSnapshots({s})
  /\ blacklist' = [blacklist EXCEPT !.snapshots = @ \cup {s}]

RejectFormat(fmt) ==
  /\ removeSnapshots({s \in Snapshots : SnapFormat[s] = fmt})
  /\ blacklist' = [blacklist EXCEPT !.formats = @ \cup {fmt}]

\* RejectPeer, of every peer in P.
RejectPeers(P) ==
  /\ removePeers(P)
  /\ blacklist' = [blacklist EXCEPT !.peers = @ \cup P]

GetPeers(s) == IF s \in DOMAIN snapshotPeers THEN snapshotPeers[s] ELSE {}

\* Those with more peers than the median come first, then height, number of peers
\* and format count.  Ties are broken by the order of a Go map.
Median ==
  LET n == Cardinality(DOMAIN snapshotPeers)
      P(s) == Cardinality(snapshotPeers[s])
      \* the k-th smallest number of peers
      Nth(k) == CHOOSE c \in {P(s) : s \in DOMAIN snapshotPeers} :
                  /\ Cardinality({s \in DOMAIN snapshotPeers : P(s) < c}) < k
                  /\ Cardinality({s \in DOMAIN snapshotPeers : P(s) <= c}) >= k
  IN IF n % 2 = 0 THEN (Nth(n \div 2) + Nth(n \div 2 + 1)) \div 2 ELSE Nth(n \div 2 + 1)

Better(a, b) ==
  LET P(s) == Cardinality(snapshotPeers[s])
      common(s) == P(s) > Median IN
  \/ common(a) /\ ~common(b)
  \/ /\ common(a) = common(b)
     /\ \/ SnapHeight[a] > SnapHeight[b]
        \/ SnapHeight[a] = SnapHeight[b] /\ (P(a) > P(b) \/ SnapFormat[a] > SnapFormat[b])

\* The first of Ranked().  The comparison is no order when more peers and a bigger
\* format disagree, so sorting may then put either first.
Best == {s \in DOMAIN snapshotPeers :
           \A t \in DOMAIN snapshotPeers : Better(t, s) => Better(s, t)}

PeerDown(p) ==
  /\ syncPc \notin {"done", "failed"}
  /\ peerIndex[p] # {}
  /\ removePeers({p})
  /\ chunkReqs' = {r \in chunkReqs : r.peer # p}
  /\ UNCHANGED <<blacklist, snapshot, chunks, syncPc, fetching, appVars, retried>>

-----------------------------------------------------------------------------
(* chunkQueue *)

SameKind(s, t) == SnapHeight[s] = SnapHeight[t] /\ SnapFormat[s] = SnapFormat[t]

\* Add, for a ChunkResponse that answers r.  The chunk may be of another snapshot of
\* the same height and format; a chunk that is there already is ignored.  Fetchers
\* that wait for it are signalled.
AddChunk(r) ==
  /\ r \in chunkReqs
  /\ syncPc \notin {"done", "failed"}
  /\ chunkReqs' = chunkReqs \ {r}
  /\ IF syncPc = "best" \/ (syncPc # "best" /\ ~SameKind(snapshot, r.snapshot))
        \/ (syncPc # "best" /\ r.index \in DOMAIN chunks.files)
     THEN UNCHANGED <<chunks, fetching>>
     ELSE /\ chunks' = [chunks EXCEPT !.files =
                          [i \in DOMAIN @ \cup {r.index} |-> IF i = r.index THEN r.peer ELSE @[i]]]
          /\ fetching' = [f \in Fetchers |->
                            IF fetching[f] # None /\ fetching[f].index = r.index
                            THEN [fetching[f] EXCEPT !.signalled = TRUE] ELSE fetching[f]]
  /\ UNCHANGED <<poolOfSnaps, snapshot, syncPc, appVars, retried>>

\* Mutant: a discarded chunk still counts as returned.
discardKeepReturned(q, S) ==
  [q EXCEPT !.files = RestrictTo(@, Chunks \ S), !.allocated = @ \ (S \cap DOMAIN q.files)]

\* discard, of every chunk in S.
discard(q, S) ==
  [files |-> RestrictTo(q.files, Chunks \ S),
   returned |-> q.returned \ (S \cap DOMAIN q.files),
   allocated |-> q.allocated \ (S \cap DOMAIN q.files)]

\* The chunks not yet returned that the peers in P sent.
UnreturnedOf(q, P) == {i \in DOMAIN q.files : q.files[i] \in P /\ i \notin q.returned}
DiscardSenders(q, P) == discard(q, UnreturnedOf(q, P))

\* nextUp
NextUp(q) == CHOOSE i \in Chunks \ q.returned : \A j \in Chunks \ q.returned : i <= j

-----------------------------------------------------------------------------
(* fetchChunks.  The fetchers run from the time the snapshot was accepted. *)

Fetches == syncPc \in {"state", "next", "waiting", "apply"}

\* requestChunk and WaitFor: the request goes to some peer of the snapshot, if any.
\* One beyond the bound is lost.
Request(f, i) ==
  /\ fetching' = [fetching EXCEPT ![f] = [index |-> i, signalled |-> i \in DOMAIN chunks.files]]
  /\ IF GetPeers(snapshot) = {} \/ Cardinality(chunkReqs) >= MaxReqs THEN UNCHANGED chunkReqs
     ELSE \E p \in GetPeers(snapshot) :
            chunkReqs' = chunkReqs \cup {[snapshot |-> snapshot, index |-> i, peer |-> p]}

Allocate(f) ==
  /\ Fetches
  /\ fetching[f] = None
  /\ chunks.allocated # Chunks
  /\ LET i == CHOOSE j \in Chunks \ chunks.allocated :
                \A k \in Chunks \ chunks.allocated : j <= k IN
     /\ chunks' = [chunks EXCEPT !.allocated = @ \cup {i}]
     /\ Request(f, i)
  /\ UNCHANGED <<poolOfSnaps, snapshot, syncPc, appVars, retried>>

Signalled(f) ==
  /\ Fetches
  /\ fetching[f] # None
  /\ fetching[f].signalled
  /\ fetching' = [fetching EXCEPT ![f] = None]
  /\ UNCHANGED <<poolOfSnaps, snapshot, chunks, syncPc, chunkReqs, appVars, retried>>

\* The retry timer; it may win against a signal that came at the same time.
RetryTimeout(f) ==
  /\ Fetches
  /\ fetching[f] # None
  /\ Request(f, fetching[f].index)
  /\ UNCHANGED <<poolOfSnaps, snapshot, chunks, syncPc, appVars, retried>>

-----------------------------------------------------------------------------
(* SyncAny and Sync. *)

\* Sync returns an error that makes SyncAny look for another snapshot.
Discard ==
  /\ snapshot' = None
  /\ chunks' = None
  /\ syncPc' = "best"
  /\ fetching' = [f \in Fetchers |-> None]
  /\ retried' = FALSE
  /\ UNCHANGED <<chunkReqs, current, restored>>

\* Sync returns an error that ends the state sync.
Fail ==
  /\ syncPc' = "failed"
  /\ fetching' = [f \in Fetchers |-> None]
  /\ UNCHANGED <<poolOfSnaps, snapshot, chunks, chunkReqs, current, restored, retried>>

PickBest ==
  /\ syncPc = "best"
  /\ snapshot = None
  /\ snapshot' \in Best
  /\ chunks' = newChunkQueue
  /\ syncPc' = "hash"
  /\ UNCHANGED <<poolOfSnaps, fetching, chunkReqs, appVars, retried>>

\* stateProvider.AppHash before the offer; State and Commit after it.
StateProvider ==
  /\ syncPc \in {"hash", "state"}
  /\ \/ syncPc' = (IF syncPc = "hash" THEN "offer" ELSE "next")
        /\ UNCHANGED <<poolOfSnaps, snapshot, chunks, fetching, chunkReqs, current, restored, retried>>
     \/ Reject(snapshot) /\ Discard
  /\ UNCHANGED complaints

\* No witnesses left, or the context of the sync was cancelled.
StateProviderFails ==
  /\ syncPc \in {"hash", "state"}
  /\ Fail
  /\ UNCHANGED complaints

Complain == complaints < MaxComplaints /\ complaints' = complaints + 1

\* The application starts a restoration.
offerSnapshot ==
  /\ syncPc = "offer"
  /\ \/ /\ syncPc' = "state"
        /\ restored' = [i \in Chunks |-> None]
        /\ UNCHANGED <<poolOfSnaps, snapshot, chunks, fetching, chunkReqs, current, complaints, retried>>
     \/ Complain /\ Fail
     \/ Complain /\ Reject(snapshot) /\ Discard
     \/ Complain /\ RejectFormat(SnapFormat[snapshot]) /\ Discard
     \/ Complain /\ RejectPeers(GetPeers(snapshot)) /\ Discard

\* chunkQueue.Next
NextChunk ==
  /\ syncPc \in {"next", "waiting"}
  /\ IF chunks.returned = Chunks THEN syncPc' = "verify" /\ UNCHANGED <<chunks, current>>
     ELSE IF NextUp(chunks) \in DOMAIN chunks.files
     THEN /\ chunks' = [chunks EXCEPT !.returned = @ \cup {NextUp(chunks)}]
          /\ current' = NextUp(chunks)
          /\ syncPc' = "apply"
     ELSE syncPc = "next" /\ syncPc' = "waiting" /\ UNCHANGED <<chunks, current>>
  /\ UNCHANGED <<poolOfSnaps, snapshot, fetching, chunkReqs, restored, complaints, retried>>

\* chunkTimeout is long: not while the chunk is about to arrive.
NextTimeout ==
  /\ syncPc = "waiting"
  /\ \A r \in chunkReqs : r.snapshot = snapshot => r.index # NextUp(chunks)
  /\ NextUp(chunks) \notin DOMAIN chunks.files
  /\ Reject(snapshot)
  /\ Discard
  /\ UNCHANGED complaints

\* applyChunks: the application's answer to a chunk.  It may ask to refetch chunks
\* and reject senders along with any result.
ApplyChunk(result, again, senders) ==
  /\ syncPc = "apply"
  /\ IF result = "ACCEPT" /\ again = {} /\ senders = {} THEN UNCHANGED complaints ELSE Complain
  /\ IF senders = {} THEN UNCHANGED poolOfSnaps ELSE RejectPeers(senders)
  /\ LET q == DiscardSenders(discard(chunks, again), senders)
         gone == again \cup (IF result = "RETRY" THEN {current} ELSE {}) IN
     /\ restored' = [i \in Chunks |-> IF i \in gone THEN None
                                      ELSE IF i = current THEN chunks.files[i] ELSE restored[i]]
     /\ CASE result \in {"ACCEPT", "RETRY"} ->
               /\ chunks' = [q EXCEPT !.returned = @ \ (IF result = "RETRY" THEN {current} ELSE {})]
               /\ syncPc' = "next"
               /\ UNCHANGED <<snapshot, fetching, retried>>
          [] result = "RETRY_SNAPSHOT" ->
               /\ chunks' = [q EXCEPT !.returned = {}]
               /\ syncPc' = "hash"
               /\ fetching' = [f \in Fetchers |-> None]
               /\ retried' = TRUE
               /\ UNCHANGED snapshot
  /\ current' = None
  /\ UNCHANGED chunkReqs

\* REJECT_SNAPSHOT and ABORT.
ApplyChunkFails ==
  /\ syncPc = "apply"
  /\ Complain
  /\ Fail \/ (Reject(snapshot) /\ Discard)

verifyApp ==
  /\ syncPc = "verify"
  /\ syncPc' \in {"done", "failed"}
  /\ fetching' = [f \in Fetchers |-> None]
  /\ UNCHANGED <<poolOfSnaps, snapshot, chunks, chunkReqs, current, restored, complaints, retried>>

Next ==
  \/ \E p \in SnapPeers : PeerDown(p) \/ \E s \in Adverts[p] : AddSnapshot(p, s)
  \/ \E r \in chunkReqs : AddChunk(r)
  \/ \E f \in Fetchers : Allocate(f) \/ Signalled(f) \/ RetryTimeout(f)
  \/ PickBest \/ StateProvider \/ StateProviderFails \/ offerSnapshot
  \/ NextChunk \/ NextTimeout
  \/ \E result \in {"ACCEPT", "RETRY", "RETRY_SNAPSHOT"}, senders \in SUBSET SnapPeers,
        again \in SUBSET Chunks :
       /\ Cardinality(senders) + Cardinality(again) <= 1
       /\ ApplyChunk(result, again, senders)
  \/ ApplyChunkFails \/ verifyApp

Spec == Init /\ [][Next]_ssVars

-----------------------------------------------------------------------------
TypeOK ==
  /\ DOMAIN snapshotPeers \subseteq Snapshots
  /\ peerIndex \in [SnapPeers -> SUBSET Snapshots]
  /\ snapshot \in Snapshots \cup {None}
  /\ syncPc \in {"best", "hash", "offer", "state", "next", "waiting", "apply", "verify", "done", "failed"}
  /\ fetching \in [Fetchers -> [index : Chunks, signalled : BOOLEAN] \cup {None}]
  /\ restored \in [Chunks -> SnapPeers \cup {None}]

\* The pool's indexes agree however snapshots, formats and peers are rejected and peers
\* go: each snapshot in it has a peer, peerIndex is the inverse of snapshotPeers and
\* bounded, and nothing that was rejected is in the pool.
PoolConsistent ==
  /\ \A s \in DOMAIN snapshotPeers :
       /\ snapshotPeers[s] # {}
       /\ s \notin blacklist.snapshots /\ SnapFormat[s] \notin blacklist.formats
       /\ snapshotPeers[s] \cap blacklist.peers = {}
  /\ \A p \in SnapPeers :
       /\ peerIndex[p] = {s \in DOMAIN snapshotPeers : p \in snapshotPeers[s]}
       /\ Cardinality(peerIndex[p]) <= RecentSnapshots

\* A snapshot that was rejected is never restored again, and a rejected peer is never
\* asked for a chunk again ("It will never be used again").
NotUsedAgain ==
  /\ \A r \in chunkReqs' \ chunkReqs : r.peer \notin blacklist.peers
  /\ syncPc = "best" /\ syncPc' = "hash" => snapshot' \notin blacklist.snapshots

\* When the application is asked for its hash, it has accepted every chunk since the
\* offer, and those it wanted again, it got again.
AllRestored == syncPc \in {"verify", "done"} => \A i \in Chunks : restored[i] # None

\* The queue never hands out a chunk that it does not have.
ReturnedAreThere ==
  chunks # None => chunks.returned \subseteq DOMAIN chunks.files

\* Unless the application retries the snapshot, a chunk that was allocated and has not
\* arrived has a fetcher that goes on asking for it ("making it responsible for
\* fetching it").
AllocatedIsFetched ==
  Fetches /\ ~retried =>
    \A i \in chunks.allocated \ DOMAIN chunks.files :
      \E f \in Fetchers : fetching[f] # None /\ fetching[f].index = i /\ ~fetching[f].signalled
=============================================================================
