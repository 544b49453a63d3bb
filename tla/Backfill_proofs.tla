---------------------------- MODULE Backfill_proofs ----------------------------
(***************************************************************************)
(* Backfill, for any number of workers, peers, retries and heights, and    *)
(* any answers: every height that was allocated is in one place until it   *)
(* is verified, and when backfill succeeds the headers and the validators  *)
(* of every height down to the terminal block are stored.                  *)
(*                                                                         *)
(* Most lemmas are about one operation on the record bf: it keeps Good,    *)
(* forgets no height (Covered), and leaves alone what is stored (Kept).    *)
(* The steps of the system then put those together.                        *)
(***************************************************************************)
EXTENDS Backfill, TLAPS

LightBlocks == [height : BfHeights, block : {"good"} \cup Answers, peer : Nodes]

WorkerTypes ==
  [st : {"idle", "waiting", "pop", "popwait", "ready", "call", "cleanup"},
   height : BfHeights \cup {Nil}, peer : Nodes \cup {Nil}]

Queues ==
  [fetchHeight : InitialHeight - 1 .. StartHeight, verifyHeight : InitialHeight - 1 .. StartHeight,
   terminal : BfHeights \cup {Nil}, failed : SUBSET BfHeights, retries : 0 .. MaxRetries,
   pending : UNION {[S -> LightBlocks] : S \in SUBSET BfHeights}, waiters : Seq(Workers),
   closed : Nat, workers : [Workers -> WorkerTypes], peers : Seq(Nodes),
   waiting : Seq(Workers), verifying : LightBlocks \cup {Nil},
   lastValidatorSet : {ValidatorsAt[h] : h \in BfHeights} \cup {Nil},
   lastChangeHeight : BfHeights, headers : SUBSET BfHeights]

\* A worker between heights has none, one with a peer has one of the peers.
Between(x) == x.st \in {"idle", "waiting"}
HasPeer(x) == x.st \in {"ready", "call", "cleanup"}
Busy(x) == x.st \in {"pop", "ready", "call", "cleanup"}
Queued(x) == x.st \in {"waiting", "popwait"}
SoundWorker(x) ==
  /\ x.height = Nil <=> Between(x)
  /\ HasPeer(x) => x.peer \in Nodes
WorkersSound(s) == \A w \in Workers : SoundWorker(s.workers[w])

\* Those that wait are in the queue of what they wait for, once.
Lined(q, s, st) ==
  /\ \A i \in 1 .. Len(q) : s.workers[q[i]].st = st
  /\ \A i, j \in 1 .. Len(q) : q[i] = q[j] => i = j

\* Worker w is not in a queue, and the others are as they were.
NotIn(w, q) == \A i \in 1 .. Len(q) : q[i] # w
OthersSame(s, t, w) == \A v \in Workers : v # w => t.workers[v] = s.workers[v]

\* A block is filed under its height, and the one that is verified is the next.
Filed(s) ==
  /\ \A h \in DOMAIN s.pending : s.pending[h].height = h
  /\ s.verifying # Nil => s.verifying.height = s.verifyHeight

\* Where a height can be.
WithWorker(s, h) == \E w \in Workers : s.workers[w].height = h
AtVerifier(s, h) == s.verifying # Nil /\ s.verifying.height = h
Held(s, h) == WithWorker(s, h) \/ h \in s.failed \/ h \in DOMAIN s.pending \/ AtVerifier(s, h)

\* No two workers have the same height.
OwnHeights(f) ==
  \A v, w \in Workers : f[v].height = f[w].height /\ f[v].height # Nil => v = w

\* It is in one place, and was allocated and not verified.
InOnePlace(s) ==
  /\ s.fetchHeight <= s.verifyHeight
  /\ \A h \in BfHeights : Held(s, h) => h > s.fetchHeight /\ h <= s.verifyHeight
  /\ OwnHeights(s.workers)
  /\ \A h \in BfHeights :
       /\ WithWorker(s, h) => h \notin s.failed /\ h \notin DOMAIN s.pending /\ ~AtVerifier(s, h)
       /\ h \in s.failed => h \notin DOMAIN s.pending /\ ~AtVerifier(s, h)
       /\ h \in DOMAIN s.pending => ~AtVerifier(s, h)

Good(s) ==
  /\ s \in Queues
  /\ WorkersSound(s)
  /\ Lined(s.waiters, s, "waiting") /\ Lined(s.waiting, s, "popwait")
  /\ Filed(s)
  /\ InOnePlace(s)
  /\ s.closed = 0 => s.retries < MaxRetries

\* No height is forgotten but those of X.
Covered(s, X) ==
  s.closed = 0 =>
    \A h \in BfHeights : h > s.fetchHeight /\ h <= s.verifyHeight =>
      h \in X \/ Held(s, h) \/ (s.terminal # Nil /\ h < s.terminal)

\* What was verified is stored, with the validators of the heights above
\* lastChangeHeight; those up to it are the ones of lastValidatorSet.
Stored(s, saved) ==
  /\ s.headers = s.verifyHeight + 1 .. StartHeight
  /\ s.verifyHeight = StartHeight => s.lastValidatorSet = Nil /\ s.lastChangeHeight = StartHeight
  /\ s.verifyHeight < StartHeight =>
       /\ s.lastValidatorSet = ValidatorsAt[s.verifyHeight + 1]
       /\ s.lastChangeHeight > s.verifyHeight
  /\ \A h \in BfHeights : /\ h > s.lastChangeHeight => saved[h] = ValidatorsAt[h]
                          /\ h > s.verifyHeight /\ h <= s.lastChangeHeight
                               => ValidatorsAt[h] = s.lastValidatorSet

\* The queue is closed by its retries, or by the verification of the terminal block.
ClosedRight(s) ==
  s.closed > 0 /\ s.retries < MaxRetries =>
    s.verifyHeight < StartHeight /\ s.terminal = s.verifyHeight + 1 /\ s.verifying = Nil

\* The open calls, D, are those of the workers that wait for an answer or clean up, one each.
InCall(x) == x.st \in {"call", "cleanup"}
CallsOwned(s, D) ==
  /\ \A w \in Workers : InCall(s.workers[w]) => s.workers[w].peer \in D
  /\ \A v, w \in Workers :
       InCall(s.workers[v]) /\ InCall(s.workers[w]) /\ s.workers[v].peer = s.workers[w].peer => v = w

Responses == [height : BfHeights, block : {"good"} \cup Answers]

\* BackfillComplete is not inductive.  That a height is in one place rests on who has
\* it (Good): no two workers wait in a queue twice, have one height or one call.  That
\* success means a complete store rests on what is stored so far (Stored), and on why
\* the queue was closed (ClosedRight).
IInv ==
  /\ Good(bf) /\ Covered(bf, {})
  /\ calls \in [DOMAIN calls -> Responses \cup {Nil}] /\ CallsOwned(bf, DOMAIN calls)
  /\ lbReqs \subseteq [peer : Nodes, height : BfHeights]
  /\ bfResult \in {"running", "ok", "error", "cancelled"}
  /\ bfResult = "running" => Stored(bf, valsSaved) /\ ClosedRight(bf)
  /\ SucceedsComplete
-------------------------------------------------------------------------------
\* What the type of the queue says of its fields.
LEMMA Fields ==
  ASSUME NEW s \in Queues
  PROVE  /\ s.fetchHeight \in Int /\ s.verifyHeight \in Int
         /\ s.fetchHeight \in InitialHeight - 1 .. StartHeight
         /\ s.verifyHeight \in InitialHeight - 1 .. StartHeight
         /\ s.terminal \in BfHeights \cup {Nil} /\ s.failed \in SUBSET BfHeights
         /\ s.retries \in 0 .. MaxRetries
         /\ DOMAIN s.pending \in SUBSET BfHeights /\ s.pending \in [DOMAIN s.pending -> LightBlocks]
         /\ s.waiters \in Seq(Workers) /\ s.closed \in Nat /\ s.workers \in [Workers -> WorkerTypes]
         /\ s.peers \in Seq(Nodes) /\ s.waiting \in Seq(Workers)
         /\ s.verifying \in LightBlocks \cup {Nil}
         /\ s.lastChangeHeight \in BfHeights /\ s.headers \in SUBSET BfHeights
<1>1. /\ s.fetchHeight \in InitialHeight - 1 .. StartHeight
      /\ s.verifyHeight \in InitialHeight - 1 .. StartHeight
      /\ s.terminal \in BfHeights \cup {Nil} /\ s.failed \in SUBSET BfHeights
      /\ s.retries \in 0 .. MaxRetries
      /\ s.pending \in UNION {[S -> LightBlocks] : S \in SUBSET BfHeights}
      /\ s.waiters \in Seq(Workers) /\ s.closed \in Nat /\ s.workers \in [Workers -> WorkerTypes]
      /\ s.peers \in Seq(Nodes) /\ s.waiting \in Seq(Workers)
      /\ s.verifying \in LightBlocks \cup {Nil}
      /\ s.lastChangeHeight \in BfHeights /\ s.headers \in SUBSET BfHeights
  BY Zenon DEF Queues
<1>2. DOMAIN s.pending \in SUBSET BfHeights /\ s.pending \in [DOMAIN s.pending -> LightBlocks]
  BY <1>1, Zenon
<1>3. s.fetchHeight \in Int /\ s.verifyHeight \in Int
  BY <1>1, BackfillAssumption
<1> QED BY <1>1, <1>2, <1>3, Zenon

\* Heights are not nil.
LEMMA NotNil == \A h \in BfHeights : h # Nil /\ h \in Int
BY BackfillAssumption DEF BfHeights

\* Where the heights are depends on these fields, and of a worker on its height only.
Placed(s, t) ==
  /\ \A w \in Workers : t.workers[w].height = s.workers[w].height
  /\ t.failed = s.failed /\ t.pending = s.pending
  /\ t.verifying = s.verifying /\ t.fetchHeight = s.fetchHeight /\ t.verifyHeight = s.verifyHeight

\* If they stay then every height stays where it is.
LEMMA PlacedSame ==
  ASSUME NEW s, NEW t, Placed(s, t)
  PROVE  /\ InOnePlace(s) => InOnePlace(t)
         /\ Filed(s) => Filed(t)
         /\ \A h : Held(t, h) <=> Held(s, h)
<1>1. Filed(s) => Filed(t)
  BY Zenon DEF Placed, Filed
<1>2. \A h : /\ WithWorker(t, h) <=> WithWorker(s, h)
             /\ AtVerifier(t, h) <=> AtVerifier(s, h)
  BY Zenon DEF Placed, WithWorker, AtVerifier
<1>3. \A h : Held(t, h) <=> Held(s, h)
  BY <1>2, Zenon DEF Placed, Held
<1>4. OwnHeights(s.workers) => OwnHeights(t.workers)
  BY Zenon DEF Placed, OwnHeights
<1>5. InOnePlace(s) => InOnePlace(t)
  BY <1>2, <1>3, <1>4, Zenon DEF Placed, InOnePlace
<1> QED BY <1>1, <1>3, <1>5, Zenon

\* A queue that worker w is not in does not see what w does.
LEMMA LinedOthers ==
  ASSUME NEW s, NEW t, NEW w, NEW st, NEW q \in Seq(Workers), Lined(q, s, st),
         OthersSame(s, t, w), NotIn(w, q)
  PROVE  Lined(q, t, st)
<1>1. \A i \in 1 .. Len(q) : q[i] \in Workers
  OBVIOUS
<1> QED BY <1>1, Zenon DEF Lined, OthersSame, NotIn

\* The first of a queue leaves it.
LEMMA LinedTail ==
  ASSUME NEW s, NEW st, NEW q \in Seq(Workers), Lined(q, s, st), q # <<>>
  PROVE  /\ Head(q) \in Workers /\ s.workers[Head(q)].st = st
         /\ Tail(q) \in Seq(Workers) /\ Lined(Tail(q), s, st) /\ NotIn(Head(q), Tail(q))
<1>1. /\ Head(q) = q[1] /\ 1 \in 1 .. Len(q) /\ Head(q) \in Workers /\ Tail(q) \in Seq(Workers)
      /\ \A i \in 1 .. Len(Tail(q)) : Tail(q)[i] = q[i + 1] /\ i + 1 \in 1 .. Len(q) /\ i + 1 # 1
  OBVIOUS
<1>2. \A i, j \in 1 .. Len(Tail(q)) : i + 1 = j + 1 => i = j
  BY <1>1
<1>3. s.workers[Head(q)].st = st
  BY <1>1, Zenon DEF Lined
<1>4. ASSUME NEW i \in 1 .. Len(Tail(q))
      PROVE  s.workers[Tail(q)[i]].st = st /\ Tail(q)[i] # Head(q)
  <2>1. PICK k \in 1 .. Len(q) : k = i + 1 /\ k # 1 /\ Tail(q)[i] = q[k]
    BY <1>1, Zenon
  <2> QED BY <1>1, <2>1, Zenon DEF Lined
<1>5. ASSUME NEW i \in 1 .. Len(Tail(q)), NEW j \in 1 .. Len(Tail(q)), Tail(q)[i] = Tail(q)[j]
      PROVE  i = j
  <2>1. i + 1 = j + 1
    BY <1>1, <1>5, Zenon DEF Lined
  <2> QED BY <1>2, <2>1, Zenon
<1>6. Lined(Tail(q), s, st)
  BY <1>4, <1>5, Zenon DEF Lined
<1>7. NotIn(Head(q), Tail(q))
  BY <1>4, Zenon DEF NotIn
<1> QED BY <1>1, <1>3, <1>6, <1>7, Zenon

\* A worker that begins to wait joins its queue.
LEMMA LinedAppend ==
  ASSUME NEW s, NEW st, NEW q \in Seq(Workers), Lined(q, s, st), NEW w \in Workers,
         s.workers[w].st = st, NotIn(w, q)
  PROVE  Append(q, w) \in Seq(Workers) /\ Lined(Append(q, w), s, st)
<1>1. /\ Append(q, w) \in Seq(Workers) /\ Len(Append(q, w)) = Len(q) + 1
      /\ \A i \in 1 .. Len(q) : Append(q, w)[i] = q[i]
      /\ Append(q, w)[Len(q) + 1] = w
      /\ \A i \in 1 .. Len(q) + 1 : i \in 1 .. Len(q) \/ i = Len(q) + 1
  OBVIOUS
<1>2. \A i \in 1 .. Len(q) + 1 : s.workers[Append(q, w)[i]].st = st
  BY <1>1, Zenon DEF Lined
<1>3. \A i, j \in 1 .. Len(q) + 1 : Append(q, w)[i] = Append(q, w)[j] => i = j
  BY <1>1, Zenon DEF Lined, NotIn
<1> QED BY <1>1, <1>2, <1>3, Zenon DEF Lined

\* Worker w becomes x, and nothing else changes.
Put(s, w, x) == [s EXCEPT !.workers[w] = x]
Sets(s, t, w, x) ==
  /\ t \in Queues /\ t.workers[w] = x /\ OthersSame(s, t, w)
  /\ t.failed = s.failed /\ t.pending = s.pending /\ t.verifying = s.verifying
  /\ t.fetchHeight = s.fetchHeight /\ t.verifyHeight = s.verifyHeight
  /\ t.waiters = s.waiters /\ t.waiting = s.waiting /\ t.closed = s.closed
  /\ t.retries = s.retries /\ t.terminal = s.terminal

\* The update of one worker.
LEMMA PutSets ==
  ASSUME NEW s \in Queues, NEW w \in Workers, NEW x \in WorkerTypes
  PROVE  Sets(s, Put(s, w, x), w, x)
<1>1. s.workers \in [Workers -> WorkerTypes]
  BY Fields, Zenon
<1>2. PICK f \in [Workers -> WorkerTypes] : f = [s.workers EXCEPT ![w] = x]
  BY <1>1, Zenon
<1>3. f[w] = x /\ \A v \in Workers : v # w => f[v] = s.workers[v]
  BY <1>1, <1>2, Zenon
<1>4. PICK t : t = [s EXCEPT !.workers = f]
  BY Zenon
<1>5. t \in Queues
  BY <1>4, ZenonT(60) DEF Queues
<1>6. /\ t.workers = f /\ t.failed = s.failed /\ t.pending = s.pending /\ t.verifying = s.verifying
      /\ t.fetchHeight = s.fetchHeight /\ t.verifyHeight = s.verifyHeight
      /\ t.waiters = s.waiters /\ t.waiting = s.waiting /\ t.closed = s.closed
      /\ t.retries = s.retries /\ t.terminal = s.terminal
  BY <1>4, ZenonT(60) DEF Queues
<1>7. t.workers[w] = x /\ OthersSame(s, t, w)
  BY <1>3, <1>6, Zenon DEF OthersSame
<1>8. t = Put(s, w, x)
  BY <1>2, <1>4, Zenon DEF Put
<1> QED BY <1>5, <1>6, <1>7, <1>8, Zenon DEF Sets

\* The heights that the workers have then.
OthersHave(s, t, w) ==
  /\ \A k : WithWorker(t, k) => WithWorker(s, k) \/ k = t.workers[w].height
  /\ \A k : WithWorker(s, k) => WithWorker(t, k) \/ k = s.workers[w].height
  /\ WithWorker(t, t.workers[w].height)

\* The heights of the others are theirs still.
LEMMA PutHeights ==
  ASSUME NEW s, NEW t, NEW w \in Workers, OthersSame(s, t, w)
  PROVE  OthersHave(s, t, w)
<1>1. ASSUME NEW k, WithWorker(t, k)
      PROVE  WithWorker(s, k) \/ k = t.workers[w].height
  <2>1. PICK v \in Workers : t.workers[v].height = k
    BY <1>1, Zenon DEF WithWorker
  <2> QED BY <2>1, Zenon DEF WithWorker, OthersSame
<1>2. ASSUME NEW k, WithWorker(s, k)
      PROVE  WithWorker(t, k) \/ k = s.workers[w].height
  <2>1. PICK v \in Workers : s.workers[v].height = k
    BY <1>2, Zenon DEF WithWorker
  <2> QED BY <2>1, Zenon DEF WithWorker, OthersSame
<1>3. WithWorker(t, t.workers[w].height)
  BY Zenon DEF WithWorker
<1> QED BY <1>1, <1>2, <1>3, Zenon DEF OthersHave

\* Workers that wait are in the same queues, if w is in none.
LEMMA PutLined ==
  ASSUME NEW s, Good(s), NEW t, NEW w \in Workers, NEW x, Sets(s, t, w, x),
         NotIn(w, s.waiters), NotIn(w, s.waiting)
  PROVE  Lined(t.waiters, t, "waiting") /\ Lined(t.waiting, t, "popwait")
<1>1. s.waiters \in Seq(Workers) /\ s.waiting \in Seq(Workers)
  BY Fields, Zenon DEF Good
<1>2. Lined(s.waiters, s, "waiting") /\ Lined(s.waiting, s, "popwait")
  BY Zenon DEF Good
<1>3. OthersSame(s, t, w) /\ t.waiters = s.waiters /\ t.waiting = s.waiting
  BY Zenon DEF Sets
<1>4. Lined(s.waiters, t, "waiting")
  BY <1>1, <1>2, <1>3, LinedOthers, Zenon
<1>5. Lined(s.waiting, t, "popwait")
  BY <1>1, <1>2, <1>3, LinedOthers, Zenon
<1> QED BY <1>3, <1>4, <1>5, Zenon

\* A worker is sound if its new state is, and the others stay so.
LEMMA PutSound ==
  ASSUME NEW s, Good(s), NEW t, NEW w \in Workers, OthersSame(s, t, w), SoundWorker(t.workers[w])
  PROVE  WorkersSound(t)
<1> SUFFICES ASSUME NEW v \in Workers
             PROVE  SoundWorker(t.workers[v])
  BY Zenon DEF WorkersSound
<1>1. CASE v = w
  BY <1>1, Zenon
<1>2. CASE v # w
  BY <1>2, Zenon DEF Good, WorkersSound, OthersSame
<1> QED BY <1>1, <1>2, Zenon

\* A worker changes its state and keeps its height, or keeps to have none.
LEMMA Retouch ==
  ASSUME NEW s, Good(s), NEW t \in Queues, NEW w \in Workers, OthersSame(s, t, w),
         t.workers[w].height = s.workers[w].height,
         SoundWorker(t.workers[w]),
         t.failed = s.failed, t.pending = s.pending, t.verifying = s.verifying,
         t.fetchHeight = s.fetchHeight, t.verifyHeight = s.verifyHeight,
         t.closed = s.closed, t.retries = s.retries, t.terminal = s.terminal,
         Lined(t.waiters, t, "waiting"), Lined(t.waiting, t, "popwait")
  PROVE  /\ Good(t) /\ \A X : Covered(s, X) => Covered(t, X)
         /\ \A h : Held(t, h) <=> Held(s, h)
<1>3. WorkersSound(t)
  BY PutSound, Zenon
<1>4. Placed(s, t)
  BY Zenon DEF Placed, OthersSame
<1>5. /\ InOnePlace(t) /\ Filed(t) /\ \A h : Held(t, h) <=> Held(s, h)
  BY <1>4, PlacedSame, Zenon DEF Good
<1>6. \A X : Covered(s, X) => Covered(t, X)
  BY <1>5, Zenon DEF Covered
<1> QED BY <1>3, <1>5, <1>6, Zenon DEF Good

\* A height that was allocated and is nowhere.
Loose(s, h) == h \in BfHeights /\ h > s.fetchHeight /\ h <= s.verifyHeight /\ ~Held(s, h)

\* A worker that has no height and does not wait gets it.
LEMMA Give ==
  ASSUME NEW s, Good(s), NEW h, Loose(s, h), Covered(s, {h}), NEW w \in Workers,
         s.workers[w].height = Nil, NotIn(w, s.waiters), NotIn(w, s.waiting),
         NEW t, t = Put(s, w, Worker("pop", h, Nil))
  PROVE  Good(t) /\ Covered(t, {})
<1>1. PICK x : x = Worker("pop", h, Nil)
  BY Zenon
<1>2. x.st = "pop" /\ x.height = h /\ x.peer = Nil /\ x \in WorkerTypes /\ h # Nil /\ h \in BfHeights
  BY <1>1, NotNil DEF Worker, WorkerTypes, Loose
<1>3. Sets(s, t, w, x)
  BY <1>1, <1>2, PutSets, Zenon DEF Good
<1>4. OthersSame(s, t, w) /\ t.workers[w] = x /\ t.workers[w].height = h /\ t \in Queues
  BY <1>2, <1>3, Zenon DEF Sets
<1>5. /\ t.failed = s.failed /\ t.pending = s.pending /\ t.verifying = s.verifying
      /\ t.fetchHeight = s.fetchHeight /\ t.verifyHeight = s.verifyHeight
      /\ t.closed = s.closed /\ t.retries = s.retries /\ t.terminal = s.terminal
  BY <1>3, Zenon DEF Sets
<1>6. WorkersSound(t)
  <2>1. ~Between(x) /\ ~HasPeer(x)
    BY <1>2 DEF Between, HasPeer
  <2>2. SoundWorker(x)
    BY <1>2, <2>1, Zenon DEF SoundWorker
  <2> QED BY <1>4, <2>2, PutSound, Zenon
<1>7. Lined(t.waiters, t, "waiting") /\ Lined(t.waiting, t, "popwait")
  BY <1>3, PutLined, Zenon
<1>8. Filed(t)
  BY <1>5, Zenon DEF Good, Filed
<1>14. OthersHave(s, t, w)
  BY <1>4, PutHeights, Zenon
<1>9. \A k : WithWorker(t, k) => WithWorker(s, k) \/ k = h
  BY <1>4, <1>14, Zenon DEF OthersHave
<1>10. WithWorker(t, h) /\ \A k \in BfHeights : WithWorker(s, k) => WithWorker(t, k)
  BY <1>4, <1>14, NotNil, Zenon DEF OthersHave
<1>11. \A k : AtVerifier(t, k) <=> AtVerifier(s, k)
  BY <1>5, Zenon DEF AtVerifier
<1>12. InOnePlace(t)
  <2>1. \A k \in BfHeights : Held(t, k) => k > t.fetchHeight /\ k <= t.verifyHeight
    BY <1>5, <1>9, <1>11, Zenon DEF Held, Good, InOnePlace, Loose
  <2>2. OwnHeights(t.workers)
    <3>1. \A v \in Workers : s.workers[v].height # h
      BY Zenon DEF Loose, Held, WithWorker
    <3>2. OwnHeights(s.workers)
      BY Zenon DEF Good, InOnePlace
    <3> SUFFICES ASSUME NEW u \in Workers, NEW v \in Workers, u # v,
                        t.workers[u].height = t.workers[v].height, t.workers[u].height # Nil
                 PROVE  FALSE
      BY Zenon DEF OwnHeights
    <3>3. CASE u = w
      BY <1>4, <3>1, <3>3, Zenon DEF OthersSame
    <3>4. CASE v = w
      BY <1>4, <3>1, <3>4, Zenon DEF OthersSame
    <3>5. CASE u # w /\ v # w
      <4>1. t.workers[u] = s.workers[u] /\ t.workers[v] = s.workers[v]
        BY <1>4, <3>5, Zenon DEF OthersSame
      <4> QED BY <3>2, <4>1, Zenon DEF OwnHeights
    <3> QED BY <3>3, <3>4, <3>5, Zenon
  <2>3. \A k \in BfHeights :
          /\ WithWorker(t, k) => k \notin t.failed /\ k \notin DOMAIN t.pending /\ ~AtVerifier(t, k)
          /\ k \in t.failed => k \notin DOMAIN t.pending /\ ~AtVerifier(t, k)
          /\ k \in DOMAIN t.pending => ~AtVerifier(t, k)
    BY <1>5, <1>9, <1>11, Zenon DEF Held, Good, InOnePlace, Loose
  <2>4. t.fetchHeight <= t.verifyHeight
    BY <1>5, Zenon DEF Good, InOnePlace
  <2> QED BY <2>1, <2>2, <2>3, <2>4, Zenon DEF InOnePlace
<1>13. Covered(t, {})
  <2>1. \A k \in BfHeights : Held(s, k) \/ k = h => Held(t, k)
    BY <1>5, <1>10, <1>11, Zenon DEF Held
  <2> QED BY <1>5, <2>1, Zenon DEF Covered
<1> QED BY <1>4, <1>5, <1>6, <1>7, <1>8, <1>12, <1>13, Zenon DEF Good

\* A worker gives up its height.
LEMMA Release ==
  ASSUME NEW s, Good(s), NEW w \in Workers, Busy(s.workers[w]),
         Covered(s, {}), NEW h, h = s.workers[w].height,
         NEW t, t = Put(s, w, IdleWorker)
  PROVE  Good(t) /\ Loose(t, h) /\ Covered(t, {h}) /\ t.workers[w] = IdleWorker
<1>1. PICK x : x = IdleWorker
  BY Zenon
<1>2. x.st = "idle" /\ x.height = Nil /\ x \in WorkerTypes
  BY <1>1 DEF IdleWorker, Worker, WorkerTypes
<1>3. Sets(s, t, w, x)
  BY <1>1, <1>2, PutSets, Zenon DEF Good
<1>4. OthersSame(s, t, w) /\ t.workers[w] = x /\ t.workers[w].height = Nil /\ t \in Queues
  BY <1>2, <1>3, Zenon DEF Sets
<1>5. /\ t.failed = s.failed /\ t.pending = s.pending /\ t.verifying = s.verifying
      /\ t.fetchHeight = s.fetchHeight /\ t.verifyHeight = s.verifyHeight
      /\ t.closed = s.closed /\ t.retries = s.retries /\ t.terminal = s.terminal
  BY <1>3, Zenon DEF Sets
<1>6. h \in BfHeights /\ h # Nil
  <2>1. ~Between(s.workers[w])
    BY DEF Busy, Between
  <2>2. s.workers[w].height # Nil
    BY <2>1, Zenon DEF Good, WorkersSound, SoundWorker
  <2>3. s.workers[w] \in WorkerTypes
    BY Fields, Zenon DEF Good
  <2>4. s.workers[w].height \in BfHeights \cup {Nil}
    BY <2>3, Zenon DEF WorkerTypes
  <2> QED BY <2>2, <2>4, Zenon
<1>7. WorkersSound(t)
  <2>1. Between(x) /\ ~HasPeer(x)
    BY <1>2 DEF Between, HasPeer
  <2>2. SoundWorker(x)
    BY <1>2, <2>1, Zenon DEF SoundWorker
  <2> QED BY <1>4, <2>2, PutSound, Zenon
<1>8. Lined(t.waiters, t, "waiting") /\ Lined(t.waiting, t, "popwait")
  <2>1. s.workers[w].st # "waiting" /\ s.workers[w].st # "popwait"
    BY DEF Busy
  <2>2. NotIn(w, s.waiters) /\ NotIn(w, s.waiting)
    BY <2>1, Zenon DEF Good, Lined, NotIn
  <2> QED BY <1>3, <2>2, PutLined, Zenon
<1>9. Filed(t)
  BY <1>5, Zenon DEF Good, Filed
<1>20. OthersHave(s, t, w)
  BY <1>4, PutHeights, Zenon
<1>10. \A k \in BfHeights : WithWorker(t, k) => WithWorker(s, k)
  BY <1>4, <1>20, NotNil, Zenon DEF OthersHave
<1>11. \A k \in BfHeights : WithWorker(s, k) => WithWorker(t, k) \/ k = h
  BY <1>20, Zenon DEF OthersHave
<1>12. OwnHeights(s.workers)
  BY Zenon DEF Good, InOnePlace
<1>13. ~WithWorker(t, h)
  <2>1. \A v \in Workers : v # w => s.workers[v].height # h
    BY <1>6, <1>12, Zenon DEF OwnHeights
  <2>2. ASSUME NEW v \in Workers PROVE t.workers[v].height # h
    BY <1>4, <1>6, <2>1, Zenon DEF OthersSame
  <2> QED BY <2>2, Zenon DEF WithWorker
<1>14. \A k : AtVerifier(t, k) <=> AtVerifier(s, k)
  BY <1>5, Zenon DEF AtVerifier
<1>15. \A k \in BfHeights : Held(t, k) => Held(s, k)
  BY <1>5, <1>10, <1>14, Zenon DEF Held
<1>16. InOnePlace(t)
  <2>1. OwnHeights(t.workers)
    <3> SUFFICES ASSUME NEW u \in Workers, NEW v \in Workers, t.workers[u].height # Nil,
                        t.workers[u].height = t.workers[v].height
                 PROVE  u = v
      BY Zenon DEF OwnHeights
    <3>1. u # w /\ v # w
      BY <1>4, Zenon
    <3>2. t.workers[u] = s.workers[u] /\ t.workers[v] = s.workers[v]
      BY <1>4, <3>1, Zenon DEF OthersSame
    <3> QED BY <1>12, <3>2, Zenon DEF OwnHeights
  <2>2. \A k \in BfHeights :
          /\ WithWorker(t, k) => k \notin t.failed /\ k \notin DOMAIN t.pending /\ ~AtVerifier(t, k)
          /\ k \in t.failed => k \notin DOMAIN t.pending /\ ~AtVerifier(t, k)
          /\ k \in DOMAIN t.pending => ~AtVerifier(t, k)
    BY <1>5, <1>10, <1>14, Zenon DEF Good, InOnePlace
  <2> QED BY <1>5, <1>15, <2>1, <2>2, Zenon DEF Good, InOnePlace
<1>17. WithWorker(s, h)
  BY Zenon DEF WithWorker
<1>18. Loose(t, h)
  BY <1>5, <1>6, <1>13, <1>14, <1>17, Zenon DEF Loose, Held, Good, InOnePlace
<1>19. Covered(t, {h})
  <2>1. \A k \in BfHeights : Held(s, k) => Held(t, k) \/ k = h
    BY <1>5, <1>11, <1>14, Zenon DEF Held
  <2> QED BY <1>5, <2>1, Zenon DEF Covered
<1> QED BY <1>1, <1>4, <1>5, <1>7, <1>8, <1>9, <1>16, <1>18, <1>19, Zenon DEF Good
\* The workers and where the heights are stay as they were.
LEMMA Control ==
  ASSUME NEW s, Good(s), NEW t \in Queues, t.workers = s.workers,
         t.failed = s.failed, t.pending = s.pending, t.verifying = s.verifying,
         t.fetchHeight = s.fetchHeight, t.verifyHeight = s.verifyHeight, t.terminal = s.terminal,
         Lined(t.waiters, s, "waiting"), Lined(t.waiting, s, "popwait"),
         t.closed = 0 => t.retries < MaxRetries /\ s.closed = 0
  PROVE  /\ Good(t) /\ \A X : Covered(s, X) => Covered(t, X)
         /\ \A h : Loose(s, h) => Loose(t, h)
<1>1. Placed(s, t)
  BY Zenon DEF Placed
<1>2. /\ InOnePlace(t) /\ Filed(t) /\ \A h : Held(t, h) <=> Held(s, h)
  BY <1>1, PlacedSame, Zenon DEF Good
<1>3. WorkersSound(t)
  BY Zenon DEF Good, WorkersSound
<1>4. \A ws, st : Lined(ws, s, st) => Lined(ws, t, st)
  BY Zenon DEF Lined
<1>5. \A X : Covered(s, X) => Covered(t, X)
  BY <1>2, Zenon DEF Covered
<1>6. \A h : Loose(s, h) => Loose(t, h)
  BY <1>2, Zenon DEF Loose
<1> QED BY <1>2, <1>3, <1>4, <1>5, <1>6, Zenon DEF Good

\* Workers and queues stay, heights move.
LEMMA Elsewhere ==
  ASSUME NEW s, Good(s), NEW t \in Queues, t.workers = s.workers,
         t.waiters = s.waiters, t.waiting = s.waiting,
         t.closed = 0 => t.retries < MaxRetries, Filed(t), InOnePlace(t)
  PROVE  Good(t)
<1>1. WorkersSound(t)
  BY Zenon DEF Good, WorkersSound
<1>2. \A ws, st : Lined(ws, s, st) => Lined(ws, t, st)
  BY Zenon DEF Lined
<1> QED BY <1>1, <1>2, Zenon DEF Good

\* A worker that does not wait is in no queue.
LEMMA InNoQueue ==
  ASSUME NEW s, Good(s), NEW w \in Workers, ~Queued(s.workers[w])
  PROVE  NotIn(w, s.waiters) /\ NotIn(w, s.waiting)
<1>1. s.workers[w].st # "waiting" /\ s.workers[w].st # "popwait"
  BY DEF Queued
<1> QED BY <1>1, Zenon DEF Good, Lined, NotIn

\* A worker that is in no queue changes its state.
LEMMA Turn ==
  ASSUME NEW s, Good(s), NEW w \in Workers, NotIn(w, s.waiters), NotIn(w, s.waiting),
         NEW x \in WorkerTypes, x.height = s.workers[w].height, SoundWorker(x),
         NEW t, t = Put(s, w, x)
  PROVE  Good(t) /\ (Covered(s, {}) => Covered(t, {}))
<1>1. Sets(s, t, w, x)
  BY PutSets, Zenon DEF Good
<1>2. Lined(t.waiters, t, "waiting") /\ Lined(t.waiting, t, "popwait")
  BY <1>1, PutLined, Zenon
<1>3. /\ t.failed = s.failed /\ t.pending = s.pending /\ t.verifying = s.verifying
      /\ t.fetchHeight = s.fetchHeight /\ t.verifyHeight = s.verifyHeight
      /\ t.closed = s.closed /\ t.retries = s.retries /\ t.terminal = s.terminal
  BY <1>1, Zenon DEF Sets
<1>4. /\ t \in Queues /\ OthersSame(s, t, w) /\ t.workers[w].height = s.workers[w].height
      /\ SoundWorker(t.workers[w])
  BY <1>1, Zenon DEF Sets
<1> QED BY <1>2, <1>3, <1>4, Retouch, Zenon
-------------------------------------------------------------------------------
\* Only the list of peers changes.
LEMMA PeersOnly ==
  ASSUME NEW s, Good(s), NEW q \in Seq(Nodes), NEW t, t = [s EXCEPT !.peers = q]
  PROVE  /\ Good(t) /\ \A X : Covered(s, X) => Covered(t, X)
         /\ \A h : Loose(s, h) => Loose(t, h)
         /\ t.workers = s.workers
<1>1. s \in Queues /\ (s.closed = 0 => s.retries < MaxRetries)
      /\ Lined(s.waiters, s, "waiting") /\ Lined(s.waiting, s, "popwait")
  BY Zenon DEF Good
<1>2. t \in Queues
  BY <1>1, ZenonT(60) DEF Queues
<1>3. /\ t.workers = s.workers /\ t.failed = s.failed /\ t.pending = s.pending
      /\ t.verifying = s.verifying /\ t.fetchHeight = s.fetchHeight
      /\ t.verifyHeight = s.verifyHeight /\ t.waiters = s.waiters /\ t.waiting = s.waiting
      /\ t.closed = s.closed /\ t.retries = s.retries /\ t.terminal = s.terminal
  BY <1>1, ZenonT(60) DEF Queues
<1> QED BY <1>1, <1>2, <1>3, Control, Zenon

\* A peer is removed from it, or is not there.
LEMMA RemovePeer ==
  ASSUME NEW s, Good(s), NEW p
  PROVE  Good(removePeer(s, p)) /\ \A X : Covered(s, X) => Covered(removePeer(s, p), X)
<1>1. CASE ~(\E i \in 1 .. Len(s.peers) : s.peers[i] = p)
  BY <1>1, Zenon DEF removePeer
<1>2. CASE \E i \in 1 .. Len(s.peers) : s.peers[i] = p
  <2>1. PICK k \in 1 .. Len(s.peers) : k = CHOOSE i \in 1 .. Len(s.peers) : s.peers[i] = p
    BY <1>2, Zenon
  <2>2. PICK r \in Seq(Nodes) : r = s.peers
    BY Fields, Zenon DEF Good
  <2>3. SubSeq(r, 1, k - 1) \o SubSeq(r, k + 1, Len(r)) \in Seq(Nodes)
    <3>1. SubSeq(r, 1, k - 1) \in Seq(Nodes) /\ SubSeq(r, k + 1, Len(r)) \in Seq(Nodes)
      BY <2>2
    <3> QED BY <3>1
  <2>4. PICK q \in Seq(Nodes) : q = SubSeq(s.peers, 1, k - 1) \o SubSeq(s.peers, k + 1, Len(s.peers))
    BY <2>2, <2>3, Zenon
  <2>5. removePeer(s, p) = [s EXCEPT !.peers = q]
    BY <1>2, <2>1, <2>4, Zenon DEF removePeer
  <2> QED BY <2>5, PeersOnly, Zenon
<1> QED BY <1>1, <1>2, Zenon

\* A peer goes to the worker that waits first, or to the list.
LEMMA AppendPeer ==
  ASSUME NEW s, Good(s), NEW p \in Nodes, Covered(s, {})
  PROVE  /\ Good(appendPeer(s, p)) /\ Covered(appendPeer(s, p), {})
         /\ \A w \in Workers : s.workers[w].st # "popwait" =>
               appendPeer(s, p).workers[w] = s.workers[w]
<1>1. s \in Queues /\ s.peers \in Seq(Nodes) /\ s.waiting \in Seq(Workers)
      /\ s.waiters \in Seq(Workers) /\ s.workers \in [Workers -> WorkerTypes]
  BY Fields, Zenon DEF Good
<1>2. CASE s.waiting = <<>>
  <2>1. PICK r \in Seq(Nodes) : r = s.peers
    BY <1>1, Zenon
  <2>2. Append(r, p) \in Seq(Nodes)
    BY <2>1
  <2>3. PICK q \in Seq(Nodes) : q = Append(s.peers, p)
    BY <2>1, <2>2, Zenon
  <2>4. appendPeer(s, p) = [s EXCEPT !.peers = q]
    BY <1>2, <2>3, Zenon DEF appendPeer
  <2> QED BY <2>4, PeersOnly, Zenon
<1>3. CASE s.waiting # <<>>
  <2>1. Lined(s.waiters, s, "waiting") /\ Lined(s.waiting, s, "popwait")
        /\ (s.closed = 0 => s.retries < MaxRetries)
    BY Zenon DEF Good
  <2>2. /\ Head(s.waiting) \in Workers /\ s.workers[Head(s.waiting)].st = "popwait"
        /\ Tail(s.waiting) \in Seq(Workers) /\ Lined(Tail(s.waiting), s, "popwait")
        /\ NotIn(Head(s.waiting), Tail(s.waiting))
    BY <1>1, <1>3, <2>1, LinedTail, Zenon
  <2>3. PICK w \in Workers : w = Head(s.waiting) /\ s.workers[w].st = "popwait"
    BY <2>2, Zenon
  <2>4. PICK q \in Seq(Workers) : q = Tail(s.waiting) /\ Lined(q, s, "popwait") /\ NotIn(w, q)
    BY <2>2, <2>3, Zenon
  <2>5. PICK y \in WorkerTypes : y = s.workers[w]
    BY <1>1, Zenon
  <2>6. PICK x \in WorkerTypes : /\ x = [y EXCEPT !.st = "ready", !.peer = p]
                                 /\ x.height = y.height /\ x.st = "ready" /\ x.peer = p
    <3>1. PICK x : x = [y EXCEPT !.st = "ready", !.peer = p]
      BY Zenon
    <3>2. x \in WorkerTypes
      BY <3>1, Zenon DEF WorkerTypes
    <3>3. x.height = y.height /\ x.st = "ready" /\ x.peer = p
      BY <3>1 DEF WorkerTypes
    <3> QED BY <3>1, <3>2, <3>3, Zenon
  <2>7. PICK u : u = [s EXCEPT !.waiting = q]
    BY Zenon
  <2>8. u \in Queues
    BY <1>1, <2>7, ZenonT(60) DEF Queues
  <2>9. /\ u.workers = s.workers /\ u.failed = s.failed /\ u.pending = s.pending
        /\ u.verifying = s.verifying /\ u.fetchHeight = s.fetchHeight
        /\ u.verifyHeight = s.verifyHeight /\ u.waiters = s.waiters /\ u.waiting = q
        /\ u.closed = s.closed /\ u.retries = s.retries /\ u.terminal = s.terminal
    BY <1>1, <2>7, ZenonT(60) DEF Queues
  <2>10. Good(u) /\ Covered(u, {})
    BY <2>1, <2>4, <2>8, <2>9, Control, Zenon
  <2>11. NotIn(w, u.waiters) /\ NotIn(w, u.waiting)
    <3>1. s.workers[w].st # "waiting"
      BY <2>3
    <3>2. NotIn(w, s.waiters)
      BY <2>1, <3>1, Zenon DEF Lined, NotIn
    <3> QED BY <2>4, <2>9, <3>2, Zenon
  <2>12. SoundWorker(x)
    <3>1. ~Between(y) /\ ~Between(x)
      BY <2>3, <2>5, <2>6 DEF Between
    <3>2. SoundWorker(y)
      BY <2>5, Zenon DEF Good, WorkersSound
    <3> QED BY <2>6, <3>1, <3>2, Zenon DEF SoundWorker
  <2>13. PICK t : t = Put(u, w, x)
    BY Zenon
  <2>14. Good(t) /\ Covered(t, {})
    <3>1. x.height = u.workers[w].height
      BY <2>5, <2>6, <2>9, Zenon
    <3> QED BY <2>10, <2>11, <2>12, <2>13, <3>1, Turn, Zenon
  <2>15. OthersSame(s, t, w)
    <3>1. Sets(u, t, w, x)
      BY <2>8, <2>13, PutSets, Zenon
    <3> QED BY <2>9, <3>1, Zenon DEF Sets, OthersSame
  <2>16. t = appendPeer(s, p)
    <3>1. appendPeer(s, p) = [s EXCEPT !.waiting = q, !.workers[w] = x]
      BY <1>1, <1>3, <2>3, <2>4, <2>5, <2>6, Zenon DEF appendPeer
    <3> QED BY <2>7, <2>13, <3>1, Zenon DEF Put
  <2> QED BY <2>3, <2>14, <2>15, <2>16, Zenon DEF OthersSame
<1> QED BY <1>2, <1>3, Zenon

\* The retry of a height that is nowhere.
LEMMA RetryGood ==
  ASSUME NEW s, Good(s), NEW h, Loose(s, h), Covered(s, {h})
  PROVE  Good(retry(s, h)) /\ Covered(retry(s, h), {})
<1>1. CASE s.closed > 0 \/ (s.terminal # Nil /\ h < s.terminal)
  <2>1. retry(s, h) = s
    BY <1>1, Zenon DEF retry
  <2>2. s.closed > 0 => s.closed # 0
    OBVIOUS
  <2>3. Covered(s, {})
    BY <1>1, <2>2, Zenon DEF Covered
  <2> QED BY <2>1, <2>3, Zenon
<1>2. CASE ~(s.closed > 0 \/ (s.terminal # Nil /\ h < s.terminal))
  <2>1. /\ s \in Queues /\ s.retries \in 0 .. MaxRetries /\ s.closed \in Nat /\ h \in BfHeights
        /\ s.waiters \in Seq(Workers) /\ s.waiting \in Seq(Workers) /\ s.failed \in SUBSET BfHeights
        /\ Lined(s.waiters, s, "waiting") /\ Lined(s.waiting, s, "popwait")
    BY Fields, Zenon DEF Good, Loose
  <2>2. s.closed = 0
    BY <1>2, <2>1
  <2>3. s.retries < MaxRetries
    BY <2>2, Zenon DEF Good
  <2>4. PICK n \in 0 .. MaxRetries : n = s.retries + 1
    BY <2>1, <2>3, BackfillAssumption
  <2>5. CASE s.retries + 1 >= MaxRetries
    <3>1. PICK c \in Nat : c = s.closed + 1 /\ c # 0
      BY <2>1
    <3>2. PICK t : t = [s EXCEPT !.retries = n, !.closed = c]
      BY Zenon
    <3>3. t = retry(s, h)
      BY <1>2, <2>4, <2>5, <3>1, <3>2, Zenon DEF retry
    <3>4. t \in Queues
      BY <2>1, <3>2, ZenonT(60) DEF Queues
    <3>5. /\ t.workers = s.workers /\ t.failed = s.failed /\ t.pending = s.pending
          /\ t.verifying = s.verifying /\ t.fetchHeight = s.fetchHeight
          /\ t.verifyHeight = s.verifyHeight /\ t.terminal = s.terminal /\ t.waiters = s.waiters
          /\ t.waiting = s.waiting /\ t.closed = c
      BY <2>1, <3>2, ZenonT(60) DEF Queues
    <3>6. Good(t)
      BY <2>1, <3>1, <3>4, <3>5, Control, Zenon
    <3>7. Covered(t, {})
      BY <3>1, <3>5, Zenon DEF Covered
    <3> QED BY <3>3, <3>6, <3>7, Zenon
  <2>6. CASE ~(s.retries + 1 >= MaxRetries)
    <3>1. n < MaxRetries
      BY <2>1, <2>4, <2>6, BackfillAssumption
    <3>2. CASE s.waiters # <<>>
      <4>1. /\ Head(s.waiters) \in Workers /\ s.workers[Head(s.waiters)].st = "waiting"
            /\ Tail(s.waiters) \in Seq(Workers) /\ Lined(Tail(s.waiters), s, "waiting")
            /\ NotIn(Head(s.waiters), Tail(s.waiters))
        BY <2>1, <3>2, LinedTail, Zenon
      <4>2. PICK w \in Workers : w = Head(s.waiters)
        BY <4>1, Zenon
      <4>3. PICK q \in Seq(Workers) : q = Tail(s.waiters)
        BY <4>1, Zenon
      <4>4. PICK t : t = [s EXCEPT !.retries = n, !.waiters = q]
        BY Zenon
      <4>5. t \in Queues
        BY <2>1, <4>4, ZenonT(60) DEF Queues
      <4>6. /\ t.workers = s.workers /\ t.failed = s.failed /\ t.pending = s.pending
            /\ t.verifying = s.verifying /\ t.fetchHeight = s.fetchHeight
            /\ t.verifyHeight = s.verifyHeight /\ t.terminal = s.terminal /\ t.waiters = q
            /\ t.waiting = s.waiting /\ t.closed = s.closed /\ t.retries = n
        BY <2>1, <4>4, ZenonT(60) DEF Queues
      <4>7. Lined(t.waiters, s, "waiting") /\ Lined(t.waiting, s, "popwait")
        BY <2>1, <4>1, <4>3, <4>6, Zenon
      <4>8. Good(t) /\ Covered(t, {h}) /\ Loose(t, h)
        BY <2>2, <3>1, <4>5, <4>6, <4>7, Control, Zenon
      <4>9. NotIn(w, t.waiters)
        BY <4>1, <4>2, <4>3, <4>6, Zenon
      <4>10. NotIn(w, t.waiting)
        <5>1. s.workers[w].st # "popwait"
          BY <4>1, <4>2
        <5>2. NotIn(w, s.waiting)
          BY <2>1, <5>1, Zenon DEF Lined, NotIn
        <5> QED BY <4>6, <5>2, Zenon
      <4>11. t.workers[w].height = Nil
        <5>1. Between(s.workers[w])
          BY <4>1, <4>2 DEF Between
        <5> QED BY <4>6, <5>1, Zenon DEF Good, WorkersSound, SoundWorker
      <4>12. PICK u : u = Put(t, w, Worker("pop", h, Nil))
        BY Zenon
      <4>13. Good(u) /\ Covered(u, {})
        BY <4>8, <4>9, <4>10, <4>11, <4>12, Give, Zenon
      <4>14. u = retry(s, h)
        <5>1. retry(s, h) = [s EXCEPT !.retries = n, !.waiters = q, !.workers[w] = Worker("pop", h, Nil)]
          BY <1>2, <2>4, <2>6, <3>2, <4>2, <4>3, Zenon DEF retry
        <5> QED BY <4>4, <4>12, <5>1, Zenon DEF Put
      <4> QED BY <4>13, <4>14, Zenon
    <3>3. CASE s.waiters = <<>>
      <4>1. PICK F \in SUBSET BfHeights : F = s.failed \cup {h}
        BY <2>1, Zenon
      <4>2. PICK t : t = [s EXCEPT !.retries = n, !.failed = F]
        BY Zenon
      <4>3. t = retry(s, h)
        BY <1>2, <2>4, <2>6, <3>3, <4>1, <4>2, Zenon DEF retry
      <4>4. t \in Queues
        BY <2>1, <4>2, ZenonT(60) DEF Queues
      <4>5. /\ t.workers = s.workers /\ t.failed = F /\ t.pending = s.pending
            /\ t.verifying = s.verifying /\ t.fetchHeight = s.fetchHeight
            /\ t.verifyHeight = s.verifyHeight /\ t.terminal = s.terminal /\ t.waiters = s.waiters
            /\ t.waiting = s.waiting /\ t.closed = s.closed /\ t.retries = n
        BY <2>1, <4>2, ZenonT(60) DEF Queues
      <4>6. \A k : /\ WithWorker(t, k) <=> WithWorker(s, k)
                   /\ AtVerifier(t, k) <=> AtVerifier(s, k)
                   /\ k \in t.failed <=> k \in s.failed \/ k = h
        BY <4>1, <4>5, Zenon DEF WithWorker, AtVerifier
      <4>7. \A k : Held(t, k) <=> Held(s, k) \/ k = h
        BY <4>5, <4>6, Zenon DEF Held
      <4>8. InOnePlace(t)
        <5>1. \A k \in BfHeights : Held(t, k) => k > t.fetchHeight /\ k <= t.verifyHeight
          BY <4>5, <4>7, Zenon DEF Good, InOnePlace, Loose
        <5>2. \A k \in BfHeights :
                /\ WithWorker(t, k) => k \notin t.failed /\ k \notin DOMAIN t.pending /\ ~AtVerifier(t, k)
                /\ k \in t.failed => k \notin DOMAIN t.pending /\ ~AtVerifier(t, k)
                /\ k \in DOMAIN t.pending => ~AtVerifier(t, k)
          BY <4>5, <4>6, Zenon DEF Held, Good, InOnePlace, Loose
        <5> QED BY <4>5, <5>1, <5>2, Zenon DEF Good, InOnePlace
      <4>9. Filed(t)
        BY <4>5, Zenon DEF Good, Filed
      <4>10. Good(t)
        BY <3>1, <4>4, <4>5, <4>8, <4>9, Elsewhere, Zenon
      <4>11. Covered(t, {})
        BY <4>5, <4>7, Zenon DEF Covered
      <4> QED BY <4>3, <4>10, <4>11, Zenon
    <3> QED BY <3>2, <3>3, Zenon
  <2> QED BY <2>5, <2>6, Zenon
<1> QED BY <1>1, <1>2, Zenon

\* A block that was fetched, of a height that is nowhere.
LEMMA AddGood ==
  ASSUME NEW s, Good(s), NEW r \in LightBlocks, Loose(s, r.height), Covered(s, {r.height})
  PROVE  Good(add(s, r)) /\ Covered(add(s, r), {})
<1>1. CASE s.closed > 0 \/ (s.terminal # Nil /\ r.height < s.terminal)
  <2>1. add(s, r) = s
    BY <1>1, Zenon DEF add
  <2>2. s.closed > 0 => s.closed # 0
    OBVIOUS
  <2>3. Covered(s, {})
    BY <1>1, <2>2, Zenon DEF Covered
  <2> QED BY <2>1, <2>3, Zenon
<1>2. CASE ~(s.closed > 0 \/ (s.terminal # Nil /\ r.height < s.terminal))
  <2>1. /\ s \in Queues /\ s.closed \in Nat /\ s.terminal \in BfHeights \cup {Nil}
        /\ DOMAIN s.pending \in SUBSET BfHeights /\ s.pending \in [DOMAIN s.pending -> LightBlocks]
    BY Fields, Zenon DEF Good
  <2>2. s.closed = 0
    BY <1>2, <2>1
  <2>3. s.retries < MaxRetries
    BY <2>2, Zenon DEF Good
  <2>4. PICK h \in BfHeights : h = r.height
    BY Zenon DEF Loose
  <2>5. PICK D \in SUBSET BfHeights : D = DOMAIN s.pending \cup {h}
    BY <2>1, Zenon
  <2>6. PICK f : f = [k \in D |-> IF k = h THEN r ELSE s.pending[k]]
    BY Zenon
  <2>7. /\ f \in UNION {[S -> LightBlocks] : S \in SUBSET BfHeights} /\ DOMAIN f = D
        /\ f[h] = r /\ \A k \in DOMAIN s.pending : k # h => f[k] = s.pending[k]
    <3>1. f \in [D -> LightBlocks]
      BY <2>1, <2>5, <2>6, Zenon
    <3>2. f[h] = r /\ \A k \in DOMAIN s.pending : k # h => f[k] = s.pending[k]
      BY <2>5, <2>6, Zenon
    <3> QED BY <3>1, <3>2, Zenon
  <2>8. PICK m \in BfHeights \cup {Nil} : m = IF \/ h <= StopHeight /\ Old(r.block, h)
                                                \/ h = InitialHeight
                                             THEN h ELSE s.terminal
    BY <2>1, Zenon
  <2>9. PICK t : t = [s EXCEPT !.pending = f, !.terminal = m]
    BY Zenon
  <2>10. t = add(s, r)
    BY <1>2, <2>4, <2>5, <2>6, <2>8, <2>9, Zenon DEF add
  <2>11. t \in Queues
    BY <2>1, <2>7, <2>9, ZenonT(60) DEF Queues
  <2>12. /\ t.workers = s.workers /\ t.failed = s.failed /\ t.pending = f
         /\ t.verifying = s.verifying /\ t.fetchHeight = s.fetchHeight
         /\ t.verifyHeight = s.verifyHeight /\ t.terminal = m /\ t.waiters = s.waiters
         /\ t.waiting = s.waiting /\ t.closed = s.closed /\ t.retries = s.retries
    BY <2>1, <2>9, ZenonT(60) DEF Queues
  <2>13. \A k : /\ WithWorker(t, k) <=> WithWorker(s, k)
                /\ AtVerifier(t, k) <=> AtVerifier(s, k)
                /\ k \in DOMAIN t.pending <=> k \in DOMAIN s.pending \/ k = h
    BY <2>5, <2>7, <2>12, Zenon DEF WithWorker, AtVerifier
  <2>14. \A k : Held(t, k) <=> Held(s, k) \/ k = h
    BY <2>12, <2>13, Zenon DEF Held
  <2>15. InOnePlace(t)
    <3>1. \A k \in BfHeights : Held(t, k) => k > t.fetchHeight /\ k <= t.verifyHeight
      BY <2>4, <2>12, <2>14, Zenon DEF Good, InOnePlace, Loose
    <3>2. \A k \in BfHeights :
            /\ WithWorker(t, k) => k \notin t.failed /\ k \notin DOMAIN t.pending /\ ~AtVerifier(t, k)
            /\ k \in t.failed => k \notin DOMAIN t.pending /\ ~AtVerifier(t, k)
            /\ k \in DOMAIN t.pending => ~AtVerifier(t, k)
      BY <2>4, <2>12, <2>13, Zenon DEF Held, Good, InOnePlace, Loose
    <3>3. /\ t.fetchHeight <= t.verifyHeight
          /\ OwnHeights(t.workers)
      <4>1. /\ s.fetchHeight <= s.verifyHeight
            /\ OwnHeights(s.workers)
        BY Zenon DEF Good, InOnePlace
      <4> QED BY <2>12, <4>1, Zenon
    <3> QED BY <3>1, <3>2, <3>3, Zenon DEF InOnePlace
  <2>16. Filed(t)
    <3>1. \A k \in DOMAIN s.pending : s.pending[k].height = k
      BY Zenon DEF Good, Filed
    <3>2. \A k \in DOMAIN t.pending : t.pending[k].height = k
      <4> SUFFICES ASSUME NEW k \in DOMAIN t.pending PROVE f[k].height = k
        BY <2>12, Zenon
      <4>1. CASE k = h
        BY <2>4, <2>7, <4>1, Zenon
      <4>2. CASE k # h
        <5>1. k \in DOMAIN s.pending
          BY <2>13, <4>2, Zenon
        <5> QED BY <2>7, <3>1, <4>2, <5>1, Zenon
      <4> QED BY <4>1, <4>2, Zenon
    <3>3. t.verifying # Nil => t.verifying.height = t.verifyHeight
      BY <2>12, Zenon DEF Good, Filed
    <3> QED BY <3>2, <3>3, Zenon DEF Filed
  <2>17. Good(t)
    BY <2>3, <2>11, <2>12, <2>15, <2>16, Elsewhere, Zenon
  <2>18. \A k \in BfHeights : s.terminal # Nil /\ k < s.terminal => m # Nil /\ k < m
    <3>1. s.terminal # Nil => h \in Int /\ s.terminal \in Int /\ ~(h < s.terminal)
      BY <1>2, <2>1, <2>4, NotNil, Zenon
    <3>2. s.terminal # Nil => \A k \in BfHeights : k < s.terminal => k < h
      BY <3>1, NotNil
    <3> QED BY <2>8, <3>2, NotNil, Zenon
  <2>19. Covered(t, {})
    BY <2>4, <2>12, <2>14, <2>18, Zenon DEF Covered
  <2> QED BY <2>10, <2>17, <2>19, Zenon
<1> QED BY <1>1, <1>2, Zenon

\* What is verified and stored stays, the queue is closed for want of retries only, and
\* no worker makes a call.
Kept(s, t) ==
  /\ t.headers = s.headers /\ t.verifyHeight = s.verifyHeight
  /\ t.lastValidatorSet = s.lastValidatorSet /\ t.lastChangeHeight = s.lastChangeHeight
  /\ t.closed > 0 /\ t.retries < MaxRetries =>
       s.closed > 0 /\ s.retries < MaxRetries /\ t.terminal = s.terminal /\ t.verifying = s.verifying
  /\ \A w \in Workers : InCall(t.workers[w]) =>
       InCall(s.workers[w]) /\ t.workers[w].peer = s.workers[w].peer

\* Such a step keeps the parts of the invariant that are about the store and the calls.
LEMMA KeptStored ==
  ASSUME NEW s, NEW t, Kept(s, t)
  PROVE  /\ \A saved : Stored(s, saved) => Stored(t, saved)
         /\ ClosedRight(s) => ClosedRight(t)
         /\ \A D : CallsOwned(s, D) => CallsOwned(t, D)
<1>1. \A saved : Stored(s, saved) => Stored(t, saved)
  BY Zenon DEF Kept, Stored
<1>2. ClosedRight(s) => ClosedRight(t)
  BY Zenon DEF Kept, ClosedRight
<1>3. \A D : CallsOwned(s, D) => CallsOwned(t, D)
  BY Zenon DEF Kept, CallsOwned
<1> QED BY <1>1, <1>2, <1>3, Zenon

\* Two steps that keep what is stored.
LEMMA KeptChain ==
  ASSUME NEW s, NEW t, NEW u, Kept(s, t), Kept(t, u)
  PROVE  Kept(s, u)
<1>1. \A w \in Workers : InCall(u.workers[w]) =>
        InCall(s.workers[w]) /\ u.workers[w].peer = s.workers[w].peer
  BY Zenon DEF Kept
<1> QED BY <1>1, Zenon DEF Kept

\* The fields of bf that Kept speaks of, but for the workers.
Saved(s) == <<s.headers, s.verifyHeight, s.lastValidatorSet, s.lastChangeHeight>>
Ended(s) == <<s.closed, s.retries, s.terminal, s.verifying>>

\* A step of one worker that makes no call.
LEMMA KeptWorkers ==
  ASSUME NEW s \in Queues, NEW t, Saved(t) = Saved(s), NEW v, NEW x, ~InCall(x),
         \/ t.workers = s.workers \/ t.workers = [s.workers EXCEPT ![v] = x],
         Ended(t) = Ended(s) \/ ~(t.closed > 0 /\ t.retries < MaxRetries)
  PROVE  Kept(s, t)
<1>1. s.workers \in [Workers -> WorkerTypes]
  BY Fields, Zenon
<1>2. /\ t.headers = s.headers /\ t.verifyHeight = s.verifyHeight
      /\ t.lastValidatorSet = s.lastValidatorSet /\ t.lastChangeHeight = s.lastChangeHeight
  BY DEF Saved
<1>3. t.closed > 0 /\ t.retries < MaxRetries =>
        s.closed > 0 /\ s.retries < MaxRetries /\ t.terminal = s.terminal /\ t.verifying = s.verifying
  BY DEF Ended
<1>4. ASSUME NEW w \in Workers, InCall(t.workers[w])
      PROVE  InCall(s.workers[w]) /\ t.workers[w].peer = s.workers[w].peer
  <2>1. CASE t.workers = s.workers
    BY <1>4, <2>1, Zenon
  <2>2. CASE t.workers = [s.workers EXCEPT ![v] = x]
    <3>1. v = w => t.workers[w] = x
      BY <1>1, <2>2, Zenon
    <3>2. v # w => t.workers[w] = s.workers[w]
      BY <1>1, <2>2, Zenon
    <3> QED BY <1>4, <3>1, <3>2, Zenon
  <2> QED BY <2>1, <2>2, Zenon
<1> QED BY <1>2, <1>3, <1>4, Zenon DEF Kept

\* removePeer, retry, add, and a worker that makes no call.
LEMMA KeptSteps ==
  ASSUME NEW s \in Queues
  PROVE  /\ \A p : Kept(s, removePeer(s, p))
         /\ \A w, x : ~InCall(x) => Kept(s, Put(s, w, x))
         /\ \A h : Kept(s, retry(s, h))
         /\ \A r : Kept(s, add(s, r))
<1>0. Kept(s, s)
  BY Zenon DEF Kept
<1>1. ~InCall(IdleWorker) /\ \A h : ~InCall(Worker("pop", h, Nil))
  BY DEF InCall, IdleWorker, Worker
<1>2. ASSUME NEW p PROVE Kept(s, removePeer(s, p))
  <2>1. PICK t : t = removePeer(s, p)
    BY Zenon
  <2>2. Saved(t) = Saved(s) /\ Ended(t) = Ended(s) /\ t.workers = s.workers
    BY <2>1, ZenonT(60) DEF Saved, Ended, removePeer, Queues
  <2> QED BY <1>1, <2>1, <2>2, KeptWorkers, Zenon
<1>3. ASSUME NEW w, NEW x, ~InCall(x) PROVE Kept(s, Put(s, w, x))
  <2>1. PICK t : t = Put(s, w, x)
    BY Zenon
  <2>2. Saved(t) = Saved(s) /\ Ended(t) = Ended(s) /\ t.workers = [s.workers EXCEPT ![w] = x]
    BY <2>1, ZenonT(60) DEF Saved, Ended, Queues, Put
  <2> QED BY <1>3, <2>1, <2>2, KeptWorkers, Zenon
<1>4. ASSUME NEW h PROVE Kept(s, retry(s, h))
  <2>1. CASE s.closed > 0 \/ (s.terminal # Nil /\ h < s.terminal)
    BY <1>0, <2>1, Zenon DEF retry
  <2>2. CASE ~(s.closed > 0 \/ (s.terminal # Nil /\ h < s.terminal)) /\ s.retries + 1 >= MaxRetries
    <3>1. PICK n : n = s.retries + 1
      BY Zenon
    <3>2. ~(n < MaxRetries)
      <4>1. n \in Nat
        BY <3>1, Fields
      <4> QED BY <2>2, <3>1, <4>1, BackfillAssumption
    <3>3. PICK t : t = [s EXCEPT !.retries = n, !.closed = @ + 1]
      BY Zenon
    <3>4. t = retry(s, h)
      BY <2>2, <3>1, <3>3, Zenon DEF retry
    <3>5. Saved(t) = Saved(s) /\ t.retries = n /\ t.workers = s.workers
      BY <3>3, ZenonT(60) DEF Saved, Queues
    <3> QED BY <1>1, <3>2, <3>4, <3>5, KeptWorkers, Zenon
  <2>3. CASE ~(s.closed > 0 \/ (s.terminal # Nil /\ h < s.terminal)) /\ ~(s.retries + 1 >= MaxRetries)
    <3>1. CASE s.waiters # <<>>
      <4>1. PICK t : t = retry(s, h)
        BY Zenon
      <4>2. PICK w : w = Head(s.waiters)
        BY Zenon
      <4>3. PICK x : x = Worker("pop", h, Nil)
        BY Zenon
      <4>4. Saved(t) = Saved(s) /\ t.closed = s.closed /\ t.workers = [s.workers EXCEPT ![w] = x]
        BY <2>3, <3>1, <4>1, <4>2, <4>3, ZenonT(60) DEF Saved, retry, Queues
      <4> QED BY <1>1, <2>3, <4>1, <4>3, <4>4, KeptWorkers, Zenon
    <3>2. CASE s.waiters = <<>>
      <4>1. PICK t : t = retry(s, h)
        BY Zenon
      <4>2. Saved(t) = Saved(s) /\ t.closed = s.closed /\ t.workers = s.workers
        BY <2>3, <3>2, <4>1, ZenonT(60) DEF Saved, retry, Queues
      <4> QED BY <1>1, <2>3, <4>1, <4>2, KeptWorkers, Zenon
    <3> QED BY <3>1, <3>2, Zenon
  <2> QED BY <2>1, <2>2, <2>3, Zenon
<1>5. ASSUME NEW r PROVE Kept(s, add(s, r))
  <2>1. CASE s.closed > 0 \/ (s.terminal # Nil /\ r.height < s.terminal)
    BY <1>0, <2>1, Zenon DEF add
  <2>2. CASE ~(s.closed > 0 \/ (s.terminal # Nil /\ r.height < s.terminal))
    <3>1. PICK t : t = add(s, r)
      BY Zenon
    <3>2. Saved(t) = Saved(s) /\ t.closed = s.closed /\ t.workers = s.workers
      BY <2>2, <3>1, ZenonT(60) DEF Saved, add, Queues
    <3> QED BY <1>1, <2>2, <3>1, <3>2, KeptWorkers, Zenon
  <2> QED BY <2>1, <2>2, Zenon
<1> QED BY <1>2, <1>3, <1>4, <1>5, Zenon

\* A worker waits, for a height or for a peer.
LEMMA Wait ==
  ASSUME NEW s, Good(s), Covered(s, {}), NEW w \in Workers
  PROVE  /\ \A t : s.workers[w].st = "idle" /\ t = [s EXCEPT !.waiters = Append(@, w), !.workers[w].st = "waiting"]
              => Good(t) /\ Covered(t, {}) /\ Kept(s, t)
         /\ \A t : s.workers[w].st = "pop" /\ t = [s EXCEPT !.waiting = Append(@, w), !.workers[w].st = "popwait"]
              => Good(t) /\ Covered(t, {}) /\ Kept(s, t)
<1>1. s \in Queues /\ s.workers \in [Workers -> WorkerTypes] /\ s.workers[w] \in WorkerTypes
      /\ s.waiters \in Seq(Workers) /\ s.waiting \in Seq(Workers)
  BY Fields, Zenon DEF Good
<1>2. ASSUME NEW t, s.workers[w].st = "idle",
             t = [s EXCEPT !.waiters = Append(@, w), !.workers[w].st = "waiting"]
      PROVE  Good(t) /\ Covered(t, {}) /\ Kept(s, t)
  <2>1. PICK x : x = [s.workers[w] EXCEPT !.st = "waiting"]
    BY Zenon
  <2>2. x \in WorkerTypes /\ x.st = "waiting" /\ x.height = s.workers[w].height
    <3>1. PICK y \in WorkerTypes : y = s.workers[w]
      BY <1>1, Zenon
    <3> QED BY <2>1, <3>1 DEF WorkerTypes
  <2>3. /\ ~Queued(s.workers[w]) /\ Between(s.workers[w])
        /\ Between(x) /\ ~HasPeer(x)
    BY <1>2, <2>2 DEF Queued, Between, HasPeer
  <2>4. SoundWorker(x)
    BY <2>2, <2>3, Zenon DEF Good, WorkersSound, SoundWorker
  <2>5. PICK u : u = Put(s, w, x)
    BY Zenon
  <2>6. /\ Good(u) /\ Covered(u, {}) /\ u.workers[w] = x /\ u.waiters = s.waiters
        /\ NotIn(w, s.waiters)
    <3>1. NotIn(w, s.waiters) /\ NotIn(w, s.waiting)
      BY <2>3, InNoQueue, Zenon
    <3>2. Good(u) /\ Covered(u, {})
      BY <2>2, <2>4, <2>5, <3>1, Turn, Zenon
    <3>4. u.waiters = s.waiters /\ u.workers = [s.workers EXCEPT ![w] = x]
      BY <1>1, <2>5, ZenonT(60) DEF Put, Queues
    <3>5. u.workers[w] = x
      BY <1>1, <3>4, Zenon
    <3> QED BY <3>1, <3>2, <3>4, <3>5, Zenon
  <2>7. u \in Queues /\ Lined(u.waiters, u, "waiting") /\ Lined(u.waiting, u, "popwait")
    BY <2>6, Zenon DEF Good
  <2>8. PICK q \in Seq(Workers) : q = Append(u.waiters, w) /\ Lined(q, u, "waiting")
    BY <1>1, <2>2, <2>6, <2>7, LinedAppend, Zenon
  <2>9. t = [u EXCEPT !.waiters = q]
    BY <1>2, <2>1, <2>5, <2>6, <2>8, Zenon DEF Put
  <2>10. t \in Queues
    BY <2>7, <2>8, <2>9, ZenonT(60) DEF Queues
  <2>11. /\ t.workers = u.workers /\ t.failed = u.failed /\ t.pending = u.pending
         /\ t.verifying = u.verifying /\ t.fetchHeight = u.fetchHeight
         /\ t.verifyHeight = u.verifyHeight /\ t.terminal = u.terminal /\ t.waiters = q
         /\ t.waiting = u.waiting /\ t.closed = u.closed /\ t.retries = u.retries
    BY <2>7, <2>9, ZenonT(60) DEF Queues
  <2>12. u.closed = 0 => u.retries < MaxRetries
    BY <2>6, Zenon DEF Good
  <2>13. Good(t) /\ \A X : Covered(u, X) => Covered(t, X)
    BY <2>6, <2>7, <2>8, <2>10, <2>11, <2>12, Control, Zenon
  <2>14. Kept(s, t)
    <3>1. ~InCall(x)
      BY <2>2 DEF InCall
    <3>2. Saved(u) = Saved(s) /\ Ended(u) = Ended(s) /\ u.workers = [s.workers EXCEPT ![w] = x]
      BY <1>1, <2>5, ZenonT(60) DEF Saved, Ended, Queues, Put
    <3>3. Saved(t) = Saved(u) /\ Ended(t) = Ended(u) /\ t.workers = u.workers
      BY <2>7, <2>9, ZenonT(60) DEF Saved, Ended, Queues
    <3>4. Saved(t) = Saved(s) /\ Ended(t) = Ended(s) /\ t.workers = [s.workers EXCEPT ![w] = x]
      BY <3>2, <3>3, Zenon
    <3> QED BY <1>1, <3>1, <3>4, KeptWorkers, Zenon
  <2> QED BY <2>6, <2>13, <2>14, Zenon
<1>3. ASSUME NEW t, s.workers[w].st = "pop",
             t = [s EXCEPT !.waiting = Append(@, w), !.workers[w].st = "popwait"]
      PROVE  Good(t) /\ Covered(t, {}) /\ Kept(s, t)
  <2>1. PICK x : x = [s.workers[w] EXCEPT !.st = "popwait"]
    BY Zenon
  <2>2. x \in WorkerTypes /\ x.st = "popwait" /\ x.height = s.workers[w].height
    <3>1. PICK y \in WorkerTypes : y = s.workers[w]
      BY <1>1, Zenon
    <3> QED BY <2>1, <3>1 DEF WorkerTypes
  <2>3. /\ ~Queued(s.workers[w]) /\ ~Between(s.workers[w])
        /\ ~Between(x) /\ ~HasPeer(x)
    BY <1>3, <2>2 DEF Queued, Between, HasPeer
  <2>4. SoundWorker(x)
    BY <2>2, <2>3, Zenon DEF Good, WorkersSound, SoundWorker
  <2>5. PICK u : u = Put(s, w, x)
    BY Zenon
  <2>6. /\ Good(u) /\ Covered(u, {}) /\ u.workers[w] = x /\ u.waiting = s.waiting
        /\ NotIn(w, s.waiting)
    <3>1. NotIn(w, s.waiters) /\ NotIn(w, s.waiting)
      BY <2>3, InNoQueue, Zenon
    <3>2. Good(u) /\ Covered(u, {})
      BY <2>2, <2>4, <2>5, <3>1, Turn, Zenon
    <3>4. u.waiting = s.waiting /\ u.workers = [s.workers EXCEPT ![w] = x]
      BY <1>1, <2>5, ZenonT(60) DEF Put, Queues
    <3>5. u.workers[w] = x
      BY <1>1, <3>4, Zenon
    <3> QED BY <3>1, <3>2, <3>4, <3>5, Zenon
  <2>7. u \in Queues /\ Lined(u.waiters, u, "waiting") /\ Lined(u.waiting, u, "popwait")
    BY <2>6, Zenon DEF Good
  <2>8. PICK q \in Seq(Workers) : q = Append(u.waiting, w) /\ Lined(q, u, "popwait")
    BY <1>1, <2>2, <2>6, <2>7, LinedAppend, Zenon
  <2>9. t = [u EXCEPT !.waiting = q]
    BY <1>3, <2>1, <2>5, <2>6, <2>8, Zenon DEF Put
  <2>10. t \in Queues
    BY <2>7, <2>8, <2>9, ZenonT(60) DEF Queues
  <2>11. /\ t.workers = u.workers /\ t.failed = u.failed /\ t.pending = u.pending
         /\ t.verifying = u.verifying /\ t.fetchHeight = u.fetchHeight
         /\ t.verifyHeight = u.verifyHeight /\ t.terminal = u.terminal /\ t.waiting = q
         /\ t.waiters = u.waiters /\ t.closed = u.closed /\ t.retries = u.retries
    BY <2>7, <2>9, ZenonT(60) DEF Queues
  <2>12. u.closed = 0 => u.retries < MaxRetries
    BY <2>6, Zenon DEF Good
  <2>13. Good(t) /\ \A X : Covered(u, X) => Covered(t, X)
    BY <2>6, <2>7, <2>8, <2>10, <2>11, <2>12, Control, Zenon
  <2>14. Kept(s, t)
    <3>1. ~InCall(x)
      BY <2>2 DEF InCall
    <3>2. Saved(u) = Saved(s) /\ Ended(u) = Ended(s) /\ u.workers = [s.workers EXCEPT ![w] = x]
      BY <1>1, <2>5, ZenonT(60) DEF Saved, Ended, Queues, Put
    <3>3. Saved(t) = Saved(u) /\ Ended(t) = Ended(u) /\ t.workers = u.workers
      BY <2>7, <2>9, ZenonT(60) DEF Saved, Ended, Queues
    <3>4. Saved(t) = Saved(s) /\ Ended(t) = Ended(s) /\ t.workers = [s.workers EXCEPT ![w] = x]
      BY <3>2, <3>3, Zenon
    <3> QED BY <1>1, <3>1, <3>4, KeptWorkers, Zenon
  <2> QED BY <2>6, <2>13, <2>14, Zenon
<1> QED BY <1>2, <1>3, Zenon

\* peerlist.Append keeps what is stored.
LEMMA KeptAppend ==
  ASSUME NEW s \in Queues, NEW p
  PROVE  Kept(s, appendPeer(s, p))
<1>1. PICK t : t = appendPeer(s, p)
  BY Zenon
<1>2. s.waiting \in Seq(Workers) /\ s.workers \in [Workers -> WorkerTypes]
  BY Fields, Zenon
<1>3. CASE s.waiting = <<>>
  <2>1. Saved(t) = Saved(s) /\ Ended(t) = Ended(s) /\ t.workers = s.workers
    BY <1>1, <1>3, ZenonT(60) DEF Saved, Ended, appendPeer, Queues
  <2>2. ~InCall(IdleWorker)
    BY DEF InCall, IdleWorker, Worker
  <2> QED BY <1>1, <2>1, <2>2, KeptWorkers, Zenon
<1>4. CASE s.waiting # <<>>
  <2>1. PICK v \in Workers : v = Head(s.waiting)
    BY <1>2, <1>4
  <2>2. PICK y \in WorkerTypes : y = s.workers[v]
    BY <1>2, Zenon
  <2>3. PICK x : x = [y EXCEPT !.st = "ready", !.peer = p]
    BY Zenon
  <2>4. ~InCall(x)
    BY <2>3 DEF InCall, WorkerTypes
  <2>5. PICK f : f = [s.workers EXCEPT ![v] = x]
    BY Zenon
  <2>6. t = [s EXCEPT !.waiting = Tail(@), !.workers = f]
    BY <1>1, <1>2, <1>4, <2>1, <2>2, <2>3, <2>5, Zenon DEF appendPeer
  <2>7. Saved(t) = Saved(s) /\ Ended(t) = Ended(s) /\ t.workers = f
    BY <2>6, ZenonT(60) DEF Saved, Ended, Queues
  <2> QED BY <1>1, <2>4, <2>5, <2>7, KeptWorkers, Zenon
<1> QED BY <1>3, <1>4, Zenon

\* The worker has done with its peer, which goes back to the list.
LEMMA GiveBack ==
  ASSUME NEW s, Good(s), Covered(s, {}), NEW w \in Workers, NEW p \in Nodes,
         Busy(s.workers[w]),
         NEW u, u = [appendPeer(s, p) EXCEPT !.workers[w] = IdleWorker],
         NEW h, h = s.workers[w].height
  PROVE  Good(u) /\ Covered(u, {h}) /\ Loose(u, h) /\ Kept(s, u) /\ u.workers[w] = IdleWorker
<1>1. PICK t : t = appendPeer(s, p)
  BY Zenon
<1>2. s.workers[w].st # "popwait"
  BY DEF Busy
<1>3. Good(t) /\ Covered(t, {}) /\ t.workers[w] = s.workers[w]
  BY <1>1, <1>2, AppendPeer, Zenon
<1>4. Busy(t.workers[w]) /\ h = t.workers[w].height
  BY <1>3, Zenon
<1>5. PICK y : y = Put(t, w, IdleWorker)
  BY Zenon
<1>6. Good(y) /\ Covered(y, {h}) /\ Loose(y, h) /\ y.workers[w] = IdleWorker
  BY <1>3, <1>4, <1>5, Release, Zenon
<1>7. Kept(s, t)
  BY <1>1, KeptAppend, Zenon DEF Good
<1>8. \A v, x : ~InCall(x) => Kept(t, Put(t, v, x))
  BY <1>3, KeptSteps, Zenon DEF Good
<1>9. ~InCall(IdleWorker)
  BY DEF InCall, IdleWorker, Worker
<1>10. Kept(s, y)
  BY <1>5, <1>7, <1>8, <1>9, KeptChain, Zenon
<1>11. y = u
  BY <1>1, <1>5, Zenon DEF Put
<1> QED BY <1>6, <1>10, <1>11, Zenon

\* A worker makes its call, and times out.
LEMMA CallGood ==
  ASSUME NEW s, Good(s), Covered(s, {}), NEW w \in Workers, Busy(s.workers[w]), NEW p \in Nodes,
         NEW t, t = [s EXCEPT !.workers[w] = Worker("call", s.workers[w].height, p)]
  PROVE  Good(t) /\ Covered(t, {})
<1>1. PICK x : x = Worker("call", s.workers[w].height, p)
  BY Zenon
<1>2. s.workers[w] \in WorkerTypes
  BY Fields, Zenon DEF Good
<1>3. ~Queued(s.workers[w]) /\ ~Between(s.workers[w])
  BY DEF Busy, Queued, Between
<1>4. x \in WorkerTypes /\ x.height = s.workers[w].height /\ x.st = "call" /\ x.peer = p
  BY <1>1, <1>2 DEF Worker, WorkerTypes
<1>5. SoundWorker(x)
  <2>1. ~Between(x)
    BY <1>4 DEF Between
  <2> QED BY <1>3, <1>4, <2>1, Zenon DEF Good, WorkersSound, SoundWorker
<1>6. t = Put(s, w, x)
  BY <1>1, Zenon DEF Put
<1>7. NotIn(w, s.waiters) /\ NotIn(w, s.waiting)
  BY <1>3, InNoQueue, Zenon
<1>8. Good(Put(s, w, x)) /\ Covered(Put(s, w, x), {})
  BY <1>4, <1>5, <1>7, Turn, Zenon
<1> QED BY <1>6, <1>8, Zenon

\* A request timed out: its worker has yet to clean up the call, and keeps the height.
LEMMA TimeoutGood ==
  ASSUME NEW s, Good(s), Covered(s, {}), NEW w \in Workers, s.workers[w].st = "call",
         NEW t, t = [s EXCEPT !.workers[w].st = "cleanup"]
  PROVE  Good(t) /\ Covered(t, {}) /\ Kept(s, t)
<1>1. PICK x : x = [s.workers[w] EXCEPT !.st = "cleanup"]
  BY Zenon
<1>2. s \in Queues /\ s.workers \in [Workers -> WorkerTypes] /\ s.workers[w] \in WorkerTypes
  BY Fields, Zenon DEF Good
<1>3. ~Queued(s.workers[w]) /\ ~Between(s.workers[w]) /\ HasPeer(s.workers[w]) /\ InCall(s.workers[w])
  BY DEF Queued, Between, HasPeer, InCall
<1>4. x \in WorkerTypes /\ x.height = s.workers[w].height /\ x.st = "cleanup" /\ x.peer = s.workers[w].peer
  <2>1. PICK y \in WorkerTypes : y = s.workers[w]
    BY <1>2, Zenon
  <2> QED BY <1>1, <2>1 DEF WorkerTypes
<1>5. SoundWorker(x)
  <2>1. ~Between(x)
    BY <1>4 DEF Between
  <2> QED BY <1>3, <1>4, <2>1, Zenon DEF Good, WorkersSound, SoundWorker
<1>6. t = Put(s, w, x)
  BY <1>1, Zenon DEF Put
<1>7. NotIn(w, s.waiters) /\ NotIn(w, s.waiting)
  BY <1>3, InNoQueue, Zenon
<1>8. Good(Put(s, w, x)) /\ Covered(Put(s, w, x), {})
  BY <1>4, <1>5, <1>7, Turn, Zenon
<1>9. Kept(s, t)
  <2>1. PICK u : u = [s EXCEPT !.workers[w] = x]
    BY Zenon
  <2>2. Saved(u) = Saved(s) /\ Ended(u) = Ended(s) /\ u.workers = [s.workers EXCEPT ![w] = x]
    BY <1>2, <2>1, ZenonT(60) DEF Saved, Ended, Queues
  <2>3. \A v \in Workers : InCall(u.workers[v]) => InCall(s.workers[v]) /\ u.workers[v].peer = s.workers[v].peer
    <3> SUFFICES ASSUME NEW v \in Workers, InCall(u.workers[v])
                 PROVE  InCall(s.workers[v]) /\ u.workers[v].peer = s.workers[v].peer
      BY Zenon
    <3>1. CASE v = w
      <4>1. u.workers[v] = x
        BY <1>2, <2>2, <3>1, Zenon
      <4> QED BY <1>3, <1>4, <3>1, <4>1, Zenon
    <3>2. CASE v # w
      <4>1. u.workers[v] = s.workers[v]
        BY <1>2, <2>2, <3>2, Zenon
      <4> QED BY <4>1, Zenon
    <3> QED BY <3>1, <3>2, Zenon
  <2>4. Kept(s, u)
    <3>1. /\ u.headers = s.headers /\ u.verifyHeight = s.verifyHeight
          /\ u.lastValidatorSet = s.lastValidatorSet /\ u.lastChangeHeight = s.lastChangeHeight
          /\ u.closed = s.closed /\ u.retries = s.retries /\ u.terminal = s.terminal
          /\ u.verifying = s.verifying
      BY <2>2 DEF Saved, Ended
    <3> QED BY <2>3, <3>1, Zenon DEF Kept
  <2>5. u = t
    BY <1>6, <2>1, Zenon DEF Put
  <2> QED BY <2>4, <2>5, Zenon
<1> QED BY <1>6, <1>8, <1>9, Zenon

\* A height is taken off those that failed.
LEMMA TakeFailed ==
  ASSUME NEW s, Good(s), Covered(s, {}), NEW h \in s.failed,
         NEW t, t = [s EXCEPT !.failed = @ \ {h}]
  PROVE  Good(t) /\ Loose(t, h) /\ Covered(t, {h})
<1>1. s \in Queues /\ s.failed \in SUBSET BfHeights
  BY Fields, Zenon DEF Good
<1>2. PICK F \in SUBSET BfHeights : F = s.failed \ {h}
  BY <1>1, Zenon
<1>3. PICK u : u = [s EXCEPT !.failed = F]
  BY Zenon
<1>4. u \in Queues
  BY <1>1, <1>3, ZenonT(60) DEF Queues
<1>5. /\ u.workers = s.workers /\ u.failed = F /\ u.pending = s.pending
      /\ u.verifying = s.verifying /\ u.fetchHeight = s.fetchHeight
      /\ u.verifyHeight = s.verifyHeight /\ u.terminal = s.terminal /\ u.waiters = s.waiters
      /\ u.waiting = s.waiting /\ u.closed = s.closed /\ u.retries = s.retries
  BY <1>1, <1>3, ZenonT(60) DEF Queues
<1>6. \A k : /\ WithWorker(u, k) <=> WithWorker(s, k)
             /\ AtVerifier(u, k) <=> AtVerifier(s, k)
             /\ k \in u.failed <=> k \in s.failed /\ k # h
  BY <1>2, <1>5, Zenon DEF WithWorker, AtVerifier
<1>7. h \in BfHeights /\ Held(s, h)
  BY <1>1, Zenon DEF Held
<1>8. ~Held(u, h)
  BY <1>5, <1>6, <1>7, Zenon DEF Held, Good, InOnePlace
<1>9. \A k : Held(u, k) => Held(s, k)
  BY <1>5, <1>6, Zenon DEF Held
<1>10. \A k : Held(s, k) => Held(u, k) \/ k = h
  BY <1>5, <1>6, Zenon DEF Held
<1>11. InOnePlace(u)
  <2>1. \A k \in BfHeights : Held(u, k) => k > u.fetchHeight /\ k <= u.verifyHeight
    BY <1>5, <1>9, Zenon DEF Good, InOnePlace
  <2>2. \A k \in BfHeights :
          /\ WithWorker(u, k) => k \notin u.failed /\ k \notin DOMAIN u.pending /\ ~AtVerifier(u, k)
          /\ k \in u.failed => k \notin DOMAIN u.pending /\ ~AtVerifier(u, k)
          /\ k \in DOMAIN u.pending => ~AtVerifier(u, k)
    BY <1>5, <1>6, Zenon DEF Good, InOnePlace
  <2>3. /\ s.fetchHeight <= s.verifyHeight
        /\ OwnHeights(s.workers)
    BY Zenon DEF Good, InOnePlace
  <2>4. /\ u.fetchHeight <= u.verifyHeight
        /\ OwnHeights(u.workers)
    BY <1>5, <2>3, Zenon
  <2> QED BY <2>1, <2>2, <2>4, Zenon DEF InOnePlace
<1>12. Filed(u)
  BY <1>5, Zenon DEF Good, Filed
<1>13. u.closed = 0 => u.retries < MaxRetries
  BY <1>5, Zenon DEF Good
<1>14. Good(u)
  BY <1>4, <1>5, <1>11, <1>12, <1>13, Elsewhere, Zenon
<1>15. Loose(u, h)
  BY <1>5, <1>7, <1>8, Zenon DEF Loose, Good, InOnePlace
<1>16. Covered(u, {h})
  BY <1>5, <1>10, Zenon DEF Covered
<1>17. u = t
  BY <1>2, <1>3, Zenon
<1> QED BY <1>14, <1>15, <1>16, <1>17, Zenon

\* The next height is allocated.
LEMMA Allocate ==
  ASSUME NEW s, Good(s), Covered(s, {}), NEW h, h = s.fetchHeight, h >= InitialHeight,
         NEW t, t = [s EXCEPT !.fetchHeight = @ - 1]
  PROVE  Good(t) /\ Loose(t, h) /\ Covered(t, {h})
<1>1. s \in Queues /\ h \in InitialHeight - 1 .. StartHeight /\ s.verifyHeight \in Int
      /\ s.verifyHeight \in InitialHeight - 1 .. StartHeight
  BY Fields, Zenon DEF Good
<1>2. PICK n \in InitialHeight - 1 .. StartHeight : n = h - 1
  BY <1>1, BackfillAssumption
<1>3. PICK u : u = [s EXCEPT !.fetchHeight = n]
  BY Zenon
<1>4. u \in Queues
  BY <1>1, <1>3, ZenonT(60) DEF Queues
<1>5. /\ u.workers = s.workers /\ u.failed = s.failed /\ u.pending = s.pending
      /\ u.verifying = s.verifying /\ u.fetchHeight = n
      /\ u.verifyHeight = s.verifyHeight /\ u.terminal = s.terminal /\ u.waiters = s.waiters
      /\ u.waiting = s.waiting /\ u.closed = s.closed /\ u.retries = s.retries
  BY <1>1, <1>3, ZenonT(60) DEF Queues
<1>6. \A k : /\ WithWorker(u, k) <=> WithWorker(s, k)
             /\ AtVerifier(u, k) <=> AtVerifier(s, k)
  BY <1>5, Zenon DEF WithWorker, AtVerifier
<1>7. \A k : Held(u, k) <=> Held(s, k)
  BY <1>5, <1>6, Zenon DEF Held
<1>8. /\ h \in BfHeights /\ h > n /\ ~(h > h) /\ h \in Int /\ n \in Int
      /\ \A k \in BfHeights : (k > h => k > n) /\ (k > n => k > h \/ k = h)
      /\ \A v \in Int : h <= v => n <= v
  <2>1. h \in BfHeights /\ h \in Int /\ n \in Int
    BY <1>1, <1>2, BackfillAssumption DEF BfHeights
  <2>2. \A k \in BfHeights : k \in Int
    BY NotNil, Zenon
  <2> QED BY <1>2, <2>1, <2>2
<1>9. InOnePlace(u)
  <2>1. /\ s.fetchHeight <= s.verifyHeight
        /\ OwnHeights(s.workers)
        /\ \A k \in BfHeights : Held(s, k) => k > h /\ k <= s.verifyHeight
    BY Zenon DEF Good, InOnePlace
  <2>5. n <= s.verifyHeight
    BY <1>1, <1>2, <2>1
  <2>2. /\ u.fetchHeight <= u.verifyHeight
        /\ OwnHeights(u.workers)
    BY <1>5, <2>1, <2>5, Zenon
  <2>3. \A k \in BfHeights : Held(u, k) => k > u.fetchHeight /\ k <= u.verifyHeight
    BY <1>5, <1>7, <1>8, <2>1, Zenon
  <2>4. \A k \in BfHeights :
          /\ WithWorker(u, k) => k \notin u.failed /\ k \notin DOMAIN u.pending /\ ~AtVerifier(u, k)
          /\ k \in u.failed => k \notin DOMAIN u.pending /\ ~AtVerifier(u, k)
          /\ k \in DOMAIN u.pending => ~AtVerifier(u, k)
    BY <1>5, <1>6, Zenon DEF Good, InOnePlace
  <2> QED BY <2>2, <2>3, <2>4, Zenon DEF InOnePlace
<1>10. Filed(u)
  BY <1>5, Zenon DEF Good, Filed
<1>11. u.closed = 0 => u.retries < MaxRetries
  BY <1>5, Zenon DEF Good
<1>12. Good(u)
  BY <1>4, <1>5, <1>9, <1>10, <1>11, Elsewhere, Zenon
<1>13. Loose(u, h)
  <2>1. ~Held(s, h) /\ h <= s.verifyHeight
    BY <1>8, Zenon DEF Good, InOnePlace
  <2> QED BY <1>5, <1>7, <1>8, <2>1, Zenon DEF Loose
<1>14. Covered(u, {h})
  <2>1. s.closed = 0 => \A k \in BfHeights : k > h /\ k <= s.verifyHeight =>
          Held(s, k) \/ (s.terminal # Nil /\ k < s.terminal)
    BY Zenon DEF Covered
  <2> QED BY <1>5, <1>7, <1>8, <2>1, Zenon DEF Covered
<1>15. u = t
  BY <1>2, <1>3, Zenon
<1> QED BY <1>12, <1>13, <1>14, <1>15, Zenon

\* nextHeight, where there is one for the worker.
LEMMA GetHeight ==
  ASSUME NEW s, Good(s), NEW u, Good(u), NEW h, Loose(u, h), Covered(u, {h}),
         NEW w \in Workers, s.workers[w].st = "idle",
         u.workers = s.workers, u.waiters = s.waiters, u.waiting = s.waiting,
         Saved(u) = Saved(s), Ended(u) = Ended(s),
         NEW t, t = Put(u, w, Worker("pop", h, Nil))
  PROVE  Good(t) /\ Covered(t, {}) /\ Kept(s, t)
<1>1. ~Queued(s.workers[w]) /\ Between(s.workers[w])
  BY DEF Queued, Between
<1>2. s.workers[w].height = Nil
  BY <1>1, Zenon DEF Good, WorkersSound, SoundWorker
<1>3. NotIn(w, s.waiters) /\ NotIn(w, s.waiting)
  BY <1>1, InNoQueue, Zenon
<1>4. /\ NotIn(w, u.waiters) /\ NotIn(w, u.waiting)
      /\ u.workers[w].height = Nil
  BY <1>2, <1>3, Zenon
<1>5. Good(t) /\ Covered(t, {})
  BY <1>4, Give, Zenon
<1>6. ~InCall(IdleWorker) /\ ~InCall(Worker("pop", h, Nil))
  BY DEF InCall, IdleWorker, Worker
<1>7. Kept(s, u)
  BY <1>6, KeptWorkers, Zenon DEF Good
<1>8. \A v, x : ~InCall(x) => Kept(u, Put(u, v, x))
  BY KeptSteps, Zenon DEF Good
<1>9. Kept(u, t)
  BY <1>6, <1>8, Zenon
<1> QED BY <1>5, <1>7, <1>9, KeptChain, Zenon
\* The next block goes to the verifier.
LEMMA ToVerifier ==
  ASSUME NEW s, Good(s), Covered(s, {}), s.closed = 0, s.verifying = Nil,
         s.verifyHeight \in DOMAIN s.pending,
         NEW t, t = [s EXCEPT !.verifying = s.pending[s.verifyHeight],
                              !.pending = [h \in DOMAIN @ \ {s.verifyHeight} |-> @[h]]]
  PROVE  Good(t) /\ Covered(t, {}) /\ Kept(s, t)
<1>1. s \in Queues /\ s.closed \in Nat
      /\ DOMAIN s.pending \in SUBSET BfHeights /\ s.pending \in [DOMAIN s.pending -> LightBlocks]
  BY Fields, Zenon DEF Good
<1>2. PICK h \in BfHeights : h = s.verifyHeight
  BY <1>1, Zenon
<1>3. PICK b \in LightBlocks : b = s.pending[h]
  BY <1>1, <1>2, Zenon
<1>4. b # Nil /\ b.height = h
  <2>1. b # Nil
    BY BackfillAssumption, Zenon DEF LightBlocks, BfHeights
  <2> QED BY <1>2, <1>3, <2>1, Zenon DEF Good, Filed
<1>5. PICK f : f = [k \in DOMAIN s.pending \ {h} |-> s.pending[k]]
  BY Zenon
<1>6. /\ f \in UNION {[S -> LightBlocks] : S \in SUBSET BfHeights} /\ DOMAIN f = DOMAIN s.pending \ {h}
      /\ \A k \in DOMAIN s.pending : k # h => f[k] = s.pending[k]
  <2>1. PICK D \in SUBSET BfHeights : D = DOMAIN s.pending \ {h}
    BY <1>1, Zenon
  <2>2. f \in [D -> LightBlocks]
    BY <1>1, <1>5, <2>1, Zenon
  <2>3. \A k \in DOMAIN s.pending : k # h => f[k] = s.pending[k]
    BY <1>5, Zenon
  <2> QED BY <2>1, <2>2, <2>3, Zenon
<1>7. PICK u : u = [s EXCEPT !.verifying = b, !.pending = f]
  BY Zenon
<1>8. u \in Queues
  BY <1>1, <1>6, <1>7, ZenonT(60) DEF Queues
<1>9. /\ u.workers = s.workers /\ u.failed = s.failed /\ u.pending = f
      /\ u.verifying = b /\ u.fetchHeight = s.fetchHeight
      /\ u.verifyHeight = s.verifyHeight /\ u.terminal = s.terminal /\ u.waiters = s.waiters
      /\ u.waiting = s.waiting /\ u.closed = s.closed /\ u.retries = s.retries
  BY <1>1, <1>7, ZenonT(60) DEF Queues
<1>10. \A k : /\ WithWorker(u, k) <=> WithWorker(s, k)
              /\ AtVerifier(u, k) <=> k = h
              /\ ~AtVerifier(s, k)
              /\ k \in DOMAIN u.pending <=> k \in DOMAIN s.pending /\ k # h
  BY <1>4, <1>6, <1>9, Zenon DEF WithWorker, AtVerifier
<1>11. \A k : Held(u, k) <=> Held(s, k)
  BY <1>2, <1>9, <1>10, Zenon DEF Held
<1>12. InOnePlace(u)
  <2>1. /\ s.fetchHeight <= s.verifyHeight
        /\ OwnHeights(s.workers)
        /\ \A k \in BfHeights : Held(s, k) => k > s.fetchHeight /\ k <= s.verifyHeight
    BY Zenon DEF Good, InOnePlace
  <2>2. /\ u.fetchHeight <= u.verifyHeight
        /\ OwnHeights(u.workers)
        /\ \A k \in BfHeights : Held(u, k) => k > u.fetchHeight /\ k <= u.verifyHeight
    BY <1>9, <1>11, <2>1, Zenon
  <2>3. \A k \in BfHeights :
          /\ WithWorker(s, k) => k \notin s.failed /\ k \notin DOMAIN s.pending
          /\ k \in s.failed => k \notin DOMAIN s.pending
    BY Zenon DEF Good, InOnePlace
  <2>4. \A k \in BfHeights :
          /\ WithWorker(u, k) => k \notin u.failed /\ k \notin DOMAIN u.pending /\ ~AtVerifier(u, k)
          /\ k \in u.failed => k \notin DOMAIN u.pending /\ ~AtVerifier(u, k)
          /\ k \in DOMAIN u.pending => ~AtVerifier(u, k)
    BY <1>2, <1>9, <1>10, <2>3, Zenon
  <2> QED BY <2>2, <2>4, Zenon DEF InOnePlace
<1>13. Filed(u)
  <2>1. \A k \in DOMAIN s.pending : s.pending[k].height = k
    BY Zenon DEF Good, Filed
  <2>2. ASSUME NEW k \in DOMAIN u.pending PROVE u.pending[k].height = k
    <3>1. k \in DOMAIN s.pending /\ k # h
      BY <1>10, Zenon
    <3>2. u.pending[k] = s.pending[k]
      BY <1>6, <1>9, <3>1, Zenon
    <3> QED BY <2>1, <3>1, <3>2, Zenon
  <2>3. u.verifying.height = u.verifyHeight
    BY <1>2, <1>4, <1>9, Zenon
  <2> QED BY <2>2, <2>3, Zenon DEF Filed
<1>14. Good(u)
  <2>1. u.closed = 0 => u.retries < MaxRetries
    BY <1>9, Zenon DEF Good
  <2> QED BY <1>8, <1>9, <1>12, <1>13, <2>1, Elsewhere, Zenon
<1>15. Covered(u, {})
  BY <1>9, <1>11, Zenon DEF Covered
<1>16. Kept(s, u)
  <2>1. Saved(u) = Saved(s)
    BY <1>1, <1>7, ZenonT(60) DEF Saved, Queues
  <2>2. ~(u.closed > 0) /\ ~InCall(IdleWorker)
    BY <1>9 DEF InCall, IdleWorker, Worker
  <2> QED BY <1>1, <1>9, <2>1, <2>2, KeptWorkers, Zenon
<1>17. u = t
  BY <1>2, <1>3, <1>5, <1>7, Zenon
<1> QED BY <1>14, <1>15, <1>16, <1>17, Zenon

\* The verifier lets go of its block.
Cleared(s, t) ==
  /\ Saved(t) = Saved(s) /\ t.workers = s.workers /\ t.terminal = s.terminal
  /\ t.closed = s.closed /\ t.retries = s.retries /\ t.verifying = Nil

\* The verifier is done with its block.
LEMMA FromVerifier ==
  ASSUME NEW s, Good(s), Covered(s, {}), s.verifying # Nil, NEW h, h = s.verifying.height,
         NEW t, t = [s EXCEPT !.verifying = Nil]
  PROVE  Good(t) /\ Loose(t, h) /\ Covered(t, {h}) /\ Cleared(s, t)
<1>1. s \in Queues /\ s.verifying \in LightBlocks
  BY Fields, Zenon DEF Good
<1>2. h \in BfHeights /\ h = s.verifyHeight /\ AtVerifier(s, h)
  <2>1. h \in BfHeights
    BY <1>1 DEF LightBlocks
  <2> QED BY <2>1, Zenon DEF Good, Filed, AtVerifier
<1>3. PICK u : u = [s EXCEPT !.verifying = Nil]
  BY Zenon
<1>4. u \in Queues
  BY <1>1, <1>3, ZenonT(60) DEF Queues
<1>5. /\ u.workers = s.workers /\ u.failed = s.failed /\ u.pending = s.pending
      /\ u.verifying = Nil /\ u.fetchHeight = s.fetchHeight
      /\ u.verifyHeight = s.verifyHeight /\ u.terminal = s.terminal /\ u.waiters = s.waiters
      /\ u.waiting = s.waiting /\ u.closed = s.closed /\ u.retries = s.retries /\ Saved(u) = Saved(s)
  BY <1>1, <1>3, ZenonT(60) DEF Queues, Saved
<1>6. \A k : /\ WithWorker(u, k) <=> WithWorker(s, k)
             /\ ~AtVerifier(u, k)
             /\ AtVerifier(s, k) <=> k = h
  BY <1>5, Zenon DEF WithWorker, AtVerifier
<1>7. \A k : /\ Held(u, k) => Held(s, k)
             /\ Held(s, k) => Held(u, k) \/ k = h
  BY <1>5, <1>6, Zenon DEF Held
<1>8. \A k \in BfHeights :
        /\ WithWorker(s, k) => k \notin s.failed /\ k \notin DOMAIN s.pending /\ ~AtVerifier(s, k)
        /\ k \in s.failed => k \notin DOMAIN s.pending /\ ~AtVerifier(s, k)
        /\ k \in DOMAIN s.pending => ~AtVerifier(s, k)
  BY Zenon DEF Good, InOnePlace
<1>9. ~Held(u, h)
  BY <1>2, <1>5, <1>6, <1>8, Zenon DEF Held
<1>10. /\ s.fetchHeight <= s.verifyHeight
       /\ OwnHeights(s.workers)
       /\ \A k \in BfHeights : Held(s, k) => k > s.fetchHeight /\ k <= s.verifyHeight
  BY Zenon DEF Good, InOnePlace
<1>11. InOnePlace(u)
  <2>1. /\ u.fetchHeight <= u.verifyHeight
        /\ OwnHeights(u.workers)
        /\ \A k \in BfHeights : Held(u, k) => k > u.fetchHeight /\ k <= u.verifyHeight
    BY <1>5, <1>7, <1>10, Zenon
  <2>2. \A k \in BfHeights :
          /\ WithWorker(u, k) => k \notin u.failed /\ k \notin DOMAIN u.pending /\ ~AtVerifier(u, k)
          /\ k \in u.failed => k \notin DOMAIN u.pending /\ ~AtVerifier(u, k)
          /\ k \in DOMAIN u.pending => ~AtVerifier(u, k)
    BY <1>5, <1>6, <1>8, Zenon
  <2> QED BY <2>1, <2>2, Zenon DEF InOnePlace
<1>12. Filed(u)
  BY <1>5, Zenon DEF Good, Filed
<1>13. u.closed = 0 => u.retries < MaxRetries
  BY <1>5, Zenon DEF Good
<1>14. Good(u)
  BY <1>4, <1>5, <1>11, <1>12, <1>13, Elsewhere, Zenon
<1>15. Loose(u, h)
  <2>1. Held(s, h)
    BY <1>2, Zenon DEF Held
  <2> QED BY <1>2, <1>5, <1>9, <1>10, <2>1, Zenon DEF Loose
<1>16. Covered(u, {h})
  BY <1>5, <1>7, Zenon DEF Covered
<1>17. u = t
  BY <1>3, Zenon
<1>18. Cleared(s, u)
  BY <1>5, Zenon DEF Cleared
<1> QED BY <1>14, <1>15, <1>16, <1>17, <1>18, Zenon

\* The next height is verified.
Advanced(s, t, h, H, l) ==
  /\ t.workers = s.workers
  /\ t.headers = H /\ t.lastValidatorSet = ValidatorsAt[h] /\ t.lastChangeHeight = l
  /\ t.verifyHeight = h - 1 /\ t.verifying = Nil /\ t.retries = s.retries
  /\ t.terminal = s.terminal
  /\ t.closed > 0 => s.closed > 0 \/ s.terminal = h

\* success: the verified height is left, and the queue closes at the terminal one.
LEMMA Advance ==
  ASSUME NEW s, Good(s), NEW h, Loose(s, h), Covered(s, {h}), h = s.verifyHeight, s.verifying = Nil,
         NEW H \in SUBSET BfHeights, NEW l \in BfHeights,
         NEW t, t = success([s EXCEPT !.headers = H, !.lastValidatorSet = ValidatorsAt[h],
                                      !.lastChangeHeight = l])
  PROVE  Good(t) /\ Covered(t, {}) /\ Advanced(s, t, h, H, l)
<1>1. /\ s \in Queues /\ s.closed \in Nat /\ h \in BfHeights
      /\ s.fetchHeight \in Int /\ s.fetchHeight \in InitialHeight - 1 .. StartHeight
  BY Fields, Zenon DEF Good, Loose
<1>2. PICK n \in InitialHeight - 1 .. StartHeight : n = h - 1
  BY <1>1, BackfillAssumption DEF BfHeights
<1>3. PICK c \in Nat : c = IF h = s.terminal THEN s.closed + 1 ELSE s.closed
  BY <1>1
<1>4. PICK V \in {ValidatorsAt[k] : k \in BfHeights} \cup {Nil} : V = ValidatorsAt[h]
  BY <1>1, Zenon
<1>5. PICK u : u = [s EXCEPT !.headers = H, !.lastValidatorSet = V, !.lastChangeHeight = l,
                             !.closed = c, !.verifyHeight = n]
  BY Zenon
<1>6. u = t
  <2>1. PICK a : a = [s EXCEPT !.headers = H, !.lastValidatorSet = V, !.lastChangeHeight = l]
    BY Zenon
  <2>2. a.verifyHeight = h /\ a.terminal = s.terminal /\ a.closed = s.closed
    BY <1>1, <2>1, ZenonT(60) DEF Queues
  <2>3. t = [a EXCEPT !.closed = c, !.verifyHeight = n]
    <3>1. t = success(a)
      BY <1>4, <2>1, Zenon
    <3> QED BY <1>2, <1>3, <2>2, <3>1, Zenon DEF success
  <2> QED BY <1>5, <2>1, <2>3
<1>7. u \in Queues
  BY <1>1, <1>5, ZenonT(60) DEF Queues
<1>8. /\ u.workers = s.workers /\ u.failed = s.failed /\ u.pending = s.pending
      /\ u.verifying = s.verifying /\ u.fetchHeight = s.fetchHeight
      /\ u.verifyHeight = n /\ u.terminal = s.terminal /\ u.waiters = s.waiters
      /\ u.waiting = s.waiting /\ u.closed = c /\ u.retries = s.retries
      /\ u.headers = H /\ u.lastValidatorSet = V /\ u.lastChangeHeight = l
  BY <1>1, <1>5, ZenonT(60) DEF Queues
<1>9. \A k : /\ WithWorker(u, k) <=> WithWorker(s, k)
             /\ AtVerifier(u, k) <=> AtVerifier(s, k)
  BY <1>8, Zenon DEF WithWorker, AtVerifier
<1>10. \A k : Held(u, k) <=> Held(s, k)
  BY <1>8, <1>9, Zenon DEF Held
<1>11. /\ \A k \in BfHeights : (k <= h /\ k # h => k <= n) /\ (k <= n => k <= h /\ k # h)
       /\ h > s.fetchHeight => s.fetchHeight <= n
  <2>1. PICK f \in Int : f = s.fetchHeight
    BY <1>1, Zenon
  <2>2. h \in Int /\ \A k \in BfHeights : k \in Int
    BY <1>1, NotNil, Zenon
  <2>3. h > f => f <= n
    BY <1>2, <2>2
  <2>4. ASSUME NEW k \in BfHeights
        PROVE  (k <= h /\ k # h => k <= n) /\ (k <= n => k <= h /\ k # h)
    <3>1. k \in Int
      BY <2>2, Zenon
    <3> QED BY <1>2, <2>2, <3>1
  <2> QED BY <2>1, <2>3, <2>4, Zenon
<1>12. /\ OwnHeights(s.workers)
       /\ \A k \in BfHeights : Held(s, k) => k > s.fetchHeight /\ k <= h
  BY Zenon DEF Good, InOnePlace
<1>13. h > s.fetchHeight /\ ~Held(s, h)
  BY Zenon DEF Loose
<1>14. InOnePlace(u)
  <2>1. OwnHeights(u.workers)
    <3>1. u.workers = s.workers
      BY <1>8, Zenon
    <3> QED BY <1>12, <3>1, Zenon
  <2>4. \A k \in BfHeights : Held(u, k) => k > u.fetchHeight /\ k <= u.verifyHeight
    <3>1. \A k \in BfHeights : Held(s, k) => k > s.fetchHeight /\ k <= n
      BY <1>11, <1>12, <1>13, Zenon
    <3> QED BY <1>8, <1>10, <3>1, Zenon
  <2>2. u.fetchHeight <= u.verifyHeight
    BY <1>8, <1>11, <1>13, Zenon
  <2>3. \A k \in BfHeights :
          /\ WithWorker(u, k) => k \notin u.failed /\ k \notin DOMAIN u.pending /\ ~AtVerifier(u, k)
          /\ k \in u.failed => k \notin DOMAIN u.pending /\ ~AtVerifier(u, k)
          /\ k \in DOMAIN u.pending => ~AtVerifier(u, k)
    BY <1>8, <1>9, Zenon DEF Good, InOnePlace
  <2> QED BY <2>1, <2>2, <2>3, <2>4, Zenon DEF InOnePlace
<1>15. Filed(u)
  BY <1>8, Zenon DEF Good, Filed
<1>16. (c = 0 => s.closed = 0) /\ (c > 0 => s.closed > 0 \/ s.terminal = h)
  BY <1>1, <1>3
<1>17. Good(u)
  <2>1. u.closed = 0 => u.retries < MaxRetries
    BY <1>8, <1>16, Zenon DEF Good
  <2> QED BY <1>7, <1>8, <1>14, <1>15, <2>1, Elsewhere, Zenon
<1>18. Covered(u, {})
  <2>1. s.closed = 0 => \A k \in BfHeights : k > s.fetchHeight /\ k <= h =>
          k = h \/ Held(s, k) \/ (s.terminal # Nil /\ k < s.terminal)
    BY Zenon DEF Covered
  <2> QED BY <1>8, <1>10, <1>11, <1>16, <2>1, Zenon DEF Covered
<1>19. Advanced(s, u, h, H, l)
  BY <1>2, <1>4, <1>8, <1>16, Zenon DEF Advanced
<1> QED BY <1>6, <1>17, <1>18, <1>19, Zenon

\* What success stores: saved becomes new.
Changed(s, h) == s.lastValidatorSet # Nil /\ ValidatorsAt[h] # ValidatorsAt[h + 1]
Extended(s, saved, h, t, new) ==
  /\ h = s.verifyHeight
  /\ t.headers = s.headers \cup {h} /\ t.lastValidatorSet = ValidatorsAt[h] /\ t.verifyHeight = h - 1
  /\ t.lastChangeHeight = IF Changed(s, h) THEN h ELSE s.lastChangeHeight
  /\ new = IF Changed(s, h)
           THEN [k \in BfHeights |-> IF k \in h + 1 .. s.lastChangeHeight
                                     THEN s.lastValidatorSet ELSE saved[k]]
           ELSE saved

\* The block that was verified is stored, with the validators of a height when they change.
LEMMA StoreNext ==
  ASSUME NEW s, NEW saved, Stored(s, saved), NEW h \in BfHeights, s.lastChangeHeight \in BfHeights,
         NEW t, NEW new, Extended(s, saved, h, t, new)
  PROVE  Stored(t, new)
<1>0. PICK changed \in BOOLEAN : changed <=> Changed(s, h)
  BY Zenon
<1>8. /\ h = s.verifyHeight
      /\ t.headers = s.headers \cup {h} /\ t.lastValidatorSet = ValidatorsAt[h] /\ t.verifyHeight = h - 1
      /\ t.lastChangeHeight = IF changed THEN h ELSE s.lastChangeHeight
      /\ new = IF changed
               THEN [k \in BfHeights |-> IF k \in h + 1 .. s.lastChangeHeight
                                         THEN s.lastValidatorSet ELSE saved[k]]
               ELSE saved
  BY <1>0, Zenon DEF Extended
<1>9. changed <=> (s.lastValidatorSet # Nil /\ ValidatorsAt[h] # ValidatorsAt[h + 1])
  BY <1>0, Zenon DEF Changed
<1>1. PICK l \in BfHeights : l = s.lastChangeHeight
  BY Zenon
<1>2. /\ s.headers = h + 1 .. StartHeight
      /\ h = StartHeight => s.lastValidatorSet = Nil /\ l = StartHeight
      /\ h < StartHeight => s.lastValidatorSet = ValidatorsAt[h + 1] /\ l > h
      /\ \A k \in BfHeights : k > l => saved[k] = ValidatorsAt[k]
      /\ \A k \in BfHeights : k > h /\ k <= l => ValidatorsAt[k] = s.lastValidatorSet
  BY <1>1, <1>8, Zenon DEF Stored
<1>3. h \in Int /\ h <= StartHeight /\ StartHeight \in Int /\ h \in InitialHeight .. StartHeight
  BY BackfillAssumption DEF BfHeights
<1>4. t.headers = h .. StartHeight
  BY <1>2, <1>3, <1>8
<1>5. t.verifyHeight + 1 = h /\ t.verifyHeight < StartHeight /\ \A k \in BfHeights : k > t.verifyHeight <=> k >= h
  BY <1>3, <1>8 DEF BfHeights
<1>6. CASE changed
  <2>1. h < StartHeight /\ s.lastValidatorSet # Nil
    BY <1>2, <1>3, <1>6, <1>9
  <2>2. t.lastChangeHeight = h
    BY <1>6, <1>8, Zenon
  <2>3. \A k \in BfHeights : k > h => new[k] = ValidatorsAt[k]
    <3> SUFFICES ASSUME NEW k \in BfHeights, k > h PROVE new[k] = ValidatorsAt[k]
      BY Zenon
    <3>1. new[k] = IF k \in h + 1 .. l THEN s.lastValidatorSet ELSE saved[k]
      BY <1>1, <1>6, <1>8, Zenon
    <3>2. k \in Int /\ l \in Int
      BY NotNil, Zenon
    <3>3. CASE k \in h + 1 .. l
      <4>1. k > h /\ k <= l
        BY <1>3, <3>2, <3>3
      <4> QED BY <1>2, <3>1, <3>3, <4>1, Zenon
    <3>4. CASE k \notin h + 1 .. l
      <4>1. k > l
        BY <1>3, <3>2, <3>4
      <4> QED BY <1>2, <3>1, <3>4, <4>1, Zenon
    <3> QED BY <3>3, <3>4, Zenon
  <2>4. \A k \in BfHeights : k >= h /\ k <= h => ValidatorsAt[k] = ValidatorsAt[h]
    BY <1>3, NotNil
  <2>5. t.lastChangeHeight > t.verifyHeight
    BY <1>3, <1>8, <2>2
  <2>6. t.verifyHeight # StartHeight
    BY <1>3, <1>8
  <2> QED BY <1>4, <1>5, <1>8, <2>2, <2>3, <2>4, <2>5, <2>6, Zenon DEF Stored
<1>7. CASE ~changed
  <2>1. t.lastChangeHeight = l /\ new = saved
    BY <1>1, <1>7, <1>8, Zenon
  <2>2. l \in Int
    BY NotNil, Zenon
  <2>3. h < StartHeight => ValidatorsAt[h] = s.lastValidatorSet
    <3>1. h < StartHeight => h + 1 \in BfHeights
      BY <1>3, BackfillAssumption DEF BfHeights
    <3>2. h < StartHeight => ValidatorsAt[h + 1] # Nil
      BY <3>1, BackfillAssumption, Zenon DEF BfHeights
    <3> QED BY <1>2, <1>7, <1>9, <3>2, Zenon
  <2>4. \A k \in BfHeights : k >= h /\ k <= l => ValidatorsAt[k] = ValidatorsAt[h]
    <3> SUFFICES ASSUME NEW k \in BfHeights, k >= h, k <= l, k # h
                 PROVE  ValidatorsAt[k] = ValidatorsAt[h]
      BY Zenon
    <3>1. k > h /\ h < StartHeight
      <4>1. k \in InitialHeight .. StartHeight
        BY Zenon DEF BfHeights
      <4> QED BY <1>3, <4>1, BackfillAssumption
    <3> QED BY <1>2, <2>3, <3>1, Zenon
  <2>5. t.lastChangeHeight > t.verifyHeight
    <3>1. h < StartHeight \/ h = StartHeight
      BY <1>3, <1>8
    <3>2. l >= h
      BY <1>2, <1>3, <2>2, <3>1
    <3> QED BY <1>3, <1>8, <2>1, <2>2, <3>2
  <2>6. t.verifyHeight # StartHeight
    BY <1>3, <1>8
  <2> QED BY <1>2, <1>4, <1>5, <1>8, <2>1, <2>4, <2>5, <2>6, Zenon DEF Stored
<1> QED BY <1>6, <1>7, Zenon

\* The calls of the workers, as one is closed and as one is made.
LEMMA CallClosed ==
  ASSUME NEW s, NEW D, CallsOwned(s, D), NEW w \in Workers, NEW p,
         InCall(s.workers[w]), p = s.workers[w].peer,
         NEW u, Kept(s, u), u.workers[w] = IdleWorker, NEW t, Kept(u, t)
  PROVE  CallsOwned(t, D \ {p})
<1>1. ~InCall(u.workers[w])
  BY DEF InCall, IdleWorker, Worker
<1>2. \A v \in Workers : InCall(t.workers[v]) =>
        InCall(u.workers[v]) /\ InCall(s.workers[v]) /\ t.workers[v].peer = s.workers[v].peer
  BY Zenon DEF Kept
<1>3. \A v \in Workers : InCall(t.workers[v]) => t.workers[v].peer \in D /\ t.workers[v].peer # p
  BY <1>1, <1>2, Zenon DEF CallsOwned
<1>4. \A v, x \in Workers :
        InCall(t.workers[v]) /\ InCall(t.workers[x]) /\ t.workers[v].peer = t.workers[x].peer => v = x
  BY <1>2, Zenon DEF CallsOwned
<1> QED BY <1>3, <1>4, Zenon DEF CallsOwned

\* dispatcher.dispatch opens a call for a peer that has none.
LEMMA CallMade ==
  ASSUME NEW s, s \in Queues, NEW D, CallsOwned(s, D), NEW w \in Workers, NEW p, p \notin D, NEW h,
         NEW t, t = [s EXCEPT !.workers[w] = Worker("call", h, p)]
  PROVE  CallsOwned(t, D \cup {p})
<1>0. PICK x : x = Worker("call", h, p)
  BY Zenon
<1>1. x.peer = p
  BY <1>0 DEF Worker
<1>2. s.workers \in [Workers -> WorkerTypes]
  BY Fields, Zenon
<1>3. PICK u : u = [s EXCEPT !.workers[w] = x]
  BY Zenon
<1>4. u.workers = [s.workers EXCEPT ![w] = x]
  BY <1>3, ZenonT(60) DEF Queues
<1>5. u.workers[w] = x /\ OthersSame(s, u, w)
  BY <1>2, <1>4, Zenon DEF OthersSame
<1>6. \A v \in Workers : v # w /\ InCall(u.workers[v]) => u.workers[v].peer \in D
  BY <1>5, Zenon DEF CallsOwned, OthersSame
<1>7. \A v \in Workers : InCall(u.workers[v]) => u.workers[v].peer \in D \cup {p}
  BY <1>1, <1>5, <1>6, Zenon
<1>8. ASSUME NEW v \in Workers, NEW y \in Workers,
             InCall(u.workers[v]), InCall(u.workers[y]), u.workers[v].peer = u.workers[y].peer
      PROVE  v = y
  <2>1. CASE v = w
    BY <1>1, <1>5, <1>6, <1>8, <2>1, Zenon
  <2>2. CASE y = w
    BY <1>1, <1>5, <1>6, <1>8, <2>2, Zenon
  <2>3. CASE v # w /\ y # w
    <3>1. u.workers[v] = s.workers[v] /\ u.workers[y] = s.workers[y]
      BY <1>5, <2>3, Zenon DEF OthersSame
    <3> QED BY <1>8, <3>1, Zenon DEF CallsOwned
  <2> QED BY <2>1, <2>2, <2>3, Zenon
<1>9. CallsOwned(u, D \cup {p})
  BY <1>7, <1>8, Zenon DEF CallsOwned
<1>10. u = t
  BY <1>0, <1>3, Zenon
<1> QED BY <1>9, <1>10, Zenon

\* A step of the workers.
LEMMA Stays ==
  ASSUME IInv, bfResult = "running", Good(bf'), Covered(bf', {}), Kept(bf, bf'),
         calls' \in [DOMAIN calls' -> Responses \cup {Nil}], CallsOwned(bf', DOMAIN calls'),
         lbReqs' \subseteq [peer : Nodes, height : BfHeights], UNCHANGED <<valsSaved, bfResult>>
  PROVE  IInv'
<1>1. Stored(bf, valsSaved) /\ ClosedRight(bf)
  BY Zenon DEF IInv
<1>2. Stored(bf', valsSaved') /\ ClosedRight(bf')
  <2>1. valsSaved' = valsSaved
    BY Zenon
  <2>2. Stored(bf', valsSaved)
    BY <1>1, KeptStored, Zenon
  <2> QED BY <1>1, <2>1, <2>2, KeptStored, Zenon
<1>3. SucceedsComplete' /\ bfResult' \in {"running", "ok", "error", "cancelled"}
  BY DEF SucceedsComplete
<1> QED BY <1>2, <1>3, Zenon DEF IInv

\* Dispatch to a peer: a call, or a retry when the peer is busy with another.
LEMMA DispatchStep ==
  ASSUME IInv, bfResult = "running", NEW w \in Workers, NEW p \in Nodes, NEW s, Good(s), Covered(s, {}),
         Kept(bf, s), Busy(s.workers[w]), Dispatch(w, p, s), UNCHANGED <<valsSaved, bfResult>>
  PROVE  IInv'
<1>1. CallsOwned(bf, DOMAIN calls) /\ calls \in [DOMAIN calls -> Responses \cup {Nil}]
      /\ lbReqs \subseteq [peer : Nodes, height : BfHeights]
  BY Zenon DEF IInv
<1>2. CallsOwned(s, DOMAIN calls)
  BY <1>1, KeptStored, Zenon
<1>3. PICK h : h = s.workers[w].height
  BY Zenon
<1>4. CASE p \in DOMAIN calls
  <2>1. PICK u : u = [appendPeer(s, p) EXCEPT !.workers[w] = IdleWorker]
    BY Zenon
  <2>2. bf' = retry(u, h) /\ calls' = calls /\ lbReqs' = lbReqs
    BY <1>3, <1>4, <2>1, Zenon DEF Dispatch
  <2>3. Good(u) /\ Covered(u, {h}) /\ Loose(u, h) /\ Kept(s, u)
    BY <1>3, <2>1, GiveBack, Zenon
  <2>4. Good(bf') /\ Covered(bf', {})
    BY <2>2, <2>3, RetryGood, Zenon
  <2>5. Kept(u, bf')
    BY <2>2, <2>3, KeptSteps, Zenon DEF Good
  <2>6. Kept(bf, bf')
    BY <2>3, <2>5, KeptChain, Zenon
  <2>7. CallsOwned(bf', DOMAIN calls)
    BY <1>1, <2>6, KeptStored, Zenon
  <2> QED BY <1>1, <2>2, <2>4, <2>6, <2>7, Stays, Zenon
<1>5. CASE p \notin DOMAIN calls
  <2>1. /\ bf' = [s EXCEPT !.workers[w] = Worker("call", h, p)]
        /\ calls' = [q \in DOMAIN calls \cup {p} |-> IF q = p THEN Nil ELSE calls[q]]
        /\ lbReqs' = IF p \in up THEN lbReqs \cup {[peer |-> p, height |-> h]} ELSE lbReqs
    BY <1>3, <1>5, Zenon DEF Dispatch
  <2>2. Good(bf') /\ Covered(bf', {})
    BY <1>3, <2>1, CallGood, Zenon
  <2>3. CallsOwned(bf', DOMAIN calls \cup {p}) /\ Saved(bf') = Saved(s) /\ Ended(bf') = Ended(s)
    <3>1. PICK D : D = DOMAIN calls
      BY Zenon
    <3>2. PICK t : t = [s EXCEPT !.workers[w] = Worker("call", h, p)]
      BY Zenon
    <3>3. s \in Queues /\ CallsOwned(s, D) /\ p \notin D
      BY <1>2, <1>5, <3>1, Zenon DEF Good
    <3>4. CallsOwned(t, D \cup {p})
      BY <3>2, <3>3, CallMade, Zenon
    <3>5. Saved(t) = Saved(s) /\ Ended(t) = Ended(s)
      BY <3>2, <3>3, ZenonT(60) DEF Queues, Saved, Ended
    <3> QED BY <2>1, <3>1, <3>2, <3>4, <3>5, Zenon
  <2>4. h \in BfHeights
    <3>1. s.workers[w] \in WorkerTypes /\ ~Between(s.workers[w])
      <4>1. s.workers[w] \in WorkerTypes
        BY Fields, Zenon DEF Good
      <4>2. ~Between(s.workers[w])
        BY DEF Busy, Between
      <4> QED BY <4>1, <4>2, Zenon
    <3>2. s.workers[w].height \in BfHeights \cup {Nil}
      BY <3>1 DEF WorkerTypes
    <3>3. s.workers[w].height # Nil
      BY <3>1, Zenon DEF Good, WorkersSound, SoundWorker
    <3> QED BY <1>3, <3>2, <3>3, Zenon
  <2>5. lbReqs' \subseteq [peer : Nodes, height : BfHeights]
    BY <1>1, <2>1, <2>4
  <2>6. calls' \in [DOMAIN calls' -> Responses \cup {Nil}] /\ DOMAIN calls' = DOMAIN calls \cup {p}
    <3>1. \A q \in DOMAIN calls : calls[q] \in Responses \cup {Nil}
      BY <1>1, Zenon
    <3> QED BY <2>1, <3>1, Zenon
  <2>7. Stored(bf, valsSaved) /\ ClosedRight(bf)
    BY Zenon DEF IInv
  <2>8. Stored(s, valsSaved) /\ ClosedRight(s)
    BY <2>7, KeptStored, Zenon
  <2>9. Stored(bf', valsSaved') /\ ClosedRight(bf')
    <3>1. /\ bf'.headers = s.headers /\ bf'.verifyHeight = s.verifyHeight
          /\ bf'.lastValidatorSet = s.lastValidatorSet /\ bf'.lastChangeHeight = s.lastChangeHeight
          /\ bf'.closed = s.closed /\ bf'.retries = s.retries /\ bf'.terminal = s.terminal
          /\ bf'.verifying = s.verifying
      BY <2>3 DEF Saved, Ended
    <3>2. valsSaved' = valsSaved
      BY Zenon
    <3>3. Stored(bf', valsSaved)
      BY <2>8, <3>1, Zenon DEF Stored
    <3>4. ClosedRight(bf')
      BY <2>8, <3>1, Zenon DEF ClosedRight
    <3> QED BY <3>2, <3>3, <3>4, Zenon
  <2>10. SucceedsComplete' /\ bfResult' \in {"running", "ok", "error", "cancelled"}
    BY DEF SucceedsComplete
  <2> QED BY <2>2, <2>3, <2>5, <2>6, <2>9, <2>10, Zenon DEF IInv
<1> QED BY <1>4, <1>5, Zenon

\* peerlist.Pop: the first peer, or a place in the queue.
LEMMA PopStep ==
  ASSUME IInv, NEW w \in Workers, Pop(w)
  PROVE  IInv'
<1>1. Good(bf) /\ Covered(bf, {}) /\ bf \in Queues /\ bf.workers[w].st = "pop" /\ bf.peers \in Seq(Nodes)
      /\ bfResult = "running" /\ UNCHANGED <<valsSaved, bfResult>>
  BY Fields, Zenon DEF IInv, Good, Pop, Working, Running
<1>2. CASE bf.peers = <<>>
  <2>1. bf' = [bf EXCEPT !.waiting = Append(@, w), !.workers[w].st = "popwait"]
        /\ calls' = calls /\ lbReqs' = lbReqs
    BY <1>2, Zenon DEF Pop
  <2>2. Good(bf') /\ Covered(bf', {}) /\ Kept(bf, bf')
    BY <1>1, <2>1, Wait, Zenon
  <2>3. CallsOwned(bf, DOMAIN calls) /\ calls \in [DOMAIN calls -> Responses \cup {Nil}]
        /\ lbReqs \subseteq [peer : Nodes, height : BfHeights]
    BY Zenon DEF IInv
  <2>4. CallsOwned(bf', DOMAIN calls)
    BY <2>2, <2>3, KeptStored, Zenon
  <2> QED BY <1>1, <2>1, <2>2, <2>3, <2>4, Stays, Zenon
<1>3. CASE bf.peers # <<>>
  <2>1. PICK p \in Nodes : p = Head(bf.peers)
    BY <1>1, <1>3
  <2>2. PICK q \in Seq(Nodes) : q = Tail(bf.peers)
    <3>1. PICK r \in Seq(Nodes) : r = bf.peers /\ r # <<>>
      BY <1>1, <1>3, Zenon
    <3>2. Tail(r) \in Seq(Nodes)
      BY <3>1
    <3> QED BY <3>1, <3>2, Zenon
  <2>3. PICK s : s = [bf EXCEPT !.peers = q]
    BY Zenon
  <2>4. Dispatch(w, p, s)
    BY <1>3, <2>1, <2>2, <2>3, Zenon DEF Pop
  <2>5. Good(s) /\ Covered(s, {}) /\ s.workers = bf.workers
    BY <1>1, <2>3, PeersOnly, Zenon
  <2>6. Kept(bf, s)
    <3>1. Saved(s) = Saved(bf) /\ Ended(s) = Ended(bf)
      BY <1>1, <2>3, ZenonT(60) DEF Saved, Ended, Queues
    <3>2. ~InCall(IdleWorker)
      BY DEF InCall, IdleWorker, Worker
    <3> QED BY <1>1, <2>5, <3>1, <3>2, KeptWorkers, Zenon
  <2>7. Busy(s.workers[w])
    BY <1>1, <2>5 DEF Busy
  <2> QED BY <1>1, <2>4, <2>5, <2>6, <2>7, DispatchStep, Zenon
<1> QED BY <1>2, <1>3, Zenon

\* A worker that waited for a peer got one.
LEMMA PoppedStep ==
  ASSUME IInv, NEW w \in Workers, Popped(w)
  PROVE  IInv'
<1>1. Good(bf) /\ Covered(bf, {}) /\ bf.workers[w].st = "ready"
      /\ bfResult = "running" /\ UNCHANGED <<valsSaved, bfResult>>
  BY Zenon DEF IInv, Popped, Working, Running
<1>2. Busy(bf.workers[w]) /\ HasPeer(bf.workers[w])
  BY <1>1 DEF Busy, HasPeer
<1>3. PICK p \in Nodes : p = bf.workers[w].peer
  BY <1>1, <1>2, Zenon DEF Good, WorkersSound, SoundWorker
<1>4. PICK s : s = bf
  BY Zenon
<1>5. Dispatch(w, p, s)
  BY <1>3, <1>4, Zenon DEF Popped
<1>6. Good(s) /\ Covered(s, {}) /\ Kept(bf, s) /\ Busy(s.workers[w])
  BY <1>1, <1>2, <1>4, Zenon DEF Kept
<1> QED BY <1>1, <1>5, <1>6, DispatchStep, Zenon

\* The answer of a call: queue.add, or retry.
LEMMA HandleStep ==
  ASSUME IInv, bfResult = "running", NEW w \in Workers, InCall(bf.workers[w]),
         NEW resp \in Responses \cup {Nil}, Handle(w, resp),
         lbReqs' = lbReqs, UNCHANGED <<valsSaved, bfResult>>
  PROVE  IInv'
<1>1. Good(bf) /\ Covered(bf, {}) /\ CallsOwned(bf, DOMAIN calls)
      /\ calls \in [DOMAIN calls -> Responses \cup {Nil}]
      /\ lbReqs \subseteq [peer : Nodes, height : BfHeights]
  BY Zenon DEF IInv
<1>2. Busy(bf.workers[w]) /\ HasPeer(bf.workers[w])
  BY DEF InCall, Busy, HasPeer
<1>3. PICK p \in Nodes : p = bf.workers[w].peer
  BY <1>1, <1>2, Zenon DEF Good, WorkersSound, SoundWorker
<1>4. PICK h : h = bf.workers[w].height
  BY Zenon
<1>5. PICK u : u = [appendPeer(bf, p) EXCEPT !.workers[w] = IdleWorker]
  BY Zenon
<1>6. Good(u) /\ Covered(u, {h}) /\ Loose(u, h) /\ Kept(bf, u) /\ u.workers[w] = IdleWorker
  BY <1>1, <1>2, <1>4, <1>5, GiveBack, Zenon
<1>7. /\ calls' = [q \in DOMAIN calls \ {p} |-> calls[q]]
      /\ \/ bf' = retry(u, h)
         \/ bf' = removePeer(retry(u, h), p)
         \/ resp # Nil /\ bf' = add(u, [height |-> h, block |-> resp.block, peer |-> p])
  BY <1>3, <1>4, <1>5, Zenon DEF Handle
<1>8. PICK t : t = retry(u, h)
  BY Zenon
<1>9. Good(t) /\ Covered(t, {}) /\ Kept(u, t)
  BY <1>6, <1>8, RetryGood, KeptSteps, Zenon DEF Good
<1>10. Good(bf') /\ Covered(bf', {}) /\ Kept(u, bf')
  <2>1. CASE bf' = retry(u, h)
    BY <1>8, <1>9, <2>1, Zenon
  <2>2. CASE bf' = removePeer(retry(u, h), p)
    <3>1. bf' = removePeer(t, p)
      BY <1>8, <2>2, Zenon
    <3>2. Good(bf') /\ Covered(bf', {})
      BY <1>9, <3>1, RemovePeer, Zenon
    <3>3. Kept(t, bf')
      BY <1>9, <3>1, KeptSteps, Zenon DEF Good
    <3> QED BY <1>9, <3>2, <3>3, KeptChain, Zenon
  <2>3. CASE resp # Nil /\ bf' = add(u, [height |-> h, block |-> resp.block, peer |-> p])
    <3>1. PICK r : r = [height |-> h, block |-> resp.block, peer |-> p]
      BY Zenon
    <3>2. h \in BfHeights /\ resp \in Responses
      BY <1>6, <2>3, Zenon DEF Loose
    <3>3. r \in LightBlocks /\ r.height = h
      BY <3>1, <3>2 DEF LightBlocks, Responses
    <3>4. bf' = add(u, r)
      BY <2>3, <3>1, Zenon
    <3>5. Loose(u, r.height) /\ Covered(u, {r.height})
      BY <1>6, <3>3, Zenon
    <3>6. Good(bf') /\ Covered(bf', {})
      BY <1>6, <3>3, <3>4, <3>5, AddGood, Zenon
    <3>7. Kept(u, bf')
      BY <1>6, <3>4, KeptSteps, Zenon DEF Good
    <3> QED BY <3>6, <3>7, Zenon
  <2> QED BY <1>7, <2>1, <2>2, <2>3, Zenon
<1>11. Kept(bf, bf')
  BY <1>6, <1>10, KeptChain, Zenon
<1>12. calls' \in [DOMAIN calls' -> Responses \cup {Nil}] /\ DOMAIN calls' = DOMAIN calls \ {p}
  <2>1. \A q \in DOMAIN calls : calls[q] \in Responses \cup {Nil}
    BY <1>1, Zenon
  <2> QED BY <1>7, <2>1, Zenon
<1>13. CallsOwned(bf', DOMAIN calls \ {p})
  BY <1>1, <1>3, <1>6, <1>10, CallClosed, Zenon
<1> QED BY <1>1, <1>10, <1>11, <1>12, <1>13, Stays, Zenon

\* The answer is received, or times out and the call is cleaned up.
LEMMA WorkerSteps ==
  ASSUME IInv, NEW w \in Workers
  PROVE  Receive(w) \/ Timeout(w) \/ Cleanup(w) => IInv'
<1>1. Good(bf) /\ Covered(bf, {}) /\ CallsOwned(bf, DOMAIN calls)
      /\ calls \in [DOMAIN calls -> Responses \cup {Nil}]
      /\ lbReqs \subseteq [peer : Nodes, height : BfHeights]
  BY Zenon DEF IInv
<1>2. ASSUME Receive(w) PROVE IInv'
  <2>1. /\ bf.workers[w].st = "call" /\ bfResult = "running" /\ lbReqs' = lbReqs
        /\ UNCHANGED <<valsSaved, bfResult>>
    BY <1>2, Zenon DEF Receive, Working, Running
  <2>2. InCall(bf.workers[w])
    BY <2>1 DEF InCall
  <2>3. PICK resp \in Responses \cup {Nil} : resp = calls[bf.workers[w].peer]
    BY <1>1, <2>2, Zenon DEF CallsOwned
  <2>4. Handle(w, resp)
    BY <1>2, <2>3, Zenon DEF Receive
  <2> QED BY <2>1, <2>2, <2>4, HandleStep, Zenon
<1>3. ASSUME Timeout(w) PROVE IInv'
  <2>1. /\ bf.workers[w].st = "call" /\ bfResult = "running" /\ lbReqs' = lbReqs /\ calls' = calls
        /\ UNCHANGED <<valsSaved, bfResult>> /\ bf' = [bf EXCEPT !.workers[w].st = "cleanup"]
    BY <1>3, Zenon DEF Timeout, Working, Running
  <2>2. Good(bf') /\ Covered(bf', {}) /\ Kept(bf, bf')
    BY <1>1, <2>1, TimeoutGood, Zenon
  <2>3. CallsOwned(bf', DOMAIN calls)
    BY <1>1, <2>2, KeptStored, Zenon
  <2> QED BY <1>1, <2>1, <2>2, <2>3, Stays, Zenon
<1>4. ASSUME Cleanup(w) PROVE IInv'
  <2>1. /\ bf.workers[w].st = "cleanup" /\ bfResult = "running" /\ lbReqs' = lbReqs
        /\ UNCHANGED <<valsSaved, bfResult>> /\ Handle(w, Nil)
    BY <1>4, Zenon DEF Cleanup, Working, Running
  <2>2. InCall(bf.workers[w])
    BY <2>1 DEF InCall
  <2>3. Nil \in Responses \cup {Nil}
    BY Zenon
  <2> QED BY <2>1, <2>2, <2>3, HandleStep, Zenon
<1> QED BY <1>2, <1>3, <1>4, Zenon

\* dispatcher.Respond: the answer is left in the channel of the call.
LEMMA RespondStep ==
  ASSUME IInv, NEW r, NEW block \in {"good"} \cup Answers, Respond(r, block)
  PROVE  IInv'
<1>1. /\ r \in lbReqs /\ bf' = bf /\ UNCHANGED <<valsSaved, bfResult>> /\ lbReqs' = lbReqs \ {r}
      /\ bfResult = "running"
  BY Zenon DEF Respond, Working, Running
<1>2. Good(bf) /\ Covered(bf, {}) /\ CallsOwned(bf, DOMAIN calls)
      /\ calls \in [DOMAIN calls -> Responses \cup {Nil}]
      /\ lbReqs \subseteq [peer : Nodes, height : BfHeights]
  BY Zenon DEF IInv
<1>3. PICK y \in Responses : y = Response(r.height, block)
  <2>1. r.height \in BfHeights
    BY <1>1, <1>2
  <2> QED BY <2>1, Zenon DEF Response, Responses
<1>4. calls' \in [DOMAIN calls -> Responses \cup {Nil}]
  <2>1. calls' = calls \/ calls' = [calls EXCEPT ![r.peer] = y]
    BY <1>3, Zenon DEF Respond
  <2>2. [calls EXCEPT ![r.peer] = y] \in [DOMAIN calls -> Responses \cup {Nil}]
    BY <1>2, <1>3, Zenon
  <2> QED BY <1>2, <2>1, <2>2, Zenon
<1>5. DOMAIN calls' = DOMAIN calls
  BY <1>4, Zenon
<1>6. lbReqs' \subseteq [peer : Nodes, height : BfHeights]
  BY <1>1, <1>2, Zenon
<1>7. Good(bf') /\ Covered(bf', {}) /\ CallsOwned(bf', DOMAIN calls')
      /\ calls' \in [DOMAIN calls' -> Responses \cup {Nil}] /\ Kept(bf, bf')
  BY <1>1, <1>2, <1>4, <1>5, Zenon DEF Kept
<1> QED BY <1>1, <1>6, <1>7, Stays, Zenon

\* processPeerUpdate: a peer goes down, and its requests are not answered.
LEMMA PeerStep ==
  ASSUME IInv, NEW p \in Nodes, processPeerUpdate(p)
  PROVE  IInv'
<1>1. /\ bf' = removePeer(bf, p) /\ UNCHANGED <<valsSaved, bfResult>> /\ calls' = calls
      /\ lbReqs' = {r \in lbReqs : r.peer # p} /\ bfResult = "running"
  BY Zenon DEF processPeerUpdate, Working, Running
<1>2. Good(bf) /\ Covered(bf, {}) /\ CallsOwned(bf, DOMAIN calls)
      /\ calls \in [DOMAIN calls -> Responses \cup {Nil}]
      /\ lbReqs \subseteq [peer : Nodes, height : BfHeights]
  BY Zenon DEF IInv
<1>3. Good(bf') /\ Covered(bf', {})
  BY <1>1, <1>2, RemovePeer, Zenon
<1>4. Kept(bf, bf')
  BY <1>1, <1>2, KeptSteps, Zenon DEF Good
<1>5. CallsOwned(bf', DOMAIN calls)
  BY <1>2, <1>4, KeptStored, Zenon
<1>6. lbReqs' \subseteq [peer : Nodes, height : BfHeights]
  BY <1>1, <1>2, Zenon
<1> QED BY <1>1, <1>2, <1>3, <1>4, <1>5, <1>6, Stays, Zenon

\* verifyNext: the next pending block.
LEMMA VerifyNextStep ==
  ASSUME IInv, verifyNext
  PROVE  IInv'
<1>1. /\ bf' = [bf EXCEPT !.verifying = bf.pending[bf.verifyHeight],
                          !.pending = [h \in DOMAIN @ \ {bf.verifyHeight} |-> @[h]]]
      /\ UNCHANGED <<valsSaved, bfResult>> /\ calls' = calls /\ lbReqs' = lbReqs /\ bfResult = "running"
      /\ bf.closed = 0 /\ bf.verifying = Nil /\ bf.verifyHeight \in DOMAIN bf.pending
  BY Zenon DEF verifyNext, Running
<1>2. Good(bf) /\ Covered(bf, {}) /\ CallsOwned(bf, DOMAIN calls)
      /\ calls \in [DOMAIN calls -> Responses \cup {Nil}]
      /\ lbReqs \subseteq [peer : Nodes, height : BfHeights]
  BY Zenon DEF IInv
<1>3. Good(bf') /\ Covered(bf', {}) /\ Kept(bf, bf')
  BY <1>1, <1>2, ToVerifier, Zenon
<1>4. CallsOwned(bf', DOMAIN calls)
  BY <1>2, <1>3, KeptStored, Zenon
<1> QED BY <1>1, <1>2, <1>3, <1>4, Stays, Zenon

\* The verification of a block, and success or retry.
LEMMA VerifyStep ==
  ASSUME IInv, Verify
  PROVE  IInv'
<1>1. /\ bf.verifying # Nil /\ bfResult = "running" /\ bfResult' = bfResult /\ calls' = calls
      /\ lbReqs' = lbReqs
  BY Zenon DEF Verify, Running
<1>2. Good(bf) /\ Covered(bf, {}) /\ CallsOwned(bf, DOMAIN calls)
      /\ calls \in [DOMAIN calls -> Responses \cup {Nil}]
      /\ lbReqs \subseteq [peer : Nodes, height : BfHeights]
      /\ Stored(bf, valsSaved) /\ ClosedRight(bf)
  BY <1>1, Zenon DEF IInv
<1>3. PICK h : h = bf.verifying.height
  BY Zenon
<1>4. PICK u : u = [bf EXCEPT !.verifying = Nil]
  BY Zenon
<1>11. Good(u) /\ Loose(u, h) /\ Covered(u, {h}) /\ Cleared(bf, u)
  BY <1>1, <1>2, <1>3, <1>4, FromVerifier, Zenon
<1>5. /\ Good(u) /\ Loose(u, h) /\ Covered(u, {h}) /\ h = bf.verifyHeight
      /\ Saved(u) = Saved(bf) /\ u.workers = bf.workers /\ u.terminal = bf.terminal
      /\ u.closed = bf.closed /\ u.retries = bf.retries /\ u.verifying = Nil
  BY <1>1, <1>2, <1>3, <1>11, Zenon DEF Cleared, Good, Filed
<1>6. ~(u.closed > 0 /\ u.retries < MaxRetries)
  BY <1>1, <1>2, <1>5, Zenon DEF ClosedRight
<1>7. u.headers = bf.headers /\ u.verifyHeight = bf.verifyHeight /\ h = u.verifyHeight
      /\ u.lastValidatorSet = bf.lastValidatorSet /\ u.lastChangeHeight = bf.lastChangeHeight
  BY <1>5 DEF Saved
<1>8. SucceedsComplete' /\ bfResult' \in {"running", "ok", "error", "cancelled"}
  BY <1>1 DEF SucceedsComplete
<1>9. CASE bf.verifying.block # "good"
  <2>1. bf' = retry(u, h) /\ valsSaved' = valsSaved
    BY <1>3, <1>4, <1>9, Zenon DEF Verify
  <2>2. Good(bf') /\ Covered(bf', {})
    BY <1>5, <2>1, RetryGood, Zenon
  <2>3. Kept(u, bf')
    BY <1>5, <2>1, KeptSteps, Zenon DEF Good
  <2>4. Kept(bf, u)
    BY <1>5, <1>6, <1>7, Zenon DEF Kept
  <2>5. Kept(bf, bf')
    BY <2>3, <2>4, KeptChain, Zenon
  <2>6. CallsOwned(bf', DOMAIN calls)
    BY <1>2, <2>5, KeptStored, Zenon
  <2>7. UNCHANGED <<valsSaved, bfResult>>
    BY <1>1, <2>1, Zenon
  <2> QED BY <1>1, <1>2, <2>2, <2>5, <2>6, <2>7, Stays, Zenon
<1>10. CASE bf.verifying.block = "good"
  <2>1. PICK changed \in BOOLEAN : changed <=> Changed(bf, h)
    BY Zenon
  <2>2. /\ bf.headers \in SUBSET BfHeights /\ bf.lastChangeHeight \in BfHeights /\ h \in BfHeights
    BY <1>2, <1>5, Fields, Zenon DEF Good, Loose
  <2>3. PICK H \in SUBSET BfHeights : H = bf.headers \cup {h}
    BY <2>2, Zenon
  <2>4. PICK l \in BfHeights : l = IF changed THEN h ELSE bf.lastChangeHeight
    BY <2>2, Zenon
  <2>5. PICK t : t = success([u EXCEPT !.headers = H, !.lastValidatorSet = ValidatorsAt[h],
                                       !.lastChangeHeight = l])
    BY Zenon
  <2>6. bf' = t
    <3>1. bf' = success([u EXCEPT !.headers = @ \cup {h}, !.lastValidatorSet = ValidatorsAt[h],
                                  !.lastChangeHeight = IF changed THEN h ELSE @])
      BY <1>3, <1>4, <1>10, <2>1, Zenon DEF Verify, Changed
    <3> QED BY <1>7, <2>3, <2>4, <2>5, <3>1, Zenon
  <2>7. /\ Good(t) /\ Covered(t, {}) /\ t.workers = u.workers
        /\ t.headers = H /\ t.lastValidatorSet = ValidatorsAt[h] /\ t.lastChangeHeight = l
        /\ t.verifyHeight = h - 1 /\ t.verifying = Nil /\ t.retries = u.retries
        /\ t.terminal = u.terminal
        /\ t.closed > 0 => u.closed > 0 \/ u.terminal = h
    <3>1. Good(t) /\ Covered(t, {}) /\ Advanced(u, t, h, H, l)
      BY <1>5, <1>7, <2>5, Advance, Zenon
    <3> QED BY <3>1, Zenon DEF Advanced
  <2>8. CallsOwned(t, DOMAIN calls)
    <3>1. t.workers = bf.workers
      BY <1>5, <2>7, Zenon
    <3> QED BY <1>2, <3>1, Zenon DEF CallsOwned
  <2>9. ClosedRight(t)
    <3>1. h - 1 < StartHeight /\ (h - 1) + 1 = h
      BY <2>2, BackfillAssumption DEF BfHeights
    <3> QED BY <1>6, <2>7, <3>1, Zenon DEF ClosedRight
  <2>10. Stored(t, valsSaved')
    <3>1. valsSaved' = IF changed
                       THEN [k \in BfHeights |-> IF k \in h + 1 .. bf.lastChangeHeight
                                                 THEN bf.lastValidatorSet ELSE valsSaved[k]]
                       ELSE valsSaved
      BY <1>3, <1>10, <2>1, Zenon DEF Verify, SaveValidatorSets, Changed
    <3>2. PICK new : new = valsSaved'
      BY Zenon
    <3>3. Extended(bf, valsSaved, h, t, new)
      BY <1>5, <2>1, <2>3, <2>4, <2>7, <3>1, <3>2, Zenon DEF Extended
    <3>4. Stored(t, new)
      BY <1>2, <2>2, <3>3, StoreNext, Zenon
    <3> QED BY <3>2, <3>4, Zenon
  <2> QED BY <1>1, <1>2, <1>8, <2>6, <2>7, <2>8, <2>9, <2>10, Zenon DEF IInv
<1> QED BY <1>9, <1>10, Zenon

\* queue.done: backfill returns.
LEMMA DoneStep ==
  ASSUME IInv, Done
  PROVE  IInv'
<1>1. /\ bf' = bf /\ calls' = calls /\ lbReqs' = lbReqs /\ bfResult = "running" /\ bf.closed > 0
  BY Zenon DEF Done, Running
<1>2. Good(bf) /\ Covered(bf, {}) /\ CallsOwned(bf, DOMAIN calls)
      /\ calls \in [DOMAIN calls -> Responses \cup {Nil}]
      /\ lbReqs \subseteq [peer : Nodes, height : BfHeights]
      /\ Stored(bf, valsSaved) /\ ClosedRight(bf)
  BY <1>1, Zenon DEF IInv
<1>3. bfResult' # "running" /\ bfResult' \in {"running", "ok", "error", "cancelled"}
  BY DEF Done
<1>4. SucceedsComplete'
  <2>1. CASE bf.retries >= MaxRetries
    BY <2>1 DEF Done, SucceedsComplete
  <2>2. CASE ~(bf.retries >= MaxRetries)
    <3>1. valsSaved' = SaveValidatorSets(bf.terminal, bf.lastChangeHeight, bf.lastValidatorSet)
      BY <2>2, Zenon DEF Done
    <3>2. /\ bf.retries \in 0 .. MaxRetries /\ bf.verifyHeight \in InitialHeight - 1 .. StartHeight
          /\ bf.lastChangeHeight \in BfHeights
      BY <1>2, Fields, Zenon DEF Good
    <3>3. bf.retries < MaxRetries
      BY <2>2, <3>2, BackfillAssumption
    <3>4. bf.verifyHeight < StartHeight /\ bf.terminal = bf.verifyHeight + 1
      BY <1>1, <1>2, <3>3, Zenon DEF ClosedRight
    <3>5. PICK m \in BfHeights : m = bf.terminal
      BY <3>2, <3>4, BackfillAssumption DEF BfHeights
    <3>6. PICK l \in BfHeights : l = bf.lastChangeHeight
      BY <3>2, Zenon
    <3>7. m \in Int /\ l \in Int /\ \A k \in BfHeights : k >= m => k > bf.verifyHeight
      BY <3>2, <3>4, <3>5, NotNil, BackfillAssumption DEF BfHeights
    <3>8. /\ bf.headers = m .. StartHeight
          /\ \A k \in BfHeights : k > l => valsSaved[k] = ValidatorsAt[k]
          /\ \A k \in BfHeights : k > bf.verifyHeight /\ k <= l => ValidatorsAt[k] = bf.lastValidatorSet
      BY <1>2, <3>4, <3>5, <3>6, Zenon DEF Stored
    <3>9. ASSUME NEW k \in m .. StartHeight PROVE valsSaved'[k] = ValidatorsAt[k]
      <4>1. k \in BfHeights /\ k >= m /\ k \in Int
        BY <3>7, <3>9, BackfillAssumption DEF BfHeights
      <4>2. valsSaved'[k] = IF k \in m .. l THEN bf.lastValidatorSet ELSE valsSaved[k]
        BY <3>1, <3>5, <3>6, <4>1, Zenon DEF SaveValidatorSets
      <4>3. CASE k \in m .. l
        <5>1. k <= l
          BY <3>7, <4>1, <4>3
        <5> QED BY <3>7, <3>8, <4>1, <4>2, <4>3, <5>1, Zenon
      <4>4. CASE k \notin m .. l
        <5>1. k > l
          BY <3>7, <4>1, <4>4
        <5> QED BY <3>8, <4>1, <4>2, <4>4, <5>1, Zenon
      <4> QED BY <4>3, <4>4, Zenon
    <3>10. bf'.headers = m .. StartHeight /\ bf'.terminal = m
      BY <1>1, <3>5, <3>8, Zenon
    <3> QED BY <3>9, <3>10, Zenon DEF SucceedsComplete
  <2> QED BY <2>1, <2>2, Zenon
<1>5. Good(bf') /\ Covered(bf', {}) /\ CallsOwned(bf', DOMAIN calls')
      /\ calls' \in [DOMAIN calls' -> Responses \cup {Nil}]
      /\ lbReqs' \subseteq [peer : Nodes, height : BfHeights]
  BY <1>1, <1>2, Zenon
<1> QED BY <1>3, <1>4, <1>5, Zenon DEF IInv

\* The context of the sync is cancelled.
LEMMA CancelStep ==
  ASSUME IInv, Cancel
  PROVE  IInv'
<1>1. /\ bf' = [bf EXCEPT !.closed = @ + 1] /\ bfResult' = "cancelled"
      /\ calls' = calls /\ lbReqs' = lbReqs
  BY Zenon DEF Cancel
<1>2. Good(bf) /\ CallsOwned(bf, DOMAIN calls)
      /\ calls \in [DOMAIN calls -> Responses \cup {Nil}]
      /\ lbReqs \subseteq [peer : Nodes, height : BfHeights]
  BY Zenon DEF IInv
<1>3. bf \in Queues /\ bf.closed \in Nat
  BY <1>2, Fields, Zenon DEF Good
<1>4. PICK c \in Nat : c = bf.closed + 1 /\ c # 0
  BY <1>3
<1>5. PICK t : t = [bf EXCEPT !.closed = c]
  BY Zenon
<1>6. t \in Queues
  BY <1>3, <1>5, ZenonT(60) DEF Queues
<1>7. /\ t.workers = bf.workers /\ t.failed = bf.failed /\ t.pending = bf.pending
      /\ t.verifying = bf.verifying /\ t.fetchHeight = bf.fetchHeight
      /\ t.verifyHeight = bf.verifyHeight /\ t.terminal = bf.terminal /\ t.waiters = bf.waiters
      /\ t.waiting = bf.waiting /\ t.closed = c
  BY <1>3, <1>5, ZenonT(60) DEF Queues
<1>8. Lined(t.waiters, bf, "waiting") /\ Lined(t.waiting, bf, "popwait")
  BY <1>2, <1>7, Zenon DEF Good
<1>9. Good(t)
  BY <1>2, <1>4, <1>6, <1>7, <1>8, Control, Zenon
<1>10. Covered(t, {}) /\ CallsOwned(t, DOMAIN calls)
  BY <1>2, <1>4, <1>7, Zenon DEF Covered, CallsOwned
<1>11. bf' = t
  BY <1>1, <1>4, <1>5, Zenon
<1>12. SucceedsComplete' /\ bfResult' # "running" /\ bfResult' \in {"running", "ok", "error", "cancelled"}
  BY <1>1 DEF SucceedsComplete
<1> QED BY <1>1, <1>2, <1>9, <1>10, <1>11, <1>12, Zenon DEF IInv

\* backfill starts with everything to fetch.
LEMMA InitIInv == BackfillInit => IInv
<1> SUFFICES ASSUME BackfillInit PROVE IInv
  BY Zenon
<1>1. bf = [fetchHeight |-> StartHeight, verifyHeight |-> StartHeight, terminal |-> Nil,
            failed |-> {}, retries |-> 0, pending |-> <<>>, waiters |-> <<>>, closed |-> 0,
            workers |-> [w \in Workers |-> IdleWorker],
            peers |-> PeerList, waiting |-> <<>>,
            verifying |-> Nil,
            lastValidatorSet |-> Nil, lastChangeHeight |-> StartHeight, headers |-> {}]
  BY Zenon DEF BackfillInit, BackfillStart
<1>2. calls = <<>> /\ lbReqs = {} /\ bfResult = "running"
  BY Zenon DEF BackfillInit, BackfillStart
<1>3. PICK z : z = bf
  BY Zenon
<1>4. /\ z.fetchHeight = StartHeight /\ z.verifyHeight = StartHeight /\ z.terminal = Nil
      /\ z.failed = {} /\ z.retries = 0 /\ z.pending = <<>> /\ z.waiters = <<>> /\ z.closed = 0
      /\ z.workers = [w \in Workers |-> IdleWorker] /\ z.waiting = <<>> /\ z.verifying = Nil
      /\ z.lastValidatorSet = Nil /\ z.lastChangeHeight = StartHeight /\ z.headers = {}
  BY <1>1, <1>3, ZenonT(60)
<1>5. /\ StartHeight \in InitialHeight - 1 .. StartHeight /\ StartHeight \in BfHeights
      /\ 0 \in 0 .. MaxRetries /\ 0 \in Nat /\ 0 < MaxRetries /\ StartHeight \in Int
  BY BackfillAssumption DEF BfHeights
<1>6. IdleWorker \in WorkerTypes /\ IdleWorker.st = "idle" /\ IdleWorker.height = Nil
  BY DEF IdleWorker, Worker, WorkerTypes
<1>7. <<>> \in Seq(Workers) /\ DOMAIN <<>> = {} /\ Len(<<>>) = 0 /\ 1 .. 0 = {}
  OBVIOUS
<1>8. <<>> \in UNION {[S -> LightBlocks] : S \in SUBSET BfHeights}
  <2>1. <<>> \in [{} -> LightBlocks]
    OBVIOUS
  <2> QED BY <2>1, Zenon
<1>9. z \in Queues
  <2>1. [w \in Workers |-> IdleWorker] \in [Workers -> WorkerTypes]
    BY <1>6, Zenon
  <2>2. PeerList \in Seq(Nodes) /\ Nil \in BfHeights \cup {Nil} /\ Nil \in LightBlocks \cup {Nil}
        /\ Nil \in {ValidatorsAt[h] : h \in BfHeights} \cup {Nil} /\ {} \in SUBSET BfHeights
    BY BackfillAssumption, Zenon
  <2> QED BY <1>1, <1>3, <1>5, <1>7, <1>8, <2>1, <2>2, ZenonT(60) DEF Queues
<1>10. \A w \in Workers : z.workers[w] = IdleWorker
  BY <1>4, Zenon
<1>11. WorkersSound(z)
  <2>1. SoundWorker(IdleWorker)
    BY <1>6 DEF SoundWorker, Between, HasPeer
  <2> QED BY <1>10, <2>1, Zenon DEF WorkersSound
<1>12. Lined(z.waiters, z, "waiting") /\ Lined(z.waiting, z, "popwait")
  BY <1>4, <1>7, Zenon DEF Lined
<1>13. Filed(z)
  BY <1>4, <1>7, Zenon DEF Filed
<1>14. \A h \in BfHeights : ~Held(z, h) /\ ~WithWorker(z, h) /\ h \notin z.failed /\ h \notin DOMAIN z.pending
  BY <1>4, <1>6, <1>7, <1>10, NotNil, Zenon DEF Held, WithWorker, AtVerifier
<1>15. InOnePlace(z)
  <2>1. z.fetchHeight <= z.verifyHeight
    BY <1>4, <1>5
  <2>2. OwnHeights(z.workers)
    BY <1>6, <1>10, Zenon DEF OwnHeights
  <2> QED BY <1>14, <2>1, <2>2, Zenon DEF InOnePlace
<1>16. Good(z)
  BY <1>4, <1>5, <1>9, <1>11, <1>12, <1>13, <1>15, Zenon DEF Good
<1>17. Covered(z, {})
  <2>1. \A h \in BfHeights : ~(h > StartHeight /\ h <= StartHeight)
    BY <1>5, NotNil
  <2> QED BY <1>4, <2>1, Zenon DEF Covered
<1>18. calls \in [DOMAIN calls -> Responses \cup {Nil}]
  BY <1>2
<1>19. CallsOwned(z, DOMAIN calls)
  <2>1. ~InCall(IdleWorker)
    BY <1>6 DEF InCall
  <2> QED BY <1>10, <2>1, Zenon DEF CallsOwned
<1>20. Stored(z, valsSaved)
  <2>1. \A h \in BfHeights : ~(h > StartHeight)
    BY BackfillAssumption DEF BfHeights
  <2>2. StartHeight + 1 .. StartHeight = {} /\ ~(StartHeight < StartHeight)
    BY <1>5
  <2> QED BY <1>4, <2>1, <2>2, Zenon DEF Stored
<1>21. ClosedRight(z)
  <2>1. ~(0 > 0)
    OBVIOUS
  <2> QED BY <1>4, <2>1, Zenon DEF ClosedRight
<1>22. SucceedsComplete /\ bfResult \in {"running", "ok", "error", "cancelled"}
  BY <1>2 DEF SucceedsComplete
<1> QED BY <1>2, <1>3, <1>16, <1>17, <1>18, <1>19, <1>20, <1>21, <1>22, Zenon DEF IInv

\* A height that is held is in one place, and one that is not in none.
LEMMA OneHolder ==
  ASSUME Good(bf), NEW h \in BfHeights
  PROVE  IF Held(bf, h) THEN InOne(h) ELSE Places(h) = {}
<1>1. PICK W : W = {<<"worker", w>> : w \in {v \in Workers : bf.workers[v].height = h}}
  BY Zenon
<1>2. Places(h) = W \cup (IF h \in bf.failed THEN {<<"failed", h>>} ELSE {})
                    \cup (IF h \in DOMAIN bf.pending THEN {<<"pending", h>>} ELSE {})
                    \cup (IF AtVerifier(bf, h) THEN {<<"verifier", h>>} ELSE {})
  BY <1>1, Zenon DEF Places, AtVerifier
<1>3. /\ WithWorker(bf, h) => h \notin bf.failed /\ h \notin DOMAIN bf.pending /\ ~AtVerifier(bf, h)
      /\ h \in bf.failed => h \notin DOMAIN bf.pending /\ ~AtVerifier(bf, h)
      /\ h \in DOMAIN bf.pending => ~AtVerifier(bf, h)
  BY Zenon DEF Good, InOnePlace
<1>4. CASE WithWorker(bf, h)
  <2>1. PICK w \in Workers : bf.workers[w].height = h
    BY <1>4, Zenon DEF WithWorker
  <2>2. \A v \in Workers : bf.workers[v].height = h => v = w
    BY <2>1, NotNil, Zenon DEF Good, InOnePlace, OwnHeights
  <2>3. W = {<<"worker", w>>}
    BY <1>1, <2>1, <2>2, Zenon
  <2>4. Places(h) = {<<"worker", w>>}
    BY <1>2, <1>3, <1>4, <2>3, Zenon
  <2> QED BY <1>4, <2>4, Zenon DEF Held, InOne
<1>5. ~WithWorker(bf, h) => W = {}
  BY <1>1, Zenon DEF WithWorker
<1>6. CASE ~WithWorker(bf, h) /\ h \in bf.failed
  <2>1. Places(h) = {<<"failed", h>>}
    BY <1>2, <1>3, <1>5, <1>6, Zenon
  <2> QED BY <1>6, <2>1, Zenon DEF Held, InOne
<1>7. CASE ~WithWorker(bf, h) /\ h \notin bf.failed /\ h \in DOMAIN bf.pending
  <2>1. Places(h) = {<<"pending", h>>}
    BY <1>2, <1>3, <1>5, <1>7, Zenon
  <2> QED BY <1>7, <2>1, Zenon DEF Held, InOne
<1>8. CASE ~WithWorker(bf, h) /\ h \notin bf.failed /\ h \notin DOMAIN bf.pending /\ AtVerifier(bf, h)
  <2>1. Places(h) = {<<"verifier", h>>}
    BY <1>2, <1>5, <1>8, Zenon
  <2> QED BY <1>8, <2>1, Zenon DEF Held, InOne
<1>9. CASE ~WithWorker(bf, h) /\ h \notin bf.failed /\ h \notin DOMAIN bf.pending /\ ~AtVerifier(bf, h)
  <2>1. Places(h) = {}
    BY <1>2, <1>5, <1>9, Zenon
  <2> QED BY <1>9, <2>1, Zenon DEF Held
<1> QED BY <1>4, <1>6, <1>7, <1>8, <1>9, Zenon

\* The invariant accounts for every height.
LEMMA Accounted ==
  ASSUME IInv
  PROVE  HeightAccounted
<1> SUFFICES ASSUME bf.closed = 0
             PROVE  /\ \A h \in BfHeights : h \in bf.fetchHeight + 1 .. bf.verifyHeight =>
                         InOne(h) \/ (bf.terminal # Nil /\ h < bf.terminal /\ Places(h) = {})
                    /\ \A h \in BfHeights : h > bf.verifyHeight => Places(h) = {}
  BY Zenon DEF HeightAccounted
<1>1. Good(bf) /\ Covered(bf, {}) /\ bf.fetchHeight \in Int /\ bf.verifyHeight \in Int
  BY Fields, Zenon DEF IInv, Good
<1>2. ASSUME NEW h \in BfHeights, h \in bf.fetchHeight + 1 .. bf.verifyHeight
      PROVE  InOne(h) \/ (bf.terminal # Nil /\ h < bf.terminal /\ Places(h) = {})
  <2>1. h > bf.fetchHeight /\ h <= bf.verifyHeight
    BY <1>1, <1>2
  <2>2. Held(bf, h) \/ (bf.terminal # Nil /\ h < bf.terminal)
    BY <1>1, <2>1, Zenon DEF Covered
  <2>3. IF Held(bf, h) THEN InOne(h) ELSE Places(h) = {}
    BY <1>1, OneHolder, Zenon
  <2> QED BY <2>2, <2>3, Zenon
<1>3. ASSUME NEW h \in BfHeights, h > bf.verifyHeight
      PROVE  Places(h) = {}
  <2>1. ~(h <= bf.verifyHeight)
    BY <1>1, <1>3, NotNil
  <2>2. ~Held(bf, h)
    BY <1>1, <2>1, Zenon DEF Good, InOnePlace
  <2>3. IF Held(bf, h) THEN InOne(h) ELSE Places(h) = {}
    BY <1>1, OneHolder, Zenon
  <2> QED BY <2>2, <2>3, Zenon
<1> QED BY <1>2, <1>3, Zenon

\* The invariant implies BackfillComplete.
LEMMA Completes == IInv => BackfillComplete
<1> SUFFICES ASSUME IInv PROVE BackfillComplete
  BY Zenon
<1>1. BackfillTypeOK
  <2>1. Good(bf) /\ bfResult \in {"running", "ok", "error", "cancelled"}
    BY Zenon DEF IInv
  <2>2. /\ bf.fetchHeight \in InitialHeight - 1 .. StartHeight
        /\ bf.verifyHeight \in InitialHeight - 1 .. StartHeight
        /\ bf.terminal \in BfHeights \cup {Nil} /\ bf.failed \in SUBSET BfHeights
        /\ bf.retries \in 0 .. MaxRetries /\ DOMAIN bf.pending \in SUBSET BfHeights
        /\ bf.workers \in [Workers -> WorkerTypes] /\ bf.peers \in Seq(Nodes)
    BY <2>1, Fields, Zenon DEF Good
  <2>3. \A w \in Workers : bf.workers[w].st \in {"idle", "waiting", "pop", "popwait", "ready", "call",
                                                 "cleanup", "exit"}
    <3> SUFFICES ASSUME NEW w \in Workers
                 PROVE  bf.workers[w].st \in {"idle", "waiting", "pop", "popwait", "ready", "call",
                                              "cleanup", "exit"}
      BY Zenon
    <3>1. PICK x \in WorkerTypes : x = bf.workers[w]
      BY <2>2, Zenon
    <3> QED BY <3>1 DEF WorkerTypes
  <2> QED BY <2>1, <2>2, <2>3, Zenon DEF BackfillTypeOK
<1>2. SucceedsComplete
  BY Zenon DEF IInv
<1> QED BY <1>1, <1>2, Accounted, Zenon DEF BackfillComplete

LOCAL INSTANCE WellFoundedInduction

\* The smallest of some heights.
LEMMA SmallestIn ==
  ASSUME NEW S \in SUBSET BfHeights, S # {}
  PROVE  Smallest(S) \in S
<1>1. S \subseteq Nat
  BY BackfillAssumption DEF BfHeights
<1>2. PICK x \in S : \A y \in S : ~ (<<y, x>> \in OpToRel(<, Nat))
  BY <1>1, WFMin, NatLessThanWellFounded, Zenon
<1>3. \A y \in S : ~ (y < x)
  BY <1>1, <1>2, Zenon DEF OpToRel
<1>4. \A y \in S : x <= y
  BY <1>1, <1>3
<1> QED BY <1>4, Zenon DEF Smallest

\* nextHeight: a worker gets a failed height or a new one, or waits.
LEMMA NextHeightStep ==
  ASSUME IInv, NEW w \in Workers, NextHeight(w)
  PROVE  IInv'
<1>1. Good(bf) /\ Covered(bf, {}) /\ bf \in Queues /\ bf.failed \in SUBSET BfHeights /\ bf.workers[w].st = "idle"
      /\ bfResult = "running"
  BY Fields, Zenon DEF IInv, Good, NextHeight, Working, Running
<1>2. Good(bf') /\ Covered(bf', {}) /\ Kept(bf, bf')
  <2>1. CASE bf.failed # {}
    <3>1. PICK h \in bf.failed : h = Smallest(bf.failed)
      BY <1>1, <2>1, SmallestIn, Zenon
    <3>2. PICK u : u = [bf EXCEPT !.failed = @ \ {h}]
      BY Zenon
    <3>3. Good(u) /\ Loose(u, h) /\ Covered(u, {h})
      BY <1>1, <3>2, TakeFailed, Zenon
    <3>4. /\ u.workers = bf.workers /\ u.waiters = bf.waiters /\ u.waiting = bf.waiting
          /\ Saved(u) = Saved(bf) /\ Ended(u) = Ended(bf)
      BY <1>1, <3>2, ZenonT(60) DEF Queues, Saved, Ended
    <3>5. bf' = Put(u, w, Worker("pop", h, Nil))
      <4>1. bf' = [bf EXCEPT !.failed = @ \ {h}, !.workers[w] = Worker("pop", h, Nil)]
        BY <2>1, <3>1, Zenon DEF NextHeight
      <4> QED BY <3>2, <4>1, Zenon DEF Put
    <3> QED BY <1>1, <3>3, <3>4, <3>5, GetHeight, Zenon
  <2>2. CASE bf.failed = {} /\ bf.terminal = Nil /\ bf.fetchHeight >= InitialHeight
    <3>1. PICK h : h = bf.fetchHeight
      BY Zenon
    <3>2. PICK u : u = [bf EXCEPT !.fetchHeight = @ - 1]
      BY Zenon
    <3>3. Good(u) /\ Loose(u, h) /\ Covered(u, {h})
      BY <1>1, <2>2, <3>1, <3>2, Allocate, Zenon
    <3>4. /\ u.workers = bf.workers /\ u.waiters = bf.waiters /\ u.waiting = bf.waiting
          /\ Saved(u) = Saved(bf) /\ Ended(u) = Ended(bf)
      BY <1>1, <3>2, ZenonT(60) DEF Queues, Saved, Ended
    <3>5. bf' = Put(u, w, Worker("pop", h, Nil))
      <4>1. bf' = [bf EXCEPT !.fetchHeight = @ - 1, !.workers[w] = Worker("pop", h, Nil)]
        BY <2>2, <3>1, Zenon DEF NextHeight
      <4> QED BY <3>2, <4>1, Zenon DEF Put
    <3> QED BY <1>1, <3>3, <3>4, <3>5, GetHeight, Zenon
  <2>3. CASE bf.failed = {} /\ ~(bf.terminal = Nil /\ bf.fetchHeight >= InitialHeight)
    <3>1. bf' = [bf EXCEPT !.waiters = Append(@, w), !.workers[w].st = "waiting"]
      BY <2>3, Zenon DEF NextHeight
    <3> QED BY <1>1, <3>1, Wait, Zenon
  <2> QED BY <2>1, <2>2, <2>3, Zenon
<1>3. calls' = calls /\ lbReqs' = lbReqs /\ UNCHANGED <<valsSaved, bfResult>>
  BY Zenon DEF NextHeight
<1>4. CallsOwned(bf, DOMAIN calls) /\ calls \in [DOMAIN calls -> Responses \cup {Nil}]
      /\ lbReqs \subseteq [peer : Nodes, height : BfHeights]
  BY Zenon DEF IInv
<1>5. CallsOwned(bf', DOMAIN calls)
  BY <1>2, <1>4, KeptStored, Zenon
<1> QED BY <1>1, <1>2, <1>3, <1>4, <1>5, Stays, Zenon

\* Every step of backfill keeps the invariant.
LEMMA NextIInv == IInv /\ [BackfillNext]_bfVars => IInv'
<1> SUFFICES ASSUME IInv, [BackfillNext]_bfVars PROVE IInv'
  BY Zenon
<1>1. CASE UNCHANGED bfVars
  BY <1>1, Zenon DEF IInv, bfVars, SucceedsComplete
<1>2. ASSUME NEW w \in Workers,
             NextHeight(w) \/ Pop(w) \/ Popped(w) \/ Receive(w) \/ Timeout(w) \/ Cleanup(w)
      PROVE  IInv'
  BY <1>2, NextHeightStep, PopStep, PoppedStep, WorkerSteps, Zenon
<1>3. ASSUME NEW r \in lbReqs, NEW block \in (IF r.peer \in Reliable THEN {"good"} ELSE Answers),
             Respond(r, block)
      PROVE  IInv'
  <2>1. block \in {"good"} \cup Answers
    BY <1>3, Zenon
  <2> QED BY <1>3, <2>1, RespondStep, Zenon
<1>4. ASSUME NEW p \in Nodes, processPeerUpdate(p) PROVE IInv'
  BY <1>4, PeerStep, Zenon
<1>5. verifyNext \/ Verify \/ Done \/ Cancel => IInv'
  BY VerifyNextStep, VerifyStep, DoneStep, CancelStep, Zenon
<1> QED BY <1>1, <1>2, <1>3, <1>4, <1>5, Zenon DEF BackfillNext

\* Backfill, reactor.go with its block queue and its dispatcher: every height that was
\* handed out and not verified is with one worker, to be retried, pending or at the
\* verifier, and in one of these places only, or is below the terminal block; and when
\* backfill returns nil, the headers from the terminal block up to the start height are
\* stored, each with the validators of its height.  This holds for any number of workers
\* and peers, whatever the peers answer, time out or leave.
THEOREM BackfillCompleteHolds == BackfillSpec => []BackfillComplete
<1>1. IInv /\ [BackfillNext]_bfVars => IInv'
  BY NextIInv
<1> QED BY <1>1, InitIInv, Completes, PTL DEF BackfillSpec
===============================================================================
