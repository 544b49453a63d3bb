----------------------------- MODULE Pools_proofs -----------------------------
(***************************************************************************)
(* The evidence pool and the block pool.  The evidence pool neither loses  *)
(* evidence nor proposes it twice, and the counter that guards             *)
(* PendingEvidence covers it, for any evidence, any parameters and any     *)
(* number of crashes.  Block sync v0, for any peers, any limits and any    *)
(* chain: however the goroutines of the pool interleave and whatever the   *)
(* peers send, the blocks applied are those of the chain, the requests     *)
(* cover the heights without a gap, a block is held against the peer that  *)
(* sent it, and the count of pending requests is not too low.              *)
(***************************************************************************)
EXTENDS EvidencePool, BlockPool, TLAPS

\* What is used of finite sets and of the order of Nat.  FiniteFactsHold, at the end,
\* has it from the library.
FiniteFacts ==
  /\ IsFiniteSet({}) /\ Cardinality({}) = 0
  /\ \A a, b \in Int : IsFiniteSet(a .. b)
  /\ \A S : IsFiniteSet(S) =>
       /\ Cardinality(S) \in Nat
       /\ \A T \in SUBSET S : IsFiniteSet(T) /\ Cardinality(T) <= Cardinality(S)
       /\ \A x : /\ IsFiniteSet(S \cup {x}) /\ IsFiniteSet(S \ {x})
                 /\ x \notin S => Cardinality(S \cup {x}) = Cardinality(S) + 1
                 /\ x \in S => Cardinality(S \ {x}) = Cardinality(S) - 1
       /\ \A T : /\ Cardinality(S \ T) = Cardinality(S) - Cardinality(S \cap T)
                 /\ IsFiniteSet(T) =>
                      Cardinality(S \cup T) = Cardinality(S) + Cardinality(T) - Cardinality(S \cap T)
  /\ \A S \in SUBSET Nat : S # {} => \E x \in S : \A y \in S : x <= y

\* An interval is finite.
LEMMA Interval ==
  ASSUME FiniteFacts, NEW a \in Int, NEW b \in Int
  PROVE  IsFiniteSet(a .. b)
BY Zenon DEF FiniteFacts

\* A part of a finite set is finite, and not bigger.
LEMMA Subset ==
  ASSUME FiniteFacts, NEW S, IsFiniteSet(S), NEW T \in SUBSET S
  PROVE  IsFiniteSet(T) /\ Cardinality(T) <= Cardinality(S)
BY Zenon DEF FiniteFacts

\* A finite set has a number of elements.
LEMMA Count ==
  ASSUME FiniteFacts, NEW S, IsFiniteSet(S)
  PROVE  Cardinality(S) \in Nat
BY Zenon DEF FiniteFacts

\* One element more.
LEMMA CountAdded ==
  ASSUME FiniteFacts, NEW S, IsFiniteSet(S), NEW x
  PROVE  IsFiniteSet(S \cup {x}) /\ (x \notin S => Cardinality(S \cup {x}) = Cardinality(S) + 1)
BY Zenon DEF FiniteFacts

\* One element less.
LEMMA CountRemoved ==
  ASSUME FiniteFacts, NEW S, IsFiniteSet(S), NEW x
  PROVE  IsFiniteSet(S \ {x}) /\ (x \in S => Cardinality(S \ {x}) = Cardinality(S) - 1)
BY Zenon DEF FiniteFacts

\* Counting a difference.
LEMMA CountDifference ==
  ASSUME FiniteFacts, NEW S, NEW T, IsFiniteSet(S)
  PROVE  Cardinality(S \ T) = Cardinality(S) - Cardinality(S \cap T)
BY Zenon DEF FiniteFacts

\* Counting a union.
LEMMA CountUnion ==
  ASSUME FiniteFacts, NEW S, IsFiniteSet(S), NEW T, IsFiniteSet(T)
  PROVE  Cardinality(S \cup T) = Cardinality(S) + Cardinality(T) - Cardinality(S \cap T)
BY ZenonT(60) DEF FiniteFacts

\* A set of naturals has a least one.
LEMMA Least ==
  ASSUME FiniteFacts, NEW S \in SUBSET Nat, S # {}
  PROVE  \E x \in S : \A y \in S : x <= y
BY Zenon DEF FiniteFacts
--------------------------------------------------------------------------------
(* The evidence pool. *)

Pools == [pending : SUBSET Evidence, committed : SUBSET Evidence, list : SUBSET Evidence,
          size : Int, buffer : SUBSET Evidence, height : 1..MaxHeight,
          pruningHeight : Nat, pruningTime : Nat]

Covered(p) == p.size >= Cardinality(p.pending)

\* EvidenceKept is not inductive.  What AddEvidence has verified may get on the
\* chain before it is stored, and what is committed is told by the committed store
\* alone: both must be known to be marked or excused.
PoolIInv ==
  /\ EvidenceTypeOK
  /\ EvidenceKept
  /\ chain \subseteq ep.committed \cup unmarked
  /\ adding \cap chain \subseteq unmarked
-------------------------------------------------------------------------------
\* Evidence is finite.
LEMMA Finite ==
  ASSUME FiniteFacts, NEW S \in SUBSET Evidence
  PROVE  IsFiniteSet(S) /\ Cardinality(S) \in Nat
  BY EvidenceAssumption, Subset, Count

\* Of pending evidence there is one with the lowest height.
LEMMA FirstExists ==
  ASSUME FiniteFacts, NEW S \in SUBSET Evidence, S # {}
  PROVE  \E e \in S : \A k \in S : HeightOf[e] <= HeightOf[k]
<1> DEFINE T == {HeightOf[e] : e \in S}
<1>1. T \subseteq Nat /\ T # {}
  BY EvidenceAssumption
<1>2. PICK x \in T : \A y \in T : x <= y
  <2> HIDE DEF T
  <2> QED
    BY <1>1, Least, Zenon
<1>3. PICK e \in S : HeightOf[e] = x
  OBVIOUS
<1>4. \A k \in S : HeightOf[e] <= HeightOf[k]
  BY <1>2, <1>3, Zenon
<1> QED
  BY <1>4, Zenon

\* Evidence that has expired stays so.
LEMMA ExpiryIsFinal ==
  ASSUME NEW e \in Evidence, NEW h \in Nat, isExpired(h, e)
  PROVE  isExpired(h + 1, e)
<1>1. HeightOf[e] \in Nat /\ BlockTime \in Nat /\ MaxAgeDuration \in Nat /\ MaxAgeNumBlocks \in Nat
  BY EvidenceAssumption
<1>2. (h + 1) * BlockTime = h * BlockTime + BlockTime
  BY <1>1
<1>3. h * BlockTime \in Nat /\ HeightOf[e] * BlockTime \in Nat
  BY <1>1
<1> QED
  BY <1>1, <1>2, <1>3 DEF isExpired, Time

\* The updates of a pool that the operators make.
LEMMA PoolUpdates ==
  ASSUME NEW p \in Pools
  PROVE  /\ \A S \in SUBSET Evidence, n \in Int :
              [p EXCEPT !.pending = S, !.size = n] \in Pools
         /\ \A L \in SUBSET Evidence, B \in SUBSET Evidence :
              [p EXCEPT !.list = L, !.buffer = B] \in Pools
         /\ \A h \in 1..MaxHeight :
              [p EXCEPT !.height = h] \in Pools
         /\ \A C \in SUBSET Evidence, S \in SUBSET Evidence, L \in SUBSET Evidence, n \in Int :
              [p EXCEPT !.committed = C, !.pending = S, !.list = L, !.size = n] \in Pools
         /\ \A S \in SUBSET Evidence, L \in SUBSET Evidence, n \in Int :
              [p EXCEPT !.pending = S, !.list = L, !.size = n] \in Pools
         /\ \A n \in Nat, m \in Nat :
              [p EXCEPT !.pruningHeight = n, !.pruningTime = m] \in Pools
         /\ \A h \in 1..MaxHeight, B \in SUBSET Evidence :
              [p EXCEPT !.height = h, !.buffer = B] \in Pools
         /\ \A n \in Int, L \in SUBSET Evidence :
              [p EXCEPT !.size = n, !.list = L] \in Pools
         /\ \A C \in SUBSET Evidence :
              [p EXCEPT !.committed = C] \in Pools
         /\ \A L \in SUBSET Evidence :
              [p EXCEPT !.list = L] \in Pools
         /\ \A B \in SUBSET Evidence :
              [p EXCEPT !.buffer = B] \in Pools
  BY Zenon DEF Pools

\* addPendingEvidence adds to the counter at least what it adds to pending.
LEMMA AddPending ==
  ASSUME FiniteFacts, NEW p \in Pools, Covered(p), NEW es \in SUBSET Evidence
  PROVE  LET q == addPending(p, es)
         IN  /\ q \in Pools /\ Covered(q) /\ q.pending = p.pending \cup es
             /\ q.committed = p.committed /\ q.list = p.list
             /\ q.buffer = p.buffer /\ q.height = p.height
<1> DEFINE q == addPending(p, es)
<1>1. Cardinality(es) \in Nat /\ Cardinality(p.pending) \in Nat /\ p.pending \in SUBSET Evidence
  BY Finite DEF Pools
<1>2. Cardinality(p.pending \cup es) <= Cardinality(p.pending) + Cardinality(es)
  <2>1. Cardinality(p.pending \cup es)
          = Cardinality(p.pending) + Cardinality(es) - Cardinality(p.pending \cap es)
    BY <1>1, Finite, CountUnion
  <2>2. Cardinality(p.pending \cap es) \in Nat
    BY <1>1, Finite
  <2> QED
    BY <1>1, <2>1, <2>2
<1>3. q.pending = p.pending \cup es /\ q.size = p.size + Cardinality(es)
  BY DEF addPending, Pools
<1>4. Cardinality(p.pending \cup es) \in Nat /\ p.size \in Int
  BY <1>1, Finite DEF Pools
<1>5. Covered(q)
  BY <1>1, <1>2, <1>3, <1>4 DEF Covered
<1>6. q \in Pools
  <2>1. p.pending \cup es \in SUBSET Evidence /\ p.size + Cardinality(es) \in Int
    BY <1>1 DEF Pools
  <2> QED
    BY <2>1, PoolUpdates, Zenon DEF addPending
<1> QED
  BY <1>3, <1>5, <1>6 DEF addPending, Pools

\* Removing what is pending, and as many from the counter.
LEMMA Removal ==
  ASSUME FiniteFacts, NEW p \in Pools, Covered(p), NEW es \in SUBSET Evidence
  PROVE  /\ p.size - Cardinality(es \cap p.pending) \in Int
         /\ p.size - Cardinality(es \cap p.pending) >= Cardinality(p.pending \ es)
<1>1. p.pending \in SUBSET Evidence /\ p.size \in Int
  BY DEF Pools
<1>2. Cardinality(p.pending) \in Nat /\ Cardinality(es \cap p.pending) \in Nat
  BY <1>1, Finite
<1>3. Cardinality(p.pending \ es) = Cardinality(p.pending) - Cardinality(p.pending \cap es)
  BY <1>1, Finite, CountDifference, Zenon
<1>4. Cardinality(p.pending \cap es) = Cardinality(es \cap p.pending)
  <2>1. p.pending \cap es = es \cap p.pending
    OBVIOUS
  <2> QED
    BY <2>1
<1> HIDE DEF Covered
<1>5. p.size >= Cardinality(p.pending)
  BY DEF Covered
<1> QED
  BY <1>1, <1>2, <1>3, <1>4, <1>5

\* processConsensusBuffer stores what consensus reported.
LEMMA ProcessConsensusBuffer ==
  ASSUME FiniteFacts, NEW p \in Pools, Covered(p), NEW h \in 1..MaxHeight
  PROVE  LET q == processConsensusBuffer(p, h)
         IN  /\ q \in Pools /\ Covered(q) /\ q.committed = p.committed /\ q.height = p.height
             /\ \E new \in SUBSET Evidence :
                  /\ new \cap p.committed = {}
                  /\ q.pending = p.pending \cup new /\ q.list = p.list \cup new
<1> DEFINE new == {e \in p.buffer : HeightOf[e] <= h /\ ~isPending(p, e) /\ ~isCommitted(p, e)}
           a   == addPending(p, new)
           q   == [a EXCEPT !.list = a.list \cup new, !.buffer = {}]
<1>1. new \in SUBSET Evidence /\ new \cap p.committed = {}
  BY DEF Pools, isCommitted
<1>2. processConsensusBuffer(p, h) = q
  BY Zenon DEF processConsensusBuffer
<1> HIDE DEF new
<1>3. /\ a \in Pools /\ Covered(a) /\ a.pending = p.pending \cup new
      /\ a.committed = p.committed /\ a.list = p.list /\ a.height = p.height
  BY <1>1, AddPending
<1> HIDE DEF a
<1>4. q \in Pools
  <2>1. a.list \cup new \in SUBSET Evidence
    BY <1>1, <1>3 DEF Pools
  <2> QED
    BY <2>1, <1>3, PoolUpdates, Zenon
<1>5. /\ q.pending = a.pending /\ q.size = a.size /\ q.committed = a.committed
      /\ q.height = a.height /\ q.list = a.list \cup new
  BY <1>3 DEF Pools
<1>6. Covered(q)
  BY <1>3, <1>5, Zenon DEF Covered
<1> HIDE DEF q
<1> QED
  BY <1>1, <1>2, <1>3, <1>4, <1>5, <1>6

\* markEvidenceAsCommitted moves evidence from pending to committed.
LEMMA MarkEvidenceAsCommitted ==
  ASSUME FiniteFacts, NEW p \in Pools, Covered(p), NEW es \in SUBSET Evidence
  PROVE  LET q == markEvidenceAsCommitted(p, es)
         IN  /\ q \in Pools /\ Covered(q) /\ q.height = p.height
             /\ q.committed = p.committed \cup es /\ q.pending = p.pending \ es
             /\ q.list = p.list \ (es \cap p.pending)
<1> DEFINE q == markEvidenceAsCommitted(p, es)
<1>1. /\ p.committed \cup es \in SUBSET Evidence /\ p.pending \ es \in SUBSET Evidence
      /\ p.list \ (es \cap p.pending) \in SUBSET Evidence
  BY DEF Pools
<1>2. q \in Pools
  BY <1>1, Removal, PoolUpdates, Zenon DEF markEvidenceAsCommitted
<1>3. /\ q.height = p.height /\ q.committed = p.committed \cup es /\ q.pending = p.pending \ es
      /\ q.list = p.list \ (es \cap p.pending) /\ q.size = p.size - Cardinality(es \cap p.pending)
  BY Zenon DEF markEvidenceAsCommitted, Pools
<1>4. Covered(q)
  BY <1>3, Removal DEF Covered
<1> QED
  BY <1>2, <1>3, <1>4

\* removeExpiredPendingEvidence removes what is expired, and finds the next height to prune at.
LEMMA RemoveExpired ==
  ASSUME FiniteFacts, NEW p \in Pools, Covered(p)
  PROVE  LET q == removeExpiredPendingEvidence(p)
         IN  /\ q \in Pools /\ Covered(q) /\ q.height = p.height /\ q.committed = p.committed
             /\ q.pending = {e \in p.pending : ~isExpired(p.height, e)}
             /\ q.list = {e \in p.list : ~(e \in p.pending /\ isExpired(p.height, e))}
<1> DEFINE expired == {e \in p.pending : isExpired(p.height, e)}
           rest    == p.pending \ expired
           first   == CHOOSE e \in rest : \A k \in rest : HeightOf[e] <= HeightOf[k]
           a       == [p EXCEPT !.pending = rest, !.list = p.list \ expired,
                                !.size = p.size - Cardinality(expired)]
           ph      == IF rest = {} THEN p.height ELSE HeightOf[first] + MaxAgeNumBlocks + 1
           pt      == IF rest = {} THEN Time(p.height) ELSE Time(HeightOf[first]) + MaxAgeDuration + 1
           q       == [a EXCEPT !.pruningHeight = ph, !.pruningTime = pt]
           r       == IF rest = {}
                      THEN [a EXCEPT !.pruningHeight = p.height, !.pruningTime = Time(p.height)]
                      ELSE [a EXCEPT !.pruningHeight = HeightOf[first] + MaxAgeNumBlocks + 1,
                                     !.pruningTime = Time(HeightOf[first]) + MaxAgeDuration + 1]
<1>1. expired \in SUBSET Evidence /\ expired \cap p.pending = expired
  BY Zenon DEF Pools
<1>2. rest \in SUBSET Evidence /\ p.list \ expired \in SUBSET Evidence
  BY DEF Pools
<1>3. p.size - Cardinality(expired) \in Int /\ p.size - Cardinality(expired) >= Cardinality(rest)
  <2> HIDE DEF expired
  <2> QED
    BY <1>1, Removal, Zenon
<1>4. removeExpiredPendingEvidence(p) = q
  <2>1. removeExpiredPendingEvidence(p) = r
    BY Zenon DEF removeExpiredPendingEvidence
  <2> HIDE DEF first, a, rest
  <2>2. r = q
    BY Zenon
  <2> QED
    BY <2>1, <2>2
<1>5. rest # {} => first \in rest
  <2> HIDE DEF rest
  <2> QED
    BY <1>2, FirstExists
<1>6. ph \in Nat /\ pt \in Nat
  <2>1. p.height \in Nat
    BY EvidenceAssumption DEF Pools
  <2>2. rest # {} => HeightOf[first] \in Nat
    <3> HIDE DEF first, rest
    <3> QED
      BY <1>2, <1>5, EvidenceAssumption
  <2>3. \A x \in Nat : Time(x) \in Nat
    BY EvidenceAssumption DEF Time
  <2> HIDE DEF first, rest
  <2> QED
    BY <2>1, <2>2, <2>3, EvidenceAssumption
<1>7. {e \in p.pending : ~isExpired(p.height, e)} = rest
  OBVIOUS
<1>8. {e \in p.list : ~(e \in p.pending /\ isExpired(p.height, e))} = p.list \ expired
  OBVIOUS
<1> HIDE DEF ph, pt, first, rest, expired
<1>9. a \in Pools
  BY <1>2, <1>3, PoolUpdates, Zenon
<1>10. /\ a.pending = rest /\ a.list = p.list \ expired /\ a.size = p.size - Cardinality(expired)
       /\ a.committed = p.committed /\ a.height = p.height
  BY DEF Pools
<1> HIDE DEF a
<1>11. q \in Pools
  BY <1>6, <1>9, PoolUpdates, Zenon
<1>12. /\ q.pending = a.pending /\ q.list = a.list /\ q.size = a.size
       /\ q.committed = a.committed /\ q.height = a.height
  BY <1>9 DEF Pools
<1> HIDE DEF q
<1>13. Covered(q)
  BY <1>3, <1>10, <1>12, Zenon DEF Covered
<1> QED
  BY <1>4, <1>7, <1>8, <1>10, <1>11, <1>12, <1>13, Zenon

\* Update of a pool that holds the block's evidence: what leaves is on the chain or
\* has expired, and what enters was not committed.
LEMMA Update ==
  ASSUME FiniteFacts, NEW p \in Pools, Covered(p), NEW h \in 1..MaxHeight,
         NEW es \in SUBSET Evidence, NEW C, p.list \subseteq p.pending \cup C
  PROVE  LET q == Updated(p, h, es)
         IN  /\ q \in Pools /\ Covered(q) /\ q.height = h /\ q.committed = p.committed \cup es
             /\ \A e \in q.pending : e \notin es /\ (e \in p.pending \/ e \notin p.committed)
             /\ \A e \in p.pending : e \in q.pending \cup es \/ isExpired(h, e)
             /\ q.list \subseteq q.pending \cup C \cup es
<1> DEFINE a == processConsensusBuffer(p, h)
           b == [a EXCEPT !.height = h]
           m == markEvidenceAsCommitted(b, es)
           x == removeExpiredPendingEvidence(m)
           q == IF m.size > 0 /\ h > m.pruningHeight /\ Time(h) > m.pruningTime THEN x ELSE m
<1>1. Updated(p, h, es) = q
  BY Zenon DEF Updated
<1>2. PICK new \in SUBSET Evidence :
        /\ a \in Pools /\ Covered(a) /\ a.committed = p.committed
        /\ new \cap p.committed = {}
        /\ a.pending = p.pending \cup new /\ a.list = p.list \cup new
  BY ProcessConsensusBuffer, Zenon
<1> HIDE DEF a
<1>3. /\ b \in Pools /\ b.size = a.size /\ b.height = h
      /\ b.committed = a.committed /\ b.pending = a.pending /\ b.list = a.list
  <2>1. b \in Pools
    BY <1>2, PoolUpdates, Zenon
  <2> QED
    BY <1>2, <2>1 DEF Pools
<1>4. Covered(b)
  BY <1>2, <1>3, Zenon DEF Covered
<1> HIDE DEF b
<1>5. /\ m \in Pools /\ Covered(m) /\ m.height = h
      /\ m.committed = b.committed \cup es /\ m.pending = b.pending \ es
      /\ m.list = b.list \ (es \cap b.pending)
  BY <1>3, <1>4, MarkEvidenceAsCommitted, Zenon
<1> HIDE DEF m
<1>6. /\ m.committed = p.committed \cup es
      /\ \A e \in m.pending : e \notin es /\ (e \in p.pending \/ e \notin p.committed)
      /\ \A e \in p.pending : e \in m.pending \cup es
      /\ m.list \subseteq m.pending \cup C \cup es
  BY <1>2, <1>3, <1>5, Zenon
<1>7. /\ x \in Pools /\ Covered(x) /\ x.height = h /\ x.committed = m.committed
      /\ x.pending = {e \in m.pending : ~isExpired(h, e)}
      /\ x.list = {e \in m.list : ~(e \in m.pending /\ isExpired(h, e))}
  BY <1>5, RemoveExpired, Zenon
<1> HIDE DEF x
<1>8. CASE q = m
  BY <1>1, <1>5, <1>6, <1>8, Zenon
<1>9. CASE q = x
  <2>1. \A e \in x.pending : e \notin es /\ (e \in p.pending \/ e \notin p.committed)
    BY <1>6, <1>7, Zenon
  <2>2. \A e \in p.pending : e \in x.pending \cup es \/ isExpired(h, e)
    BY <1>6, <1>7
  <2>3. x.list \subseteq x.pending \cup C \cup es
    BY <1>6, <1>7
  <2> HIDE DEF q
  <2> QED
    BY <1>1, <1>6, <1>7, <1>9, <2>1, <2>2, <2>3, Zenon
<1>10. q = m \/ q = x
  BY Zenon
<1> QED
  BY <1>8, <1>9, <1>10

\* A restart at height h: the counter and the list are those of what is stored.
LEMMA Restart ==
  ASSUME FiniteFacts, NEW p \in Pools, Covered(p), NEW h \in 1..MaxHeight
  PROVE  LET q == NewPool(p, h)
         IN  /\ q \in Pools /\ Covered(q) /\ q.height = h /\ q.committed = p.committed
             /\ q.pending = {e \in p.pending : ~isExpired(h, e)} /\ q.list = q.pending
<1> DEFINE a == [p EXCEPT !.height = h, !.buffer = {}]
           x == removeExpiredPendingEvidence(a)
           q == [x EXCEPT !.size = Cardinality(x.pending), !.list = x.pending]
<1>1. NewPool(p, h) = q
  BY DEF NewPool
<1>2. /\ a \in Pools /\ a.size = p.size /\ a.pending = p.pending
      /\ a.committed = p.committed /\ a.height = h
  <2>1. a \in Pools
    BY PoolUpdates, Zenon
  <2> QED
    BY <2>1 DEF Pools
<1>3. Covered(a)
  BY <1>2, Zenon DEF Covered
<1> HIDE DEF a
<1>4. /\ x \in Pools /\ x.height = h /\ x.committed = a.committed
      /\ x.pending = {e \in a.pending : ~isExpired(h, e)}
  BY <1>2, <1>3, RemoveExpired
<1> HIDE DEF x
<1>5. x.pending \in SUBSET Evidence /\ Cardinality(x.pending) \in Int
  BY <1>4, Finite DEF Pools
<1>6. q \in Pools
  BY <1>4, <1>5, PoolUpdates, Zenon
<1>7. /\ q.size = Cardinality(x.pending) /\ q.list = x.pending /\ q.pending = x.pending
      /\ q.height = x.height /\ q.committed = x.committed
  BY <1>4 DEF Pools
<1>8. Covered(q)
  BY <1>5, <1>7 DEF Covered
<1> HIDE DEF q
<1> QED
  BY <1>1, <1>2, <1>4, <1>6, <1>7, <1>8

\* What a block's evidence becomes when it is checked.
LEMMA CheckedPool ==
  ASSUME FiniteFacts, NEW p \in Pools, Covered(p), NEW es \in SUBSET Evidence
  PROVE  LET q == Checked(p, es)
         IN  /\ q \in Pools /\ Covered(q) /\ q.pending = p.pending \cup es
             /\ q.committed = p.committed /\ q.list = p.list
             /\ q.buffer = p.buffer /\ q.height = p.height
<1> DEFINE new == {e \in es : e \in LightEv \/ ~isPending(p, e)}
<1>1. new \in SUBSET Evidence /\ p.pending \cup new = p.pending \cup es
  BY DEF isPending
<1>2. Checked(p, es) = addPending(p, new)
  BY DEF Checked
<1> HIDE DEF new
<1> QED
  BY <1>1, <1>2, AddPending
-------------------------------------------------------------------------------
\* The invariant in terms of the fields of the pool.
LEMMA PoolUnfolded ==
  PoolIInv <=> /\ ep \in Pools /\ Covered(ep)
               /\ adding \subseteq Evidence /\ chain \subseteq Evidence /\ known \subseteq Evidence
               /\ epCrashes \in 0..MaxCrashes + 1
               /\ \A e \in known : e \in ep.pending \cup chain \/ isExpired(ep.height, e)
               /\ ep.pending \cap chain \subseteq unmarked
               /\ ep.list \subseteq ep.pending \cup chain
               /\ chain \subseteq ep.committed \cup unmarked
               /\ adding \cap chain \subseteq unmarked
  BY DEF PoolIInv, EvidenceTypeOK, EvidenceKept, SizeCovers, NotLost, CommittedNotPending,
         GossipsPending, Covered, Pools

\* And after a step.
LEMMA PoolUnfoldedNext ==
  PoolIInv' <=> /\ ep' \in Pools /\ Covered(ep')
                /\ adding' \subseteq Evidence /\ chain' \subseteq Evidence /\ known' \subseteq Evidence
                /\ epCrashes' \in 0..MaxCrashes + 1
                /\ \A e \in known' : e \in ep'.pending \cup chain' \/ isExpired(ep'.height, e)
                /\ ep'.pending \cap chain' \subseteq unmarked'
                /\ ep'.list \subseteq ep'.pending \cup chain'
                /\ chain' \subseteq ep'.committed \cup unmarked'
                /\ adding' \cap chain' \subseteq unmarked'
  BY Zenon DEF PoolIInv, EvidenceTypeOK, EvidenceKept, SizeCovers, NotLost, CommittedNotPending,
         GossipsPending, Covered, Pools

\* NewPool on an empty database.
LEMMA PoolInitIInv ==
  ASSUME FiniteFacts, EvidenceInit
  PROVE  PoolIInv
<1>1. ep \in Pools
  <2>1. 1 \in 1..MaxHeight /\ Time(1) \in Nat
    BY EvidenceAssumption DEF Time
  <2> QED
    BY <2>1 DEF EvidenceInit, EvidenceStart, Pools
<1>2. Covered(ep)
  BY DEF FiniteFacts, EvidenceInit, EvidenceStart, Covered
<1>3. epCrashes \in 0..MaxCrashes + 1
  BY EvidenceAssumption DEF EvidenceInit, EvidenceStart
<1> QED
  BY <1>1, <1>2, <1>3, PoolUnfolded DEF EvidenceInit, EvidenceStart

\* Evidence known at height h is still accounted for at the next one.
LEMMA KnownNextHeight ==
  ASSUME PoolIInv, NEW e \in known, e \notin ep.pending, e \notin chain
  PROVE  isExpired(ep.height, e) /\ isExpired(ep.height + 1, e)
<1>1. isExpired(ep.height, e) /\ ep.height \in Nat /\ e \in Evidence
  BY PoolUnfolded, EvidenceAssumption DEF Pools
<1> QED
  BY <1>1, ExpiryIsFinal

\* AddEvidence, in its three critical sections, and ReportConflictingVotes.
LEMMA AddingIInv ==
  ASSUME FiniteFacts, PoolIInv, NEW e \in Evidence,
         AddEvidence(e) \/ AddVerified(e) \/ AddRectified(e) \/ ReportConflictingVotes(e)
  PROVE  PoolIInv'
<1>0. ep \in Pools /\ Covered(ep) /\ {e} \in SUBSET Evidence
  BY PoolUnfolded, Zenon
<1> DEFINE a == addPending(ep, {e})
<1>1. /\ a \in Pools /\ Covered(a) /\ a.pending = ep.pending \cup {e}
      /\ a.committed = ep.committed /\ a.list = ep.list /\ a.height = ep.height
  BY <1>0, AddPending, Zenon
<1> HIDE DEF a
<1>2. CASE AddEvidence(e)
  BY <1>2, PoolUnfolded, PoolUnfoldedNext DEF AddEvidence, isCommitted
<1>3. CASE AddVerified(e)
  <2>1. ep' = [a EXCEPT !.list = a.list \cup {e}]
    BY <1>3 DEF AddVerified, a
  <2>2. ep' \in Pools
    <3>1. a.list \cup {e} \in SUBSET Evidence
      BY <1>1 DEF Pools
    <3> QED
      BY <1>1, <2>1, <3>1, PoolUpdates, Zenon
  <2>3. /\ ep'.pending = ep.pending \cup {e} /\ ep'.list = ep.list \cup {e}
        /\ ep'.committed = ep.committed /\ ep'.height = ep.height /\ ep'.size = a.size
    BY <1>1, <2>1 DEF Pools
  <2>4. Covered(ep')
    BY <1>1, <2>3, Zenon DEF Covered
  <2> QED
    BY <1>3, <2>2, <2>3, <2>4, PoolUnfolded, PoolUnfoldedNext, Zenon DEF AddVerified
<1>4. CASE AddRectified(e)
  <2>1. ep' = a
    BY <1>4 DEF AddRectified, a
  <2> QED
    BY <1>1, <1>4, <2>1, PoolUnfolded, PoolUnfoldedNext, Zenon DEF AddRectified
<1>5. CASE ReportConflictingVotes(e)
  <2>1. ep' \in Pools
    <3>1. ep.buffer \cup {e} \in SUBSET Evidence
      BY <1>0 DEF Pools
    <3> QED
      BY <1>0, <1>5, <3>1, PoolUpdates, Zenon DEF ReportConflictingVotes
  <2>2. /\ ep'.pending = ep.pending /\ ep'.list = ep.list /\ ep'.size = ep.size
        /\ ep'.committed = ep.committed /\ ep'.height = ep.height
    BY <1>0, <1>5 DEF ReportConflictingVotes, Pools
  <2>3. Covered(ep')
    BY <1>0, <2>2, Zenon DEF Covered
  <2> QED
    BY <1>5, <2>1, <2>2, <2>3, PoolUnfolded, PoolUnfoldedNext DEF ReportConflictingVotes
<1> QED
  BY <1>2, <1>3, <1>4, <1>5, Zenon

\* CheckEvidence of a proposed block.
LEMMA ValidateBlockIInv ==
  ASSUME FiniteFacts, PoolIInv, NEW es \in SUBSET Evidence, ValidateBlock(es)
  PROVE  PoolIInv'
<1>0. ep \in Pools /\ Covered(ep)
  BY PoolUnfolded, Zenon
<1>1. /\ ep' \in Pools /\ Covered(ep') /\ ep'.pending = ep.pending \cup es
      /\ ep'.committed = ep.committed /\ ep'.list = ep.list /\ ep'.height = ep.height
  BY <1>0, CheckedPool, Zenon DEF ValidateBlock
<1> QED
  BY <1>1, PoolUnfolded, PoolUnfoldedNext, Zenon DEF ValidateBlock

\* CheckEvidence and Update of a committed block.
LEMMA ApplyBlockIInv ==
  ASSUME FiniteFacts, PoolIInv, NEW es \in SUBSET Evidence, ApplyBlock(es)
  PROVE  PoolIInv'
<1> DEFINE c == Checked(ep, es)
           h == ep.height + 1
<1>0. ep \in Pools /\ Covered(ep) /\ h \in 1..MaxHeight
  BY PoolUnfolded, EvidenceAssumption DEF ApplyBlock, Proposable, Pools
<1>1. /\ c \in Pools /\ Covered(c) /\ c.pending = ep.pending \cup es
      /\ c.committed = ep.committed /\ c.list = ep.list
  BY <1>0, CheckedPool, Zenon
<1>2. ep' = Updated(c, h, es)
  BY Zenon DEF ApplyBlock
<1>3. c.list \subseteq c.pending \cup chain
  BY <1>1, PoolUnfolded, Zenon
<1> HIDE DEF c, h
<1>4. /\ ep' \in Pools /\ Covered(ep') /\ ep'.height = h /\ ep'.committed = c.committed \cup es
      /\ \A e \in ep'.pending : e \notin es /\ (e \in c.pending \/ e \notin c.committed)
      /\ \A e \in c.pending : e \in ep'.pending \cup es \/ isExpired(h, e)
      /\ ep'.list \subseteq ep'.pending \cup chain \cup es
  BY <1>0, <1>1, <1>2, <1>3, Update
<1>5. /\ chain' = chain \cup es /\ known' = known \cup es \cup ep'.pending
      /\ unmarked' = unmarked \cup (adding \cap es) /\ adding' = adding /\ epCrashes' = epCrashes
  BY Zenon DEF ApplyBlock
<1>6. \A e \in known' : e \in ep'.pending \cup chain' \/ isExpired(ep'.height, e)
  BY <1>1, <1>4, <1>5, KnownNextHeight, Zenon DEF h
<1>7. known' \subseteq Evidence /\ chain' \subseteq Evidence
  BY <1>4, <1>5, PoolUnfolded, Zenon DEF Pools
<1>8. ep'.pending \cap chain' \subseteq unmarked'
  BY <1>1, <1>4, <1>5, PoolUnfolded, Zenon
<1>9. chain' \subseteq ep'.committed \cup unmarked' /\ adding' \cap chain' \subseteq unmarked'
  BY <1>1, <1>4, <1>5, PoolUnfolded, Zenon
<1> QED
  BY <1>4, <1>5, <1>6, <1>7, <1>8, <1>9, PoolUnfolded, PoolUnfoldedNext, Zenon

\* A crash, and NewPool.
LEMMA CrashIInv ==
  ASSUME FiniteFacts, PoolIInv, Crash
  PROVE  PoolIInv'
<1>0. ep \in Pools /\ Covered(ep) /\ ep.height \in 1..MaxHeight
  BY PoolUnfolded, Zenon DEF Pools
<1>1. /\ ep' \in Pools /\ Covered(ep') /\ ep'.height = ep.height /\ ep'.committed = ep.committed
      /\ ep'.pending = {e \in ep.pending : ~isExpired(ep.height, e)} /\ ep'.list = ep'.pending
  BY <1>0, Restart, Zenon DEF Crash
<1>2. epCrashes' \in 0..MaxCrashes + 1
  BY PoolUnfolded, EvidenceAssumption DEF Crash
<1> QED
  BY <1>1, <1>2, PoolUnfolded, PoolUnfoldedNext DEF Crash

\* A crash within Update, and NewPool.
LEMMA CrashInBlockIInv ==
  ASSUME FiniteFacts, PoolIInv, NEW es \in SUBSET Evidence, CrashInBlock(es)
  PROVE  PoolIInv'
<1> DEFINE c == Checked(ep, es)
           h == ep.height + 1
<1>0. ep \in Pools /\ Covered(ep) /\ h \in 1..MaxHeight
  BY PoolUnfolded, EvidenceAssumption DEF CrashInBlock, Proposable, Pools
<1>1. /\ c \in Pools /\ Covered(c) /\ c.pending = ep.pending \cup es
      /\ c.committed = ep.committed
  BY <1>0, CheckedPool
<1>2. PICK marked \in {{}, es} : ep' = NewPool([c EXCEPT !.committed = c.committed \cup marked], h)
  BY Zenon DEF CrashInBlock
<1> HIDE DEF c, h
<1> DEFINE d == [c EXCEPT !.committed = c.committed \cup marked]
<1>3. d \in Pools
  <2>1. c.committed \cup marked \in SUBSET Evidence
    BY <1>1, <1>2 DEF Pools
  <2> QED
    BY <1>1, <2>1, PoolUpdates, Zenon
<1>4. d.pending = c.pending /\ d.size = c.size /\ d.committed = c.committed \cup marked
  BY <1>1 DEF Pools
<1>5. Covered(d)
  BY <1>1, <1>4 DEF Covered
<1> HIDE DEF d
<1>6. ep' = NewPool(d, h)
  BY <1>2 DEF d
<1>7. /\ ep' \in Pools /\ Covered(ep') /\ ep'.height = h /\ ep'.committed = d.committed
      /\ ep'.pending = {e \in d.pending : ~isExpired(h, e)} /\ ep'.list = ep'.pending
  BY <1>0, <1>3, <1>5, <1>6, Restart
<1>8. /\ chain' = chain \cup es /\ known' = known \cup es /\ adding' = {}
      /\ unmarked' = unmarked \cup es
  BY DEF CrashInBlock
<1>9. epCrashes' \in 0..MaxCrashes + 1
  BY PoolUnfolded, EvidenceAssumption DEF CrashInBlock
<1>10. \A e \in known' : e \in ep'.pending \cup chain' \/ isExpired(ep'.height, e)
  BY <1>1, <1>4, <1>7, <1>8, KnownNextHeight DEF h
<1>11. known' \subseteq Evidence /\ chain' \subseteq Evidence
  BY <1>8, PoolUnfolded, Zenon
<1>12. ep'.pending \cap chain' \subseteq unmarked'
  BY <1>1, <1>4, <1>7, <1>8, PoolUnfolded, Zenon
<1>13. chain' \subseteq ep'.committed \cup unmarked'
  BY <1>1, <1>4, <1>7, <1>8, PoolUnfolded
<1> QED
  BY <1>7, <1>8, <1>9, <1>10, <1>11, <1>12, <1>13, PoolUnfoldedNext

\* Every step of the evidence pool keeps the invariant.
LEMMA PoolNextIInv ==
  ASSUME FiniteFacts, PoolIInv, [EvidenceNext]_epVars
  PROVE  PoolIInv'
<1>1. CASE UNCHANGED epVars
  BY <1>1, PoolUnfolded, PoolUnfoldedNext DEF epVars
<1> QED
  BY <1>1, AddingIInv, ValidateBlockIInv, ApplyBlockIInv, CrashIInv, CrashInBlockIInv, Zenon DEF EvidenceNext
--------------------------------------------------------------------------------
(* The block pool. *)
Requester == [pc : {"pick", "picked", "wait", "redo"}, picked : Peers \cup {None},
              peerID : Peers \cup {None}, redoCh : Peers \cup {None},
              block : [value : Blocks, from : Peers] \cup {None}]

\* BlockFromItsPeer is not inductive: a requester that is choosing a peer must have
\* neither a peer nor a block, or the peer it chooses would be held for the block of
\* another.
Owned(r) ==
  /\ r.pc \in {"pick", "picked"} => r.peerID = None /\ r.block = None
  /\ r.pc = "picked" => r.picked \in Peers
  /\ r.block # None => r.block.from = r.peerID

BPPeer == [base : Int, height : 0 .. Top, numPending : Int, didTimeout : BOOLEAN]

Pending == {h \in DOMAIN requesters : requesters[h].block = None}

IInv ==
  /\ poolHeight \in 1 .. Top + 1
  /\ requesters \in [DOMAIN requesters -> Requester]
  /\ DOMAIN requesters \subseteq 1 .. Top
  /\ \A h \in DOMAIN requesters : Owned(requesters[h])
  /\ bpPeers \in [DOMAIN bpPeers -> BPPeer] /\ DOMAIN bpPeers \subseteq Peers
  /\ maxPeerHeight \in 0 .. Top /\ numPending \in Int
  /\ blockStore \in Seq(Blocks)
  /\ peeked # None => peeked.first \in Blocks
  /\ RequestersContiguous
  /\ ChainApplied
  /\ numPending >= Cardinality(Pending)
-------------------------------------------------------------------------------
\* Of heights of the chain there is a biggest one.
LEMMA HighestPeer ==
  ASSUME FiniteFacts, NEW S \in SUBSET (0 .. Top), S # {}
  PROVE  Max(S) \in S
<1> DEFINE T == {Top - x : x \in S}
<1>1. T \subseteq Nat /\ T # {}
  BY BlockPoolAssumption
<1>2. PICK t \in T : \A y \in T : t <= y
  <2> HIDE DEF T
  <2> QED BY <1>1, Least, Zenon
<1>3. PICK x \in S : t = Top - x
  OBVIOUS
<1>4. \A y \in S : x >= y
  <2> SUFFICES ASSUME NEW y \in S PROVE x >= y
    BY Zenon
  <2>1. t <= Top - y
    BY <1>2, Zenon
  <2> QED BY <1>3, <2>1, BlockPoolAssumption
<1> QED BY <1>4, Zenon DEF Max

\* The heights requested are finitely many.
LEMMA RangeFinite ==
  ASSUME FiniteFacts, NEW S \in SUBSET (1 .. Top)
  PROVE  IsFiniteSet(S) /\ Cardinality(S) \in Nat
<1>1. IsFiniteSet(1 .. Top)
  <2>1. 1 \in Int /\ Top \in Int
    BY BlockPoolAssumption
  <2> QED BY <2>1, Interval, Zenon
<1>2. IsFiniteSet(S)
  BY <1>1, Subset, Zenon
<1> QED BY <1>2, Count, Zenon

\* The pool starts without requesters or peers.
LEMMA InitIInv ==
  ASSUME FiniteFacts, Init
  PROVE  IInv
<1>1. DOMAIN requesters = {} /\ DOMAIN bpPeers = {} /\ Pending = {}
  BY DEF Init, Start, Pending
<1>2. Cardinality({}) = 0
  BY Zenon DEF FiniteFacts
<1> QED BY <1>1, <1>2, BlockPoolAssumption DEF Init, Start, IInv, RequestersContiguous, ChainApplied
-------------------------------------------------------------------------------
\* Removing peers redoes requests: no block and no count changes.
LEMMA RemovePeers ==
  ASSUME FiniteFacts, IInv, NEW S
  PROVE  /\ RedoAll(S) \in [DOMAIN requesters -> Requester]
         /\ \A h \in DOMAIN requesters :
              /\ RedoAll(S)[h].block = requesters[h].block
              /\ RedoAll(S)[h].pc = requesters[h].pc
              /\ Owned(RedoAll(S)[h])
         /\ DOMAIN PeersWithout(S) \subseteq DOMAIN bpPeers
         /\ PeersWithout(S) \in [DOMAIN PeersWithout(S) -> BPPeer]
         /\ MaxHeightWithout(S) \in 0 .. Top
<1>1. ASSUME NEW r \in Requester, NEW p \in Peers \cup {None}
      PROVE  /\ redo(r, p) \in Requester /\ redo(r, p).block = r.block /\ redo(r, p).pc = r.pc
             /\ redo(r, p).peerID = r.peerID /\ redo(r, p).picked = r.picked
  BY DEF redo, Requester
<1>2. ASSUME NEW h \in DOMAIN requesters
      PROVE  /\ RedoAll(S)[h] \in Requester
             /\ RedoAll(S)[h].block = requesters[h].block
             /\ RedoAll(S)[h].pc = requesters[h].pc
             /\ Owned(RedoAll(S)[h])
  <2>1. PICK r \in Requester : r = requesters[h] /\ Owned(r)
    BY Zenon DEF IInv
  <2>2. r.peerID \in Peers \cup {None}
    BY DEF Requester
  <2>3. RedoAll(S)[h] = r \/ RedoAll(S)[h] = redo(r, r.peerID)
    BY <2>1, Zenon DEF RedoAll
  <2> QED BY <1>1, <2>1, <2>2, <2>3 DEF Owned
<1>3. RedoAll(S) \in [DOMAIN requesters -> Requester]
  BY <1>2, Zenon DEF RedoAll
<1>4. /\ DOMAIN PeersWithout(S) \subseteq DOMAIN bpPeers
      /\ PeersWithout(S) \in [DOMAIN PeersWithout(S) -> BPPeer]
  BY DEF PeersWithout, IInv
<1>5. MaxHeightWithout(S) \in 0 .. Top
  <2> DEFINE H == {0} \cup {bpPeers[p].height : p \in DOMAIN bpPeers \ S}
  <2>1. H \in SUBSET (0 .. Top) /\ H # {}
    BY BlockPoolAssumption DEF IInv, BPPeer
  <2>2. Max(H) \in 0 .. Top
    <3> HIDE DEF H
    <3> QED BY <2>1, HighestPeer, Zenon
  <2> QED BY <2>2 DEF MaxHeightWithout, IInv
<1> QED BY <1>2, <1>3, <1>4, <1>5, Zenon

\* A step after which the same heights are requested and the same blocks are there.
LEMMA SameRequests ==
  ASSUME IInv,
         requesters' \in [DOMAIN requesters -> Requester],
         \A h \in DOMAIN requesters :
           Owned(requesters'[h]) /\ requesters'[h].block = requesters[h].block,
         bpPeers' \in [DOMAIN bpPeers' -> BPPeer], DOMAIN bpPeers' \subseteq Peers,
         maxPeerHeight' \in 0 .. Top,
         peeked' # None => /\ peeked'.first \in Blocks
                           /\ {poolHeight, poolHeight + 1} \subseteq DOMAIN requesters,
         UNCHANGED <<poolHeight, numPending, blockStore>>
  PROVE  IInv'
<1>1. DOMAIN requesters' = DOMAIN requesters
  OBVIOUS
<1>2. Pending' = Pending
  BY <1>1, Zenon DEF Pending
<1>3. RequestersContiguous'
  BY <1>1 DEF IInv, RequestersContiguous
<1>4. ChainApplied'
  BY DEF IInv, ChainApplied
<1>5. (numPending >= Cardinality(Pending))'
  BY <1>2 DEF IInv
<1>6. /\ requesters' \in [DOMAIN requesters' -> Requester] /\ DOMAIN requesters' \subseteq 1 .. Top
      /\ \A h \in DOMAIN requesters' : Owned(requesters'[h])
  BY <1>1, Zenon DEF IInv
<1>7. poolHeight' \in 1 .. Top + 1 /\ numPending' \in Int /\ blockStore' \in Seq(Blocks)
  BY DEF IInv
<1> QED BY <1>3, <1>4, <1>5, <1>6, <1>7, Zenon DEF IInv

\* What IInv says where nothing is changed.
LEMMA Kept ==
  ASSUME IInv
  PROVE  /\ requesters \in [DOMAIN requesters -> Requester]
         /\ \A h \in DOMAIN requesters : Owned(requesters[h])
         /\ bpPeers \in [DOMAIN bpPeers -> BPPeer] /\ DOMAIN bpPeers \subseteq Peers
         /\ maxPeerHeight \in 0 .. Top
         /\ peeked # None => /\ peeked.first \in Blocks
                             /\ {poolHeight, poolHeight + 1} \subseteq DOMAIN requesters
BY Zenon DEF IInv, RequestersContiguous

\* removePeers, whatever the peers are.
LEMMA PeersRemoved ==
  ASSUME FiniteFacts, IInv, NEW S, removePeers(S), UNCHANGED <<poolHeight, numPending, blockStore>>,
         peeked' # None => peeked # None /\ peeked'.first = peeked.first
  PROVE  IInv'
<1>1. /\ requesters' \in [DOMAIN requesters -> Requester]
      /\ \A h \in DOMAIN requesters :
           Owned(requesters'[h]) /\ requesters'[h].block = requesters[h].block
      /\ bpPeers' \in [DOMAIN bpPeers' -> BPPeer] /\ DOMAIN bpPeers' \subseteq Peers
      /\ maxPeerHeight' \in 0 .. Top
  BY RemovePeers, Kept, Zenon DEF removePeers
<1>2. peeked' # None => /\ peeked'.first \in Blocks
                        /\ {poolHeight, poolHeight + 1} \subseteq DOMAIN requesters
  BY Kept, Zenon
<1> QED BY <1>1, <1>2, SameRequests, Zenon

\* removeTimedoutPeers.
LEMMA RemoveTimedoutPeersIInv ==
  ASSUME FiniteFacts, IInv, removeTimedoutPeers
  PROVE  IInv'
BY PeersRemoved, Zenon DEF removeTimedoutPeers

\* RemovePeer.
LEMMA PeerDownIInv ==
  ASSUME FiniteFacts, IInv, NEW p \in Peers, PeerDown(p)
  PROVE  IInv'
BY PeersRemoved, Zenon DEF PeerDown

\* RedoRequest.
LEMMA RedoRequestIInv ==
  ASSUME FiniteFacts, IInv, RedoRequest
  PROVE  IInv'
<1>1. peeked' # None => peeked # None /\ peeked'.first = peeked.first
  BY DEF RedoRequest
<1>2. UNCHANGED <<poolHeight, numPending, blockStore>>
  BY Zenon DEF RedoRequest
<1>3. CASE \E S : removePeers(S)
  BY <1>1, <1>2, <1>3, PeersRemoved, Zenon
<1>4. CASE UNCHANGED <<requesters, bpPeers, maxPeerHeight>>
  BY <1>1, <1>2, <1>4, Kept, SameRequests, Zenon
<1> QED BY <1>3, <1>4, Zenon DEF RedoRequest

\* A step of the requester of height h, which changes neither its block nor others.
LEMMA RequesterSteps ==
  ASSUME IInv, NEW f \in [DOMAIN requesters -> Requester],
         \A k \in DOMAIN requesters : Owned(f[k]) /\ f[k].block = requesters[k].block,
         NEW h \in DOMAIN requesters, NEW r \in Requester,
         Owned(r), r.block = requesters[h].block,
         requesters' = [f EXCEPT ![h] = r]
  PROVE  /\ requesters' \in [DOMAIN requesters -> Requester]
         /\ \A k \in DOMAIN requesters :
              Owned(requesters'[k]) /\ requesters'[k].block = requesters[k].block
BY Zenon

\* pickIncrAvailablePeer, which removes the peers that timed out on its way.
LEMMA PickIncrAvailablePeerIInv ==
  ASSUME FiniteFacts, IInv, NEW h \in DOMAIN requesters, pickIncrAvailablePeer(h)
  PROVE  IInv'
<1>1. UNCHANGED <<poolHeight, numPending, blockStore, peeked>> /\ requesters[h].pc = "pick"
  BY Zenon DEF pickIncrAvailablePeer
<1>2. CASE \E S : removePeers(S)
  BY <1>1, <1>2, PeersRemoved, Zenon
<1>3. ASSUME NEW p \in DOMAIN bpPeers, NEW gone, p \notin gone,
             requesters' = [RedoAll(gone) EXCEPT ![h].pc = "picked", ![h].picked = p],
             bpPeers' = [PeersWithout(gone) EXCEPT ![p].numPending = @ + 1],
             maxPeerHeight' = MaxHeightWithout(gone)
      PROVE  IInv'
  <2>1. PICK f \in [DOMAIN requesters -> Requester] : f = RedoAll(gone)
    BY RemovePeers, Zenon
  <2>2. /\ \A k \in DOMAIN requesters : Owned(f[k]) /\ f[k].block = requesters[k].block
        /\ f[h].pc = "pick" /\ Owned(f[h]) /\ f[h] \in Requester
    BY <1>1, <2>1, RemovePeers, Zenon
  <2>3. PICK r : r = [f[h] EXCEPT !.pc = "picked", !.picked = p]
    BY Zenon
  <2>4. p \in Peers
    BY Kept
  <2>5. r \in Requester /\ r.pc = "picked" /\ r.picked = p /\ r.peerID = f[h].peerID
        /\ r.block = f[h].block
    BY <2>2, <2>3, <2>4, Zenon DEF Requester
  <2>6. Owned(r) /\ r.block = requesters[h].block
    BY <2>2, <2>4, <2>5 DEF Owned
  <2>7. requesters' = [f EXCEPT ![h] = r]
    BY <1>3, <2>1, <2>3, Zenon
  <2>8. /\ requesters' \in [DOMAIN requesters -> Requester]
        /\ \A k \in DOMAIN requesters :
             Owned(requesters'[k]) /\ requesters'[k].block = requesters[k].block
    BY <2>2, <2>5, <2>6, <2>7, RequesterSteps, Zenon
  <2>9. bpPeers' \in [DOMAIN bpPeers' -> BPPeer] /\ DOMAIN bpPeers' \subseteq Peers
    <3>1. PICK g : g = PeersWithout(gone)
      BY Zenon
    <3>2. g \in [DOMAIN g -> BPPeer] /\ DOMAIN g \subseteq Peers
      BY <3>1, RemovePeers, Kept, Zenon
    <3>3. ASSUME NEW q \in BPPeer PROVE [q EXCEPT !.numPending = @ + 1] \in BPPeer
      BY DEF BPPeer
    <3>4. bpPeers' = [g EXCEPT ![p] = [g[p] EXCEPT !.numPending = @ + 1]]
      BY <1>3, <3>1
    <3> QED BY <3>2, <3>3, <3>4, Zenon
  <2>10. maxPeerHeight' \in 0 .. Top
    BY <1>3, RemovePeers, Zenon
  <2> QED BY <1>1, <2>8, <2>9, <2>10, Kept, SameRequests, Zenon
<1>4. ASSUME NEW p \in DOMAIN bpPeers, Available(p, h),
             NEW gone \in SUBSET {q \in DOMAIN bpPeers : bpPeers[q].didTimeout}
      PROVE  p \notin gone
  BY <1>4, Zenon DEF Available
<1> QED BY <1>2, <1>3, <1>4, Zenon DEF pickIncrAvailablePeer

\* A requester asks the peer it picked.
LEMMA SendRequestIInv ==
  ASSUME IInv, NEW h \in DOMAIN requesters, SendRequest(h)
  PROVE  IInv'
<1>1. UNCHANGED <<poolHeight, numPending, blockStore, peeked, bpPeers, maxPeerHeight>>
      /\ requesters[h].pc = "picked"
  BY Zenon DEF SendRequest
<1>2. PICK k \in Requester : k = requesters[h] /\ Owned(k)
  BY Kept, Zenon
<1>3. k.pc = "picked" /\ k.picked \in Peers /\ k.block = None
  BY <1>1, <1>2, Zenon DEF Owned
<1>4. PICK r : r = [k EXCEPT !.pc = "wait", !.picked = None, !.peerID = k.picked]
  BY Zenon
<1>5. r \in Requester /\ r.pc = "wait" /\ r.block = k.block
  BY <1>3, <1>4, Zenon DEF Requester
<1>6. Owned(r)
  BY <1>3, <1>5 DEF Owned
<1>7. requesters' = [requesters EXCEPT ![h] = r]
  BY <1>2, <1>4, Zenon DEF SendRequest
<1>8. /\ requesters' \in [DOMAIN requesters -> Requester]
      /\ \A j \in DOMAIN requesters :
           Owned(requesters'[j]) /\ requesters'[j].block = requesters[j].block
  BY <1>2, <1>5, <1>6, <1>7, RequesterSteps, Kept, Zenon
<1> QED BY <1>1, <1>8, Kept, SameRequests, Zenon

\* A requester is told to redo.
LEMMA ReceiveRedoIInv ==
  ASSUME IInv, NEW h \in DOMAIN requesters, ReceiveRedo(h)
  PROVE  IInv'
<1>1. UNCHANGED <<poolHeight, numPending, blockStore, peeked, bpPeers, maxPeerHeight>>
      /\ requesters[h].pc = "wait"
  BY Zenon DEF ReceiveRedo
<1>2. PICK k \in Requester : k = requesters[h] /\ Owned(k)
  BY Kept, Zenon
<1>3. PICK pc \in {"redo", "wait"} : pc = IF k.redoCh = k.peerID THEN "redo" ELSE "wait"
  BY Zenon
<1>4. PICK r : r = [k EXCEPT !.redoCh = None, !.pc = pc]
  BY Zenon
<1>5. r \in Requester /\ r.pc = pc /\ r.block = k.block /\ r.peerID = k.peerID
  BY <1>4, Zenon DEF Requester
<1>6. Owned(r)
  BY <1>2, <1>3, <1>5 DEF Owned
<1>7. requesters' = [requesters EXCEPT ![h] = r]
  BY <1>2, <1>3, <1>4, Zenon DEF ReceiveRedo
<1>8. /\ requesters' \in [DOMAIN requesters -> Requester]
      /\ \A j \in DOMAIN requesters :
           Owned(requesters'[j]) /\ requesters'[j].block = requesters[j].block
  BY <1>2, <1>5, <1>6, <1>7, RequesterSteps, Kept, Zenon
<1> QED BY <1>1, <1>8, Kept, SameRequests, Zenon

\* SetPeerRange: maxPeerHeight is a height of the chain still.
LEMMA SetPeerRangeIInv ==
  ASSUME FiniteFacts, IInv, NEW p \in Peers, NEW t \in StatusHeights[p], SetPeerRange(p, 1, t)
  PROVE  IInv'
<1>1. UNCHANGED <<poolHeight, requesters, numPending, blockStore, peeked>>
  BY Zenon DEF SetPeerRange
<1>2. t \in 0 .. Top
  BY BlockPoolAssumption
<1>3. maxPeerHeight' \in 0 .. Top
  <2>1. maxPeerHeight' = Max({t, maxPeerHeight})
    BY Zenon DEF SetPeerRange
  <2>2. {t, maxPeerHeight} \in SUBSET (0 .. Top) /\ {t, maxPeerHeight} # {}
    BY <1>2, Kept, Zenon
  <2> QED BY <2>1, <2>2, HighestPeer, Zenon
<1>4. bpPeers' \in [DOMAIN bpPeers' -> BPPeer] /\ DOMAIN bpPeers' \subseteq Peers
  <2>1. newBPPeer(1, t) \in BPPeer
    BY <1>2 DEF newBPPeer, BPPeer
  <2>2. ASSUME NEW q \in BPPeer PROVE [q EXCEPT !.base = 1, !.height = t] \in BPPeer
    <3> PICK one \in Int : one = 1
      OBVIOUS
    <3>1. PICK r \in BPPeer : r = [q EXCEPT !.base = one]
      BY Zenon DEF BPPeer
    <3>2. [r EXCEPT !.height = t] \in BPPeer
      BY <1>2 DEF BPPeer
    <3> QED BY <3>1, <3>2
  <2>3. PICK n \in BPPeer : n = IF p \in DOMAIN bpPeers
                               THEN [bpPeers[p] EXCEPT !.base = 1, !.height = t]
                               ELSE newBPPeer(1, t)
    BY <2>1, <2>2, Kept, Zenon
  <2>4. bpPeers' = [q \in DOMAIN bpPeers \cup {p} |-> IF q # p THEN bpPeers[q] ELSE n]
    BY <2>3, Zenon DEF SetPeerRange
  <2> QED BY <2>4, Kept, Zenon
<1> QED BY <1>1, <1>3, <1>4, Kept, SameRequests, Zenon

\* bpPeer.onTimeout.
LEMMA OnTimeoutIInv ==
  ASSUME IInv, NEW p \in Peers, onTimeout(p)
  PROVE  IInv'
<1>1. /\ UNCHANGED <<poolHeight, requesters, numPending, blockStore, peeked, maxPeerHeight>>
      /\ p \in DOMAIN bpPeers
      /\ bpPeers' = [bpPeers EXCEPT ![p] = [bpPeers[p] EXCEPT !.didTimeout = TRUE]]
  BY DEF onTimeout
<1>2. ASSUME NEW q \in BPPeer PROVE [q EXCEPT !.didTimeout = TRUE] \in BPPeer
  BY Zenon DEF BPPeer
<1>3. bpPeers' \in [DOMAIN bpPeers' -> BPPeer] /\ DOMAIN bpPeers' \subseteq Peers
  BY <1>1, <1>2, Kept, Zenon
<1> QED BY <1>1, <1>3, Kept, SameRequests, Zenon

\* PeekTwoBlocks.
LEMMA PeekTwoBlocksIInv ==
  ASSUME IInv, PeekTwoBlocks
  PROVE  IInv'
<1>1. /\ UNCHANGED <<poolHeight, requesters, numPending, blockStore, bpPeers, maxPeerHeight>>
      /\ {poolHeight, poolHeight + 1} \subseteq DOMAIN requesters
      /\ requesters[poolHeight].block # None
      /\ peeked' = [first |-> requesters[poolHeight].block.value,
                     second |-> requesters[poolHeight + 1].block.value, redo |-> "first"]
  BY Zenon DEF PeekTwoBlocks, Got
<1>2. PICK b \in [value : Blocks, from : Peers] : b = requesters[poolHeight].block
  BY <1>1, Kept, Zenon DEF Requester
<1>3. peeked'.first = b.value /\ b.value \in Blocks
  BY <1>1, <1>2
<1> QED BY <1>1, <1>3, Kept, SameRequests, Zenon

-------------------------------------------------------------------------------
\* A step after which the same heights are requested, of which blocks came or went.
LEMMA SameHeights ==
  ASSUME IInv,
         requesters' \in [DOMAIN requesters -> Requester],
         \A h \in DOMAIN requesters : Owned(requesters'[h]),
         bpPeers' \in [DOMAIN bpPeers' -> BPPeer], DOMAIN bpPeers' \subseteq Peers,
         numPending' \in Int, numPending' >= Cardinality(Pending'),
         UNCHANGED <<poolHeight, maxPeerHeight, peeked, blockStore>>
  PROVE  IInv'
<1>1. DOMAIN requesters' = DOMAIN requesters
  OBVIOUS
<1>2. RequestersContiguous'
  BY <1>1 DEF IInv, RequestersContiguous
<1>3. ChainApplied'
  BY DEF IInv, ChainApplied
<1>4. /\ requesters' \in [DOMAIN requesters' -> Requester] /\ DOMAIN requesters' \subseteq 1 .. Top
      /\ \A h \in DOMAIN requesters' : Owned(requesters'[h])
  BY <1>1, Zenon DEF IInv
<1>5. /\ poolHeight' \in 1 .. Top + 1 /\ blockStore' \in Seq(Blocks)
      /\ maxPeerHeight' \in 0 .. Top /\ (peeked' # None => peeked'.first \in Blocks)
  BY DEF IInv
<1> QED BY <1>2, <1>3, <1>4, <1>5, Zenon DEF IInv

\* The open requests are finitely many and are not undercounted.
LEMMA PendingFinite ==
  ASSUME FiniteFacts, IInv
  PROVE  IsFiniteSet(Pending) /\ Cardinality(Pending) \in Nat /\ numPending \in Int
         /\ numPending >= Cardinality(Pending)
<1>1. Pending \in SUBSET (1 .. Top)
  BY DEF IInv, Pending
<1> QED BY <1>1, RangeFinite DEF IInv

\* bpRequester.reset: a block that is dropped is pending again.
LEMMA ResetIInv ==
  ASSUME FiniteFacts, IInv, NEW h \in DOMAIN requesters, reset(h)
  PROVE  IInv'
<1>1. UNCHANGED <<poolHeight, maxPeerHeight, peeked, blockStore, bpPeers>>
  BY Zenon DEF reset
<1>2. PICK k \in Requester : k = requesters[h]
  BY Kept, Zenon
<1>3. PICK r : r = [k EXCEPT !.pc = "pick", !.peerID = None, !.block = None]
  BY Zenon
<1>4. r \in Requester /\ r.pc = "pick" /\ r.peerID = None /\ r.block = None
  BY <1>2, <1>3, Zenon DEF Requester
<1>5. Owned(r)
  BY <1>4 DEF Owned
<1>6. requesters' = [requesters EXCEPT ![h] = r]
  BY <1>2, <1>3, Zenon DEF reset
<1>7. /\ requesters' \in [DOMAIN requesters -> Requester]
      /\ \A j \in DOMAIN requesters : Owned(requesters'[j])
  BY <1>4, <1>5, <1>6, Kept, Zenon
<1>8. Pending' = Pending \cup {h}
  BY <1>4, <1>6 DEF Pending
<1>9. numPending' \in Int /\ numPending' >= Cardinality(Pending')
  <2>1. CASE requesters[h].block = None
    <3>1. h \in Pending /\ numPending' = numPending
      BY <2>1, Zenon DEF Pending, reset
    <3> QED BY <1>8, <3>1, PendingFinite
  <2>2. CASE requesters[h].block # None
    <3>1. h \notin Pending /\ numPending' = numPending + 1
      BY <2>2, Zenon DEF Pending, reset
    <3>2. Cardinality(Pending \cup {h}) = Cardinality(Pending) + 1
      BY <3>1, PendingFinite, CountAdded
    <3> QED BY <1>8, <3>1, <3>2, PendingFinite
  <2> QED BY <2>1, <2>2, Zenon
<1> QED BY <1>1, <1>7, <1>9, Kept, SameHeights, Zenon

\* AddBlock: the block is held against its sender, and one request less is pending.
LEMMA AddBlockIInv ==
  ASSUME FiniteFacts, IInv, NEW p \in Peers, NEW h \in 1 .. Top, NEW b \in Blocks, AddBlock(p, h, b)
  PROVE  IInv'
<1>1. UNCHANGED <<poolHeight, maxPeerHeight, peeked, blockStore>>
  BY Zenon DEF AddBlock
<1>2. CASE ~(h \in DOMAIN requesters /\ setBlock(requesters[h], p))
  <2>1. UNCHANGED <<requesters, numPending, bpPeers>>
    BY <1>2, Zenon DEF AddBlock
  <2> QED BY <1>1, <2>1, Kept, SameRequests, Zenon
<1>3. CASE h \in DOMAIN requesters /\ setBlock(requesters[h], p)
  <2>1. PICK k \in Requester : k = requesters[h] /\ Owned(k)
    BY <1>3, Kept, Zenon
  <2>2. k.block = None /\ k.peerID = p /\ p # None
    BY <1>3, <2>1, BlockPoolAssumption DEF setBlock
  <2>3. PICK c \in [value : Blocks, from : Peers] : c = [value |-> b, from |-> p]
    BY Zenon
  <2>4. c # None /\ c.from = p
    BY <2>3, BlockPoolAssumption DEF Blocks
  <2>5. PICK r : r = [k EXCEPT !.block = c]
    BY Zenon
  <2>6. r \in Requester /\ r.pc = k.pc /\ r.peerID = p /\ r.block = c
    BY <2>2, <2>5 DEF Requester
  <2>7. Owned(r)
    BY <2>1, <2>2, <2>4, <2>6 DEF Owned
  <2>8. requesters' = [requesters EXCEPT ![h] = r]
    BY <1>3, <2>1, <2>3, <2>5 DEF AddBlock
  <2>9. /\ requesters' \in [DOMAIN requesters -> Requester]
        /\ \A j \in DOMAIN requesters : Owned(requesters'[j])
    BY <1>3, <2>6, <2>7, <2>8, Kept, Zenon
  <2>10. h \in Pending /\ Pending' = Pending \ {h}
    <3>1. h \in Pending
      BY <1>3, <2>1, <2>2, Zenon DEF Pending
    <3> QED BY <3>1, <1>3, <2>4, <2>6, <2>8 DEF Pending
  <2>11. numPending' = numPending - 1
    BY <1>3, Zenon DEF AddBlock
  <2>12. numPending' \in Int /\ numPending' >= Cardinality(Pending')
    <3>1. Cardinality(Pending \ {h}) = Cardinality(Pending) - 1
      BY <2>10, PendingFinite, CountRemoved
    <3> QED BY <2>10, <2>11, <3>1, PendingFinite
  <2>13. bpPeers' \in [DOMAIN bpPeers' -> BPPeer] /\ DOMAIN bpPeers' \subseteq Peers
    <3>1. CASE p \in DOMAIN bpPeers
      <4>1. bpPeers' = [bpPeers EXCEPT ![p] = [bpPeers[p] EXCEPT !.numPending = @ - 1]]
        BY <1>3, <3>1 DEF AddBlock
      <4>2. ASSUME NEW q \in BPPeer PROVE [q EXCEPT !.numPending = @ - 1] \in BPPeer
        BY DEF BPPeer
      <4> QED BY <3>1, <4>1, <4>2, Kept, Zenon
    <3>2. CASE p \notin DOMAIN bpPeers
      BY <1>3, <3>2, Kept, Zenon DEF AddBlock
    <3> QED BY <3>1, <3>2, Zenon
  <2> QED BY <1>1, <2>9, <2>12, <2>13, SameHeights, Zenon
<1> QED BY <1>2, <1>3, Zenon
-------------------------------------------------------------------------------
\* The heights requested, when one is added above or removed below.
LEMMA Heights ==
  ASSUME NEW a \in Nat, NEW c \in Nat
  PROVE  /\ a + c \notin a .. a + c - 1
         /\ (a .. a + c - 1) \cup {a + c} = a .. a + (c + 1) - 1
         /\ (a .. a + c - 1) \ {a} = a + 1 .. (a + 1) + (c - 1) - 1
<1>1. \A x : x \in (a .. a + c - 1) \cup {a + c} <=> x \in a .. a + (c + 1) - 1
  OBVIOUS
<1>2. \A x : x \in (a .. a + c - 1) \ {a} <=> x \in a + 1 .. (a + 1) + (c - 1) - 1
  OBVIOUS
<1>3. a + c \notin a .. a + c - 1
  OBVIOUS
<1> QED BY <1>1, <1>2, <1>3, Zenon

\* The next requester has the height after the last one, a height a peer has.
LEMMA MakeNextRequesterIInv ==
  ASSUME FiniteFacts, IInv, makeNextRequester
  PROVE  IInv'
<1>1. UNCHANGED <<poolHeight, bpPeers, maxPeerHeight, peeked, blockStore>>
  BY Zenon DEF makeNextRequester
<1>2. PICK D : D = DOMAIN requesters /\ D \in SUBSET (1 .. Top)
  BY Zenon DEF IInv
<1>3. PICK c \in Nat : c = Cardinality(D) /\ IsFiniteSet(D)
  BY <1>2, RangeFinite
<1>4. D = poolHeight .. poolHeight + c - 1 /\ poolHeight \in 1 .. Top + 1
  BY <1>2, <1>3 DEF IInv, RequestersContiguous
<1>5. PICK n : /\ n = poolHeight + c /\ n <= maxPeerHeight
               /\ requesters' = [h \in D \cup {n} |-> IF h = n THEN newBPRequester ELSE requesters[h]]
               /\ numPending' = numPending + 1
  BY <1>2, <1>3, Zenon DEF makeNextRequester
<1>6. n \in 1 .. Top /\ n \notin D /\ D \cup {n} = poolHeight .. poolHeight + (c + 1) - 1
  <2>1. poolHeight \in Nat /\ maxPeerHeight \in 0 .. Top /\ poolHeight >= 1
    BY <1>4, BlockPoolAssumption DEF IInv
  <2>2. n \in 1 .. Top
    BY <1>3, <1>5, <2>1, BlockPoolAssumption
  <2>3. n \notin D /\ D \cup {n} = poolHeight .. poolHeight + (c + 1) - 1
    BY <1>3, <1>4, <1>5, <2>1, Heights, Zenon
  <2> QED BY <2>2, <2>3, Zenon
<1>7. Cardinality(D \cup {n}) = c + 1
  BY <1>3, <1>6, CountAdded
<1>8. DOMAIN requesters' = D \cup {n}
  BY <1>5, Zenon
<1>9. newBPRequester \in Requester /\ Owned(newBPRequester) /\ newBPRequester.block = None
  BY DEF newBPRequester, Requester, Owned
<1>10. /\ requesters' \in [D \cup {n} -> Requester]
       /\ \A h \in D \cup {n} : Owned(requesters'[h])
  BY <1>2, <1>5, <1>9, Kept, Zenon
<1>11. RequestersContiguous'
  <2>1. peeked # None => {poolHeight, poolHeight + 1} \subseteq D \cup {n}
    BY <1>2, Kept
  <2> QED BY <1>1, <1>6, <1>7, <1>8, <2>1 DEF RequestersContiguous
<1>12. numPending' \in Int /\ numPending' >= Cardinality(Pending')
  <2>1. n \notin Pending /\ Pending' = Pending \cup {n}
    BY <1>2, <1>5, <1>6, <1>8, <1>9 DEF Pending
  <2>2. Cardinality(Pending \cup {n}) = Cardinality(Pending) + 1
    BY <2>1, PendingFinite, CountAdded
  <2> QED BY <1>5, <2>1, <2>2, PendingFinite
<1>13. ChainApplied'
  BY <1>1 DEF IInv, ChainApplied
<1>14. /\ poolHeight' \in 1 .. Top + 1 /\ blockStore' \in Seq(Blocks)
       /\ maxPeerHeight' \in 0 .. Top /\ (peeked' # None => peeked'.first \in Blocks)
       /\ bpPeers' \in [DOMAIN bpPeers' -> BPPeer] /\ DOMAIN bpPeers' \subseteq Peers
  BY <1>1 DEF IInv
<1>15. D \cup {n} \subseteq 1 .. Top
  BY <1>2, <1>6
<1> QED BY <1>8, <1>10, <1>11, <1>12, <1>13, <1>14, <1>15, Zenon DEF IInv

\* The block that is popped is a block of the chain: VerifyCommitLight held of it
\* while the pool was unlocked, and it was not looked up again.
LEMMA PopRequestIInv ==
  ASSUME FiniteFacts, IInv, PopRequest
  PROVE  IInv'
<1>1. UNCHANGED <<bpPeers, maxPeerHeight>> /\ peeked' = None
  BY Zenon DEF PopRequest
<1>2. PICK D : D = DOMAIN requesters /\ D \in SUBSET (1 .. Top)
  BY Zenon DEF IInv
<1>3. PICK c \in Nat : c = Cardinality(D) /\ IsFiniteSet(D)
  BY <1>2, RangeFinite
<1>4. D = poolHeight .. poolHeight + c - 1 /\ poolHeight \in 1 .. Top + 1 /\ poolHeight \in D
  BY <1>2, <1>3 DEF IInv, RequestersContiguous, PopRequest
<1>5. requesters' = [h \in D \ {poolHeight} |-> requesters[h]] /\ poolHeight' = poolHeight + 1
  BY <1>2, Zenon DEF PopRequest
<1>6. DOMAIN requesters' = D \ {poolHeight} /\ Cardinality(D \ {poolHeight}) = c - 1
  BY <1>3, <1>4, <1>5, CountRemoved, Zenon
<1>7. D \ {poolHeight} = poolHeight + 1 .. (poolHeight + 1) + (c - 1) - 1
  <2>1. poolHeight \in Nat
    BY <1>4
  <2> QED BY <1>3, <1>4, <2>1, Heights, Zenon
<1>8. RequestersContiguous'
  BY <1>1, <1>5, <1>6, <1>7 DEF RequestersContiguous
<1>9. /\ requesters' \in [D \ {poolHeight} -> Requester]
      /\ \A h \in D \ {poolHeight} : Owned(requesters'[h])
  BY <1>2, <1>5, Kept, Zenon
<1>10. D \ {poolHeight} \subseteq 1 .. Top /\ poolHeight' \in 1 .. Top + 1
  BY <1>2, <1>4, <1>5, BlockPoolAssumption
<1>11. blockStore' = Append(blockStore, "good") /\ "good" \in Blocks
  BY DEF PopRequest, VerifyCommitLight, Blocks
<1>12. blockStore' \in Seq(Blocks) /\ ChainApplied'
  <2>1. blockStore \in Seq(Blocks) /\ Len(blockStore) = poolHeight - 1
        /\ \A i \in DOMAIN blockStore : blockStore[i] = "good"
    BY DEF IInv, ChainApplied
  <2>2. /\ blockStore' \in Seq(Blocks) /\ Len(blockStore') = Len(blockStore) + 1
        /\ \A i \in 1 .. Len(blockStore) + 1 : blockStore'[i] = "good"
    BY <1>11, <2>1
  <2>3. DOMAIN blockStore' = 1 .. Len(blockStore) + 1
    BY <2>2
  <2> QED BY <1>4, <1>5, <2>1, <2>2, <2>3 DEF ChainApplied
<1>13. numPending' \in Int /\ numPending' >= Cardinality(Pending')
  <2>1. PICK n \in {0, 1} : numPending' = numPending + n
    BY DEF PopRequest, LateResets
  <2>2. Pending' \subseteq Pending
    BY <1>2, <1>5, <1>6 DEF Pending
  <2>3. Cardinality(Pending') <= Cardinality(Pending) /\ Cardinality(Pending') \in Nat
    BY <2>2, PendingFinite, Subset, Count
  <2> QED BY <2>1, <2>3, PendingFinite
<1>14. bpPeers' \in [DOMAIN bpPeers' -> BPPeer] /\ DOMAIN bpPeers' \subseteq Peers
       /\ maxPeerHeight' \in 0 .. Top
  BY <1>1 DEF IInv
<1> QED BY <1>1, <1>6, <1>8, <1>9, <1>10, <1>12, <1>13, <1>14, Zenon DEF IInv

\* The pool stops, with all its requesters.
LEMMA StopPoolIInv ==
  ASSUME FiniteFacts, IInv, peeked = None, StopPool
  PROVE  IInv'
<1>1. /\ UNCHANGED <<poolHeight, maxPeerHeight, peeked, blockStore>>
      /\ DOMAIN requesters' = {} /\ requesters' \in [{} -> Requester]
      /\ DOMAIN bpPeers' = {} /\ bpPeers' \in [{} -> BPPeer] /\ numPending' = 0
  BY DEF StopPool
<1>2. Cardinality({}) = 0
  BY Zenon DEF FiniteFacts
<1>3. Pending' = {}
  BY <1>1 DEF Pending
<1>4. poolHeight \in 1 .. Top + 1
  BY DEF IInv
<1>5. RequestersContiguous' /\ ChainApplied'
  BY <1>1, <1>2, <1>4, BlockPoolAssumption DEF IInv, RequestersContiguous, ChainApplied
<1>6. numPending' \in Int /\ numPending' >= Cardinality(Pending')
  BY <1>1, <1>2, <1>3
<1> QED BY <1>1, <1>5, <1>6 DEF IInv

\* Every step of the block pool keeps the invariant.
LEMMA NextIInv ==
  ASSUME FiniteFacts, IInv, [Next]_poolVars
  PROVE  IInv'
<1>1. CASE UNCHANGED poolVars
  BY <1>1, Kept, SameRequests, Zenon DEF poolVars
<1>2. CASE Next
  BY <1>2, MakeNextRequesterIInv, RemoveTimedoutPeersIInv, PickIncrAvailablePeerIInv,
     SendRequestIInv, ReceiveRedoIInv, ResetIInv, AddBlockIInv, SetPeerRangeIInv, PeerDownIInv,
     OnTimeoutIInv, PeekTwoBlocksIInv, PopRequestIInv, RedoRequestIInv, StopPoolIInv, Zenon
     DEF Next, SwitchToConsensus, SyncTimeout
<1> QED BY <1>1, <1>2, Zenon
-------------------------------------------------------------------------------
FST == INSTANCE FiniteSetTheorems

\* The library has a copy of FiniteSets, with the same definitions.
LEMMA SameCount == \A S : FST!Cardinality(S) = Cardinality(S) /\ (FST!IsFiniteSet(S) <=> IsFiniteSet(S))
BY Zenon DEF Cardinality, FST!Cardinality, IsFiniteSet, FST!IsFiniteSet

\* The facts that were assumed above hold.
LEMMA FiniteFactsHold == FiniteFacts
<1>1. IsFiniteSet({}) /\ Cardinality({}) = 0
  BY SameCount, FST!FS_EmptySet, Zenon
<1>2. ASSUME NEW a \in Int, NEW b \in Int PROVE IsFiniteSet(a .. b)
  BY SameCount, FST!FS_Interval, Zenon
<1>3. ASSUME NEW S, IsFiniteSet(S), NEW T
      PROVE  /\ Cardinality(S) \in Nat
             /\ T \in SUBSET S => IsFiniteSet(T) /\ Cardinality(T) <= Cardinality(S)
             /\ IsFiniteSet(S \cup {T}) /\ IsFiniteSet(S \ {T})
             /\ T \notin S => Cardinality(S \cup {T}) = Cardinality(S) + 1
             /\ T \in S => Cardinality(S \ {T}) = Cardinality(S) - 1
             /\ Cardinality(S \ T) = Cardinality(S) - Cardinality(S \cap T)
             /\ IsFiniteSet(T) =>
                  Cardinality(S \cup T) = Cardinality(S) + Cardinality(T) - Cardinality(S \cap T)
  <2>1. FST!IsFiniteSet(S)
    BY <1>3, SameCount, Zenon
  <2>2. Cardinality(S) \in Nat
    BY <2>1, SameCount, FST!FS_CardinalityType, Zenon
  <2>3. T \in SUBSET S => IsFiniteSet(T) /\ Cardinality(T) <= Cardinality(S)
    BY <2>1, SameCount, FST!FS_Subset, Zenon
  <2>4. /\ IsFiniteSet(S \cup {T})
        /\ T \notin S => Cardinality(S \cup {T}) = Cardinality(S) + 1
    BY <2>1, SameCount, FST!FS_AddElement, Zenon
  <2>5. IsFiniteSet(S \ {T}) /\ (T \in S => Cardinality(S \ {T}) = Cardinality(S) - 1)
    BY <2>1, SameCount, FST!FS_RemoveElement, Zenon
  <2>6. Cardinality(S \ T) = Cardinality(S) - Cardinality(S \cap T)
    BY <2>1, SameCount, FST!FS_Difference, Zenon
  <2>7. IsFiniteSet(T) =>
          Cardinality(S \cup T) = Cardinality(S) + Cardinality(T) - Cardinality(S \cap T)
    BY <2>1, SameCount, FST!FS_Union, ZenonT(60)
  <2> QED BY <2>2, <2>3, <2>4, <2>5, <2>6, <2>7, Zenon
<1>4. ASSUME NEW S \in SUBSET Nat, S # {} PROVE \E x \in S : \A y \in S : x <= y
  <2>1. PICK x \in S : \A y \in S : ~(<<y, x>> \in FST!OpToRel(<, Nat))
    BY <1>4, FST!NatLessThanWellFounded, FST!WFMin, Zenon
  <2>2. \A y \in S : x \in Nat /\ y \in Nat /\ ~(y < x)
    BY <1>4, <2>1, Zenon DEF FST!OpToRel
  <2>3. \A y \in S : x <= y
    BY <2>2
  <2> QED BY <2>3, Zenon
<1> QED BY <1>1, <1>2, <1>3, <1>4, ZenonT(60) DEF FiniteFacts

\* Through gossip, conflicting votes, proposals, blocks, expiry and crashes between
\* any two writes: the counter covers what is pending, no evidence is lost, none on
\* the chain is pending unless its block was applied while it was being added or by
\* the handshake, and only what is pending or on the chain is gossiped.
THEOREM EvidenceKeptHolds == EvidenceSpec => []EvidenceKept
<1>1. PoolIInv => EvidenceKept
  BY DEF PoolIInv
<1>2. EvidenceInit => PoolIInv
  BY FiniteFactsHold, PoolInitIInv
<1>3. PoolIInv /\ [EvidenceNext]_epVars => PoolIInv'
  BY FiniteFactsHold, PoolNextIInv
<1> QED
  BY <1>1, <1>2, <1>3, PTL DEF EvidenceSpec

\* Block sync v0 (poolRoutine over BlockPool): whatever the peers send, however
\* often they are removed and however the goroutines interleave, the blocks applied
\* are those of the chain, each once and in order.
THEOREM ChainAppliedHolds == Spec => []ChainApplied
<1>1. IInv => ChainApplied
  BY Zenon DEF IInv
<1> QED BY <1>1, FiniteFactsHold, InitIInv, NextIInv, PTL DEF Spec

\* The accounting of the pool: the requesters are the heights from pool.height on
\* without a gap, so PopRequest does not panic and RedoRequest finds its request; a
\* block is held against the peer that sent it; and numPending, which
\* makeRequestersRoutine compares with its limit, is never below the number of open
\* requests.
THEOREM RequestsAccountedHolds == Spec => []RequestsAccounted
<1>1. IInv => RequestsAccounted
  <2> SUFFICES ASSUME IInv PROVE RequestsAccounted
    OBVIOUS
  <2>1. DOMAIN requesters \subseteq 1 .. Top + 1
    BY BlockPoolAssumption DEF IInv
  <2>2. TypeOK
    BY <2>1, Zenon DEF IInv, TypeOK, Requester
  <2>3. BlockFromItsPeer /\ RequestersContiguous /\ PendingNotUndercounted
    BY Zenon DEF IInv, Owned, BlockFromItsPeer, PendingNotUndercounted, Pending
  <2> QED BY <2>2, <2>3, Zenon DEF RequestsAccounted
<1> QED BY <1>1, FiniteFactsHold, InitIInv, NextIInv, PTL DEF Spec
================================================================================
