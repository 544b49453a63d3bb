---------------------------- MODULE Recovery_proofs ----------------------------
(***************************************************************************)
(* The stores of a node agree through any number of crashes, for every     *)
(* initial height and however far the application falls back.  When the    *)
(* initial height is 1 and the application keeps what it retains, no crash *)
(* leaves the node where it cannot be started again.                       *)
(***************************************************************************)
EXTENDS Recovery, TLAPS

\* What is used of sequences: their elements, the empty one, a function on 1 .. n,
\* equality, a part, and one more element.
LEMMA SeqElement ==
  ASSUME NEW S, NEW s \in Seq(S)
  PROVE  Len(s) \in Nat /\ s \in [1 .. Len(s) -> S] /\ DOMAIN s = 1 .. Len(s)
OBVIOUS

\* The empty sequence.
LEMMA SeqEmpty == \A S : <<>> \in Seq(S) /\ Len(<<>>) = 0
OBVIOUS

\* A function on 1 .. n.
LEMMA SeqOf ==
  ASSUME NEW S, NEW n \in Nat, NEW f \in [1 .. n -> S]
  PROVE  f \in Seq(S) /\ Len(f) = n
OBVIOUS

\* Equality.
LEMMA SeqSame ==
  ASSUME NEW S, NEW s \in Seq(S), NEW t \in Seq(S), Len(s) = Len(t),
         \A i \in 1 .. Len(s) : s[i] = t[i]
  PROVE  s = t
OBVIOUS

\* A prefix.
LEMMA SeqPart ==
  ASSUME NEW S, NEW s \in Seq(S), NEW n \in 0 .. Len(s)
  PROVE  /\ SubSeq(s, 1, n) \in Seq(S) /\ Len(SubSeq(s, 1, n)) = n
         /\ \A i \in 1 .. n : SubSeq(s, 1, n)[i] = s[i]
OBVIOUS

\* One element more.
LEMMA SeqAppend ==
  ASSUME NEW S, NEW s \in Seq(S), NEW e \in S
  PROVE  /\ Append(s, e) \in Seq(S) /\ Len(Append(s, e)) = Len(s) + 1
         /\ Append(s, e)[Len(s) + 1] = e /\ \A i \in 1 .. Len(s) : Append(s, e)[i] = s[i]
OBVIOUS
--------------------------------------------------------------------------------
\* Heights of a store: 0 is none.
Ht == {0} \cup {h \in Nat : h >= InitialHeight}

RecoveryTypeOK ==
  /\ store \in [base : Ht, height : Ht]
  /\ state \in [height : Ht, appHash : Seq(Nat)]
  /\ app \in Seq(Nat) /\ retain \in Nat /\ height \in Nat /\ nBlocks \in Nat
  /\ wal \in Seq([type : {"end", "msg"}, height : Nat]) /\ synced \in Nat
  /\ mode \in {"consensus", "handshake", "mock"}
  /\ pc \in {"down", "running", "endHeight", "exec", "commit", "save", "pruneBlocks",
             "pruneStates", "applied", "replay", "catchup", "panicked", "failed"}

\* The store is where the state is or a block ahead, the application at most where
\* the store is, and both hashes are those of the chain.
HeightsOrdered ==
  /\ store.height \in {state.height, NextHeight(state.height)}
  /\ AppHeight(app) \in Ht /\ AppHeight(app) <= store.height
  /\ app = HashAfter(AppHeight(app)) /\ state.appHash = HashAfter(state.height)

\* The store was pruned up to a height the application gave, and not above the state.
BaseKept ==
  /\ store.base = 0 <=> store.height = 0
  /\ state.height = 0 => store.base \in {0, InitialHeight}
  /\ state.height > 0 => store.base <= state.height
  /\ store.base > InitialHeight => store.base <= retain
  /\ retain <= store.height
  /\ AppBehind = 0 => retain <= AppHeight(app)

\* Once InitChain has run, the validators of every height that can be replayed are
\* saved; the responses of a block that only the application has are too.
SavedForReplay ==
  /\ ~(pc = "down" /\ state.height = 0 /\ AppHeight(app) = 0) =>
       \A h \in Nat : /\ InitialHeight <= h /\ store.base <= h
                      /\ h <= IF state.height = 0 THEN InitialHeight + 1 ELSE state.height + 2
                      => h \in vals
  /\ AppHeight(app) > state.height => AppHeight(app) \in responses

\* The block at height is stored and not yet in the state; it is in the state.
Pending == height = store.height /\ height = NextHeight(state.height)
Done == height = state.height /\ store.height = height /\ AppHeight(app) = height /\ height > 0

\* Where the stores are at every step.
AtPC ==
  /\ pc = "running" => /\ height = NextHeight(state.height)
                       /\ store.height = state.height /\ AppHeight(app) = state.height
  /\ pc = "endHeight" => Pending /\ AppHeight(app) = state.height /\ mode = "consensus"
  /\ pc \in {"exec", "commit"} =>
       Pending /\ AppHeight(app) = IF mode = "mock" THEN height ELSE state.height
  /\ pc = "commit" => height \in responses
  /\ pc = "save" => Pending /\ AppHeight(app) = height
  /\ pc \in {"pruneBlocks", "pruneStates", "applied"} => Done
  /\ pc = "pruneBlocks" => retain > store.base
  /\ pc = "pruneStates" => retain = store.base
  /\ pc = "replay" => /\ state.height > 0 /\ AppHeight(app) <= state.height
                      /\ height = NextHeight(AppHeight(app)) /\ mode = "handshake"
  /\ pc = "catchup" => store.height = state.height /\ AppHeight(app) = state.height

\* The initial height is 1, so that the store is never more than one ahead of the
\* state, and the application does not fall back below what it retains.
Ordinary == InitialHeight = 1 /\ AppBehind = 0

\* StoresAgree says where the stores are when consensus runs.  That every way back
\* leads there takes the order of the stores at every step.
IInv ==
  /\ RecoveryTypeOK
  /\ HeightsOrdered
  /\ BaseKept
  /\ SavedForReplay
  /\ AtPC
  /\ EndImpliesStored
  /\ Ordinary => Restartable
-------------------------------------------------------------------------------
\* The hash after block h: the heights from the initial one to h.
LEMMA HashHeight ==
  ASSUME NEW h \in Ht
  PROVE  /\ HashAfter(h) \in Seq(Nat)
         /\ Len(HashAfter(h)) = IF h = 0 THEN 0 ELSE h - InitialHeight + 1
         /\ \A i \in 1..Len(HashAfter(h)) : HashAfter(h)[i] = InitialHeight + i - 1
         /\ AppHeight(HashAfter(h)) = h
<1> DEFINE n == IF h = 0 THEN 0 ELSE h - InitialHeight + 1
           f == [i \in 1..n |-> InitialHeight + i - 1]
<1>1. n \in Nat /\ f \in [1..n -> Nat]
  BY RecoveryAssumption DEF Ht
<1>2. f \in Seq(Nat) /\ Len(f) = n
  <2> HIDE DEF n, f
  <2> QED BY <1>1, SeqOf
<1>3. HashAfter(h) = f
  BY DEF HashAfter
<1>4. \A i \in 1..n : f[i] = InitialHeight + i - 1
  OBVIOUS
<1>5. CASE h = 0
  BY <1>2, <1>3, <1>4, <1>5, SeqEmpty DEF AppHeight
<1>6. CASE h > 0
  <2>1. f # <<>> /\ f[n] = h
    BY <1>1, <1>2, <1>6, RecoveryAssumption DEF Ht
  <2> QED BY <1>2, <1>3, <1>4, <1>6, <2>1, Zenon DEF AppHeight, Ht
<1> QED BY <1>5, <1>6, RecoveryAssumption DEF Ht

\* The height after a height of a store is one.
LEMMA NextHt ==
  ASSUME NEW h \in Ht
  PROVE  NextHeight(h) \in Ht /\ NextHeight(h) > h /\ NextHeight(h) > 0
BY RecoveryAssumption DEF NextHeight, Ht

\* Executing the next block leads to the hash after it.
LEMMA HashNext ==
  ASSUME NEW h \in Ht
  PROVE  Append(HashAfter(h), NextHeight(h)) = HashAfter(NextHeight(h))
<1> DEFINE k == NextHeight(h)
           g == HashAfter(h)
           f == HashAfter(k)
           t == Append(g, k)
<1>1. k \in Ht /\ k \in Nat /\ k = IF h = 0 THEN InitialHeight ELSE h + 1
  BY NextHt DEF Ht, NextHeight
<1>2. /\ g \in Seq(Nat) /\ Len(g) = IF h = 0 THEN 0 ELSE h - InitialHeight + 1
      /\ \A i \in 1..Len(g) : g[i] = InitialHeight + i - 1
  BY HashHeight
<1>3. /\ f \in Seq(Nat) /\ Len(f) = IF k = 0 THEN 0 ELSE k - InitialHeight + 1
      /\ \A i \in 1..Len(f) : f[i] = InitialHeight + i - 1
  <2> HIDE DEF k
  <2> QED BY <1>1, HashHeight, Zenon
<1> HIDE DEF k, g, f
<1>4. /\ t \in Seq(Nat) /\ Len(t) = Len(g) + 1 /\ t[Len(g) + 1] = k
      /\ \A i \in 1..Len(g) : t[i] = g[i]
  <2>1. g \in Seq(Nat) /\ k \in Nat
    BY <1>1, <1>2, Zenon
  <2> QED BY <2>1, SeqAppend
<1> HIDE DEF t
<1>5. Len(t) = Len(f) /\ Len(g) \in Nat /\ k = InitialHeight + Len(g)
  BY <1>1, <1>2, <1>3, <1>4, RecoveryAssumption DEF Ht
<1>6. \A i \in 1..Len(t) : t[i] = f[i]
  <2> SUFFICES ASSUME NEW i \in 1..Len(t) PROVE t[i] = f[i]
    OBVIOUS
  <2>1. f[i] = InitialHeight + i - 1
    BY <1>3, <1>5
  <2>2. CASE i = Len(g) + 1
    BY <1>4, <1>5, <2>1, <2>2, RecoveryAssumption
  <2>3. CASE i \in 1..Len(g)
    BY <1>2, <1>4, <2>1, <2>3
  <2> QED BY <1>4, <1>5, <2>2, <2>3
<1>7. t = f
  BY <1>3, <1>4, <1>5, <1>6, SeqSame
<1> QED BY <1>7 DEF t, f, g, k

\* A prefix of a hash is the hash after an earlier block.
LEMMA HashPrefix ==
  ASSUME NEW h \in Ht, NEW g, g = HashAfter(h), NEW n \in 0..Len(g)
  PROVE  \E k \in Ht : /\ k <= h /\ SubSeq(g, 1, n) = HashAfter(k)
                       /\ n = Len(g) => k = h
<1> DEFINE k == IF n = 0 THEN 0 ELSE InitialHeight + n - 1
           f == HashAfter(k)
           t == SubSeq(g, 1, n)
<1>1. /\ g \in Seq(Nat) /\ Len(g) = IF h = 0 THEN 0 ELSE h - InitialHeight + 1
      /\ \A i \in 1..Len(g) : g[i] = InitialHeight + i - 1
  BY HashHeight
<1>2. n \in Nat /\ n <= Len(g) /\ k \in Ht /\ k <= h /\ (n = Len(g) => k = h)
  BY <1>1, RecoveryAssumption DEF Ht
<1>3. /\ f \in Seq(Nat) /\ Len(f) = IF k = 0 THEN 0 ELSE k - InitialHeight + 1
      /\ \A i \in 1..Len(f) : f[i] = InitialHeight + i - 1
  <2> HIDE DEF k
  <2> QED BY <1>2, HashHeight
<1> HIDE DEF f
<1>4. Len(f) = n
  BY <1>2, <1>3, RecoveryAssumption
<1> HIDE DEF k
<1>5. \A i \in 1..n : g[i] \in Nat /\ g[i] = f[i]
  <2> SUFFICES ASSUME NEW i \in 1..n PROVE g[i] \in Nat /\ g[i] = f[i]
    OBVIOUS
  <2>1. i \in 1..Len(g) /\ i \in 1..Len(f)
    BY <1>1, <1>2, <1>4, SeqElement
  <2>2. g[i] = InitialHeight + i - 1 /\ f[i] = InitialHeight + i - 1
    BY <1>1, <1>3, <2>1
  <2> QED BY <1>1, <2>1, <2>2, SeqElement, Zenon
<1>6. t \in Seq(Nat) /\ Len(t) = n /\ \A i \in 1..n : t[i] = g[i]
  BY <1>1, SeqPart
<1> HIDE DEF t
<1>7. t = f
  BY <1>3, <1>4, <1>5, <1>6, SeqSame, Zenon
<1> QED BY <1>2, <1>7 DEF t, f

\* The next block carries the hash of the state it is applied to.
LEMMA HashCarried ==
  ASSUME NEW h \in Ht
  PROVE  BlockAppHash(NextHeight(h)) = HashAfter(h)
<1>1. IF NextHeight(h) = InitialHeight THEN h = 0 ELSE NextHeight(h) - 1 = h
  BY RecoveryAssumption DEF NextHeight, Ht
<1> QED BY <1>1 DEF BlockAppHash
-------------------------------------------------------------------------------
\* The WAL stays a sequence of records when one is written to it.
LEMMA WALAppend ==
  ASSUME RecoveryTypeOK, NEW e \in [type : {"end", "msg"}, height : Nat]
  PROVE  /\ Append(wal, e) \in Seq([type : {"end", "msg"}, height : Nat])
         /\ Len(Append(wal, e)) \in Nat
BY SeqAppend, SeqElement DEF RecoveryTypeOK

\* Records of the WAL have heights.
LEMMA WALHeights ==
  ASSUME RecoveryTypeOK
  PROVE  \A i \in 1..Len(wal) : wal[i].height \in Nat
<1> DEFINE R == [type : {"end", "msg"}, height : Nat]
<1>1. \A i \in 1..Len(wal) : wal[i] \in R
  <2> HIDE DEF R
  <2>1. wal \in Seq(R)
    BY DEF RecoveryTypeOK, R
  <2> QED BY <2>1, SeqElement
<1> QED BY <1>1

\* Before the first start.
LEMMA InitIInv ==
  ASSUME RecoveryInit
  PROVE  IInv
<1>1. <<>> \in Seq(Nat) /\ wal \in Seq([type : {"end", "msg"}, height : Nat])
  BY DEF RecoveryInit, RecoveryStart, end
<1>2. HashAfter(0) = <<>> /\ AppHeight(<<>>) = 0 /\ 0 \in Ht
  BY HashHeight, SeqEmpty DEF Ht, AppHeight
<1> QED
  BY <1>1, <1>2, RecoveryAssumption
  DEF RecoveryInit, RecoveryStart, IInv, RecoveryTypeOK, HeightsOrdered, BaseKept,
      SavedForReplay, AtPC, EndImpliesStored, Ordinary, Restartable, end

\* A message of consensus is written to the WAL.
LEMMA ReceiveMsgIInv ==
  ASSUME IInv, NEW own \in BOOLEAN, ReceiveMsg(own)
  PROVE  IInv'
<1>1. /\ wal' \in Seq([type : {"end", "msg"}, height : Nat]) /\ Len(wal') \in Nat
  BY WALAppend DEF IInv, RecoveryTypeOK, ReceiveMsg, msg
<1>2. RecoveryTypeOK'
  BY <1>1 DEF IInv, RecoveryTypeOK, ReceiveMsg, stateStore
<1>3. HeightsOrdered'
  BY DEF IInv, HeightsOrdered, stateStore, ReceiveMsg
<1>4. BaseKept'
  BY DEF IInv, BaseKept, stateStore, ReceiveMsg
<1>5. SavedForReplay'
  BY DEF IInv, SavedForReplay, stateStore, ReceiveMsg
<1>6. AtPC'
  BY DEF IInv, AtPC, stateStore, ReceiveMsg
<1>7. EndImpliesStored'
  BY DEF IInv, EndImpliesStored, msg, ReceiveMsg
<1>8. (Ordinary => Restartable)'
  BY DEF Restartable, ReceiveMsg
<1> QED BY <1>2, <1>3, <1>4, <1>5, <1>6, <1>7, <1>8 DEF IInv

\* SaveBlock: the store is a block ahead.
LEMMA SaveBlockIInv ==
  ASSUME IInv, SaveBlock
  PROVE  IInv'
<1>1. RecoveryTypeOK'
  BY RecoveryAssumption DEF IInv, RecoveryTypeOK, AtPC, Ht, NextHeight, stateStore, WAL, SaveBlock
<1>2. HeightsOrdered'
  BY DEF IInv, RecoveryTypeOK, HeightsOrdered, AtPC, Ht, stateStore, SaveBlock
<1>3. BaseKept'
  BY DEF IInv, RecoveryTypeOK, BaseKept, AtPC, Ht, NextHeight, stateStore, SaveBlock
<1>4. SavedForReplay'
  BY DEF IInv, SavedForReplay, stateStore, SaveBlock
<1>5. AtPC'
  BY DEF IInv, RecoveryTypeOK, AtPC, Pending, Ht, NextHeight, stateStore, SaveBlock
<1>6. EndImpliesStored'
  <2>1. wal' = wal /\ store.height <= store'.height /\ store.height \in Nat /\ store'.height \in Nat
    BY RecoveryAssumption DEF IInv, RecoveryTypeOK, Ht, SaveBlock, WAL
  <2> QED BY <2>1, WALHeights DEF IInv, EndImpliesStored
<1>7. (Ordinary => Restartable)'
  BY DEF IInv, AtPC, NextHeight, Ordinary, Restartable, SaveBlock
<1> QED BY <1>1, <1>2, <1>3, <1>4, <1>5, <1>6, <1>7 DEF IInv

\* WriteSync of EndHeightMessage.
LEMMA WriteEndHeightIInv ==
  ASSUME IInv, WriteEndHeight
  PROVE  IInv'
<1>1. /\ wal' \in Seq([type : {"end", "msg"}, height : Nat]) /\ Len(wal') \in Nat
  BY WALAppend DEF IInv, RecoveryTypeOK, WriteEndHeight, end
<1>2. RecoveryTypeOK'
  BY <1>1 DEF IInv, RecoveryTypeOK, WriteEndHeight, stateStore
<1>3. HeightsOrdered'
  BY DEF IInv, HeightsOrdered, stateStore, WriteEndHeight
<1>4. BaseKept'
  BY DEF IInv, BaseKept, stateStore, WriteEndHeight
<1>5. SavedForReplay'
  BY DEF IInv, SavedForReplay, stateStore, WriteEndHeight
<1>6. AtPC'
  BY Zenon DEF IInv, AtPC, Pending, stateStore, WriteEndHeight
<1>7. EndImpliesStored'
  BY DEF IInv, RecoveryTypeOK, HeightsOrdered, EndImpliesStored, end, AtPC, Pending, WriteEndHeight
<1>8. (Ordinary => Restartable)'
  BY DEF Restartable, WriteEndHeight
<1> QED BY <1>2, <1>3, <1>4, <1>5, <1>6, <1>7, <1>8 DEF IInv

\* execBlockOnProxyApp, and its responses are saved.
LEMMA ExecBlockIInv ==
  ASSUME IInv, ExecBlock
  PROVE  IInv'
<1>1. RecoveryTypeOK'
  BY DEF IInv, RecoveryTypeOK, WAL, ExecBlock
<1>2. HeightsOrdered'
  BY DEF IInv, HeightsOrdered, ExecBlock
<1>3. BaseKept'
  BY DEF IInv, BaseKept, ExecBlock
<1>4. SavedForReplay'
  BY Zenon DEF IInv, SavedForReplay, ExecBlock
<1>5. AtPC'
  BY Zenon DEF IInv, AtPC, Pending, ExecBlock
<1>6. EndImpliesStored'
  BY DEF IInv, EndImpliesStored, WAL, ExecBlock
<1>7. (Ordinary => Restartable)'
  <2>1. ValidBlock
    BY HashCarried DEF IInv, RecoveryTypeOK, HeightsOrdered, AtPC, Pending, ExecBlock, ValidBlock
  <2>2. ValidatorsKnown
    BY RecoveryAssumption DEF IInv, RecoveryTypeOK, BaseKept, SavedForReplay, AtPC, Pending, Ht,
       NextHeight, ExecBlock, ValidatorsKnown
  <2> QED BY <2>1, <2>2 DEF ExecBlock, Restartable
<1> QED BY <1>1, <1>2, <1>3, <1>4, <1>5, <1>6, <1>7 DEF IInv

\* Commit of the application.
LEMMA CommitAppIInv ==
  ASSUME IInv, NEW r \in 0..MaxHeight, CommitApp(r)
  PROVE  IInv'
<1>1. /\ app' \in Seq(Nat) /\ AppHeight(app') = height /\ app' = HashAfter(height)
      /\ height \in Ht /\ height > state.height
  <2>1. height \in Ht /\ height > state.height /\ state.height \in Ht
    BY NextHt DEF IInv, RecoveryTypeOK, AtPC, Pending, CommitApp
  <2>2. app' = HashAfter(height)
    BY HashNext, Zenon DEF IInv, RecoveryTypeOK, HeightsOrdered, AtPC, Pending, CommitApp
  <2> QED BY <2>1, <2>2, HashHeight
<1>2. RecoveryTypeOK'
  BY <1>1 DEF IInv, RecoveryTypeOK, stateStore, WAL, CommitApp
<1>3. HeightsOrdered'
  BY <1>1 DEF IInv, HeightsOrdered, AtPC, Pending, stateStore, CommitApp
<1>4. BaseKept'
  BY <1>1 DEF IInv, RecoveryTypeOK, BaseKept, AtPC, Pending, Ht, stateStore, CommitApp
<1>5. SavedForReplay'
  BY <1>1, Zenon DEF IInv, SavedForReplay, AtPC, stateStore, CommitApp
<1>6. AtPC'
  BY <1>1 DEF IInv, AtPC, Pending, stateStore, CommitApp
<1>7. EndImpliesStored'
  BY DEF IInv, EndImpliesStored, WAL, CommitApp
<1>8. (Ordinary => Restartable)'
  BY Zenon DEF Restartable, CommitApp
<1> QED BY <1>2, <1>3, <1>4, <1>5, <1>6, <1>7, <1>8 DEF IInv

\* The state is saved.
LEMMA SaveStateIInv ==
  ASSUME IInv, SaveState
  PROVE  IInv'
<1>1. /\ app = HashAfter(height) /\ AppHeight(app) = height /\ height \in Ht /\ height > 0
      /\ state' = [height |-> height, appHash |-> app] /\ state'.height = height
      /\ height = NextHeight(state.height) /\ state.height < height /\ state.height \in Ht
  BY NextHt, Zenon DEF IInv, RecoveryTypeOK, HeightsOrdered, AtPC, Pending, SaveState
<1>2. RecoveryTypeOK'
  BY <1>1 DEF IInv, RecoveryTypeOK, WAL, SaveState
<1>3. HeightsOrdered'
  BY <1>1 DEF IInv, HeightsOrdered, Ht, SaveState
<1>4. BaseKept'
  BY <1>1 DEF IInv, RecoveryTypeOK, BaseKept, Ht, SaveState
<1>5. SavedForReplay'
  <2>1. ASSUME NEW h \in Nat, InitialHeight <= h, store.base <= h, h <= height + 2
        PROVE  h \in vals'
    <3>1. CASE h = height + 2
      BY <3>1, Zenon DEF SaveState
    <3>2. CASE h <= height + 1
      <4>1. h <= IF state.height = 0 THEN InitialHeight + 1 ELSE state.height + 2
        BY <1>1, <3>2, RecoveryAssumption DEF NextHeight, Ht
      <4>2. pc # "down"
        BY Zenon DEF SaveState
      <4> QED BY <2>1, <4>1, <4>2 DEF IInv, SavedForReplay, SaveState
    <3> QED BY <1>1, <2>1, <3>1, <3>2 DEF Ht
  <2>2. ~(AppHeight(app) > height) /\ app' = app /\ store' = store /\ height # 0
    BY <1>1, RecoveryAssumption DEF SaveState, Ht
  <2> QED BY <1>1, <2>1, <2>2, Zenon DEF SavedForReplay
<1>6. AtPC'
  BY <1>1, Zenon DEF IInv, AtPC, Pending, Done, SaveState
<1>7. EndImpliesStored'
  BY DEF IInv, EndImpliesStored, WAL, SaveState
<1>8. (Ordinary => Restartable)'
  BY DEF Restartable, SaveState
<1> QED BY <1>2, <1>3, <1>4, <1>5, <1>6, <1>7, <1>8 DEF IInv

\* PruneBlocks.
LEMMA PruneBlocksIInv ==
  ASSUME IInv, PruneBlocks
  PROVE  IInv'
<1>1. retain \in Ht /\ store' = [base |-> retain, height |-> store.height]
  <2>1. retain \in Ht
    BY RecoveryAssumption DEF IInv, RecoveryTypeOK, BaseKept, AtPC, Done, Ht, PruneBlocks
  <2>2. store' = [base |-> retain, height |-> store.height]
    BY Zenon DEF IInv, RecoveryTypeOK, PruneBlocks
  <2> QED BY <2>1, <2>2
<1>2. RecoveryTypeOK'
  BY <1>1, Zenon DEF IInv, RecoveryTypeOK, stateStore, WAL, PruneBlocks
<1>3. HeightsOrdered'
  BY DEF IInv, HeightsOrdered, stateStore, PruneBlocks
<1>4. BaseKept'
  BY DEF IInv, RecoveryTypeOK, BaseKept, AtPC, Done, Ht, stateStore, PruneBlocks
<1>5. SavedForReplay'
  BY DEF IInv, RecoveryTypeOK, SavedForReplay, AtPC, Ht, stateStore, PruneBlocks
<1>6. AtPC'
  BY DEF IInv, AtPC, Done, stateStore, PruneBlocks
<1>7. EndImpliesStored'
  BY DEF IInv, EndImpliesStored, WAL, PruneBlocks
<1>8. (Ordinary => Restartable)'
  BY DEF Restartable, PruneBlocks
<1> QED BY <1>2, <1>3, <1>4, <1>5, <1>6, <1>7, <1>8 DEF IInv

\* PruneStates.
LEMMA PruneStatesIInv ==
  ASSUME IInv, PruneStates
  PROVE  IInv'
<1>1. RecoveryTypeOK'
  BY DEF IInv, RecoveryTypeOK, WAL, PruneStates
<1>2. HeightsOrdered'
  BY DEF IInv, HeightsOrdered, PruneStates
<1>3. BaseKept'
  BY DEF IInv, BaseKept, PruneStates
<1>4. SavedForReplay'
  BY Zenon DEF IInv, BaseKept, SavedForReplay, AtPC, Done, PruneStates
<1>5. AtPC'
  BY DEF IInv, AtPC, Done, PruneStates
<1>6. EndImpliesStored'
  BY DEF IInv, EndImpliesStored, WAL, PruneStates
<1>7. (Ordinary => Restartable)'
  BY Zenon DEF Restartable, PruneStates
<1> QED BY <1>1, <1>2, <1>3, <1>4, <1>5, <1>6, <1>7 DEF IInv

\* The block is applied.
LEMMA AppliedIInv ==
  ASSUME IInv, Applied
  PROVE  IInv'
<1>1. RecoveryTypeOK'
  BY DEF IInv, RecoveryTypeOK, AtPC, Done, NextHeight, stateStore, WAL, Applied
<1>2. HeightsOrdered'
  BY DEF IInv, HeightsOrdered, stateStore, Applied
<1>3. BaseKept'
  BY DEF IInv, BaseKept, stateStore, Applied
<1>4. SavedForReplay'
  BY Zenon DEF IInv, SavedForReplay, stateStore, Applied
<1>5. AtPC'
  BY Zenon DEF IInv, AtPC, Done, stateStore, Applied
<1>6. EndImpliesStored'
  BY DEF IInv, EndImpliesStored, WAL, Applied
<1>7. (Ordinary => Restartable)'
  BY Zenon DEF Restartable, Applied
<1> QED BY <1>1, <1>2, <1>3, <1>4, <1>5, <1>6, <1>7 DEF IInv

\* Where the handshake goes: an application that is too far behind, or a store two
\* ahead of the state, stops it, and neither happens to an ordinary node.
LEMMA HandshakeGoesTo ==
  ASSUME IInv, Handshake
  PROVE  \/ /\ store.height = state.height /\ AppHeight(app) = state.height
            /\ pc' = "catchup" /\ mode' = "handshake" /\ height' = 0
         \/ /\ AppHeight(app) < state.height /\ pc' = "replay"
            /\ mode' = "handshake" /\ height' = NextHeight(AppHeight(app))
         \/ /\ AppHeight(app) = state.height /\ store.height > state.height /\ pc' = "exec"
            /\ mode' = "handshake" /\ height' = store.height
         \/ /\ AppHeight(app) > state.height /\ pc' = "exec"
            /\ mode' = "mock" /\ height' = store.height
         \/ /\ ~Ordinary /\ pc' \in {"failed", "panicked"}
            /\ mode' = "handshake" /\ height' = 0
<1> DEFINE a == AppHeight(app)
<1>1. /\ a \in Ht /\ state.height \in Ht /\ store.height \in Ht /\ store.base \in Ht
      /\ a <= store.height /\ store.height \in {state.height, NextHeight(state.height)}
      /\ a > state.height => a \in responses
      /\ a = state.height => Synced = "catchup"
  BY DEF IInv, RecoveryTypeOK, HeightsOrdered, SavedForReplay, Synced
<1>2. Ordinary => ~AppTooLow(a) /\ store.height \in state.height..state.height + 1
  BY <1>1, RecoveryAssumption
  DEF IInv, RecoveryTypeOK, BaseKept, Ordinary, AppTooLow, Ht, NextHeight
<1> HIDE DEF a
<1>3. store.height = 0 => state.height = 0 /\ a = 0
  BY <1>1, NextHt, RecoveryAssumption DEF Ht
<1>4. CASE store.height = 0
  BY <1>1, <1>3, <1>4, Zenon DEF Handshake, a
<1>5. CASE store.height # 0 /\ (AppTooLow(a) \/ store.height < a)
  BY <1>1, <1>2, <1>5, RecoveryAssumption DEF Handshake, a, Ht
<1>6. CASE /\ store.height # 0 /\ ~(AppTooLow(a) \/ store.height < a)
           /\ store.height \notin state.height..state.height + 1
  BY <1>1, <1>2, <1>6 DEF Handshake, a
<1>7. CASE /\ store.height # 0 /\ ~(AppTooLow(a) \/ store.height < a)
           /\ store.height \in state.height..state.height + 1
  <2>1. /\ pc' = ReplayFrom(a).pc /\ height' = ReplayFrom(a).height /\ mode' = ReplayFrom(a).mode
    BY <1>7, Zenon DEF Handshake, a
  <2>2. CASE a < state.height
    <3>1. ReplayFrom(a) = [pc |-> "replay", height |-> NextHeight(a), mode |-> "handshake"]
      BY <1>1, <2>2, RecoveryAssumption DEF ReplayFrom, Ht
    <3> QED BY <2>1, <2>2, <3>1 DEF a
  <2>3. CASE a = state.height /\ store.height = state.height
    <3>1. ReplayFrom(a) = [pc |-> Synced, height |-> 0, mode |-> "handshake"]
      BY <1>1, <2>3, RecoveryAssumption DEF ReplayFrom, Ht
    <3> QED BY <1>1, <2>1, <2>3, <3>1 DEF a
  <2>4. CASE a = state.height /\ store.height > state.height
    <3>1. ReplayFrom(a) = [pc |-> "exec", height |-> store.height, mode |-> "handshake"]
      BY <1>1, <2>4, RecoveryAssumption DEF ReplayFrom, Ht
    <3> QED BY <2>1, <2>4, <3>1 DEF a
  <2>5. CASE a > state.height
    <3>1. ReplayFrom(a) = [pc |-> "exec", height |-> store.height, mode |-> "mock"]
      BY <1>1, <2>5, RecoveryAssumption DEF ReplayFrom, Ht
    <3> QED BY <2>1, <2>5, <3>1 DEF a
  <2> QED BY <1>1, <2>2, <2>3, <2>4, <2>5, NextHt, RecoveryAssumption DEF Ht
<1> QED BY <1>4, <1>5, <1>6, <1>7

\* Handshake: InitChain, and where ReplayBlocks goes to.
LEMMA HandshakeIInv ==
  ASSUME IInv, Handshake
  PROVE  IInv'
<1>1. /\ store' = store /\ state' = state /\ responses' = responses /\ app' = app
      /\ retain' = retain /\ wal' = wal /\ synced' = synced /\ nBlocks' = 0
      /\ vals' = IF AppHeight(app) = 0 /\ state.height = 0
                 THEN vals \cup {InitialHeight, InitialHeight + 1} ELSE vals
  BY DEF Handshake, WAL
<1>2. /\ pc = "down" /\ AppHeight(app) \in Ht /\ state.height \in Ht
      /\ store.height > state.height => store.height = NextHeight(state.height)
      /\ AppHeight(app) > state.height => AppHeight(app) = store.height
      /\ AppHeight(app) < state.height => state.height > 0
  <2>1. /\ pc = "down" /\ AppHeight(app) \in Ht /\ state.height \in Ht
        /\ store.height \in {state.height, NextHeight(state.height)} /\ AppHeight(app) <= store.height
    BY Zenon DEF IInv, RecoveryTypeOK, HeightsOrdered, Handshake
  <2> QED BY <2>1, RecoveryAssumption DEF Ht, NextHeight
<1>3. RecoveryTypeOK'
  BY <1>1, <1>2, HandshakeGoesTo, RecoveryAssumption DEF IInv, RecoveryTypeOK, Ht, NextHeight
<1>4. HeightsOrdered'
  BY Zenon DEF IInv, HeightsOrdered, Handshake
<1>5. BaseKept'
  BY Zenon DEF IInv, BaseKept, Handshake
<1>6. SavedForReplay'
  BY RecoveryAssumption DEF IInv, SavedForReplay, Handshake
<1>7. AtPC'
  BY <1>1, <1>2, HandshakeGoesTo, RecoveryAssumption DEF AtPC, Pending, Done, Ht
<1>8. EndImpliesStored'
  BY <1>1 DEF IInv, EndImpliesStored
<1>9. (Ordinary => Restartable)'
  BY HandshakeGoesTo DEF Restartable
<1> QED BY <1>3, <1>4, <1>5, <1>6, <1>7, <1>8, <1>9 DEF IInv

\* A block replayed by the handshake.
LEMMA ReplayBlockIInv ==
  ASSUME IInv, ReplayBlock
  PROVE  IInv'
<1>1. /\ store' = store /\ state' = state /\ responses' = responses /\ vals' = vals
      /\ retain' = retain /\ wal' = wal /\ synced' = synced /\ mode' = mode /\ mode = "handshake"
  BY DEF IInv, AtPC, ReplayBlock, stateStore, WAL
<1>2. /\ AppHeight(app) \in Ht /\ state.height \in Ht /\ height \in Ht /\ pc = "replay"
      /\ app = HashAfter(AppHeight(app)) /\ height = NextHeight(AppHeight(app))
      /\ AppHeight(app) <= state.height /\ state.height > 0 /\ finalBlock = state.height
      /\ \/ store.height = state.height
         \/ store.height = NextHeight(state.height) /\ store.height > state.height
  <2>1. /\ AppHeight(app) \in Ht /\ state.height \in Ht /\ pc = "replay"
        /\ app = HashAfter(AppHeight(app)) /\ height = NextHeight(AppHeight(app))
        /\ AppHeight(app) <= state.height /\ state.height > 0
        /\ store.height \in {state.height, NextHeight(state.height)}
    BY DEF IInv, RecoveryTypeOK, HeightsOrdered, AtPC, ReplayBlock
  <2>2. height \in Ht
    BY <2>1, NextHt, Zenon
  <2> QED BY <2>1, <2>2, RecoveryAssumption DEF Ht, NextHeight, finalBlock
<1>3. \/ /\ AppHeight(app) = state.height
         /\ height' = store.height /\ app' = app /\ nBlocks' = nBlocks
         /\ pc' = IF store.height > state.height THEN "exec" ELSE "catchup"
      \/ /\ height <= state.height /\ height > 0
         /\ app' = HashAfter(height) /\ AppHeight(app') = height /\ app' \in Seq(Nat)
         /\ height' = NextHeight(height) /\ nBlocks' = nBlocks + 1 /\ pc' = "replay"
      \/ /\ ~Ordinary /\ pc' = "panicked"
         /\ app' = app /\ height' = height /\ nBlocks' = nBlocks
  <2>1. CASE height > state.height
    <3>1. AppHeight(app) = state.height
      BY <1>2, <2>1, RecoveryAssumption DEF NextHeight, Ht
    <3>2. Synced = "catchup"
      BY <1>2, <3>1, Zenon DEF IInv, HeightsOrdered, Synced
    <3> QED BY <1>2, <2>1, <3>1, <3>2 DEF ReplayBlock
  <2>2. CASE height <= state.height
    <3>1. app = BlockAppHash(height)
      BY <1>2, HashCarried
    <3>2. Ordinary => ValidatorsKnown
      <4> SUFFICES ASSUME Ordinary, height > InitialHeight PROVE height - 1 \in vals
        BY DEF ValidatorsKnown
      <4>1. /\ height - 1 = AppHeight(app) /\ AppHeight(app) \in Nat /\ InitialHeight <= AppHeight(app)
            /\ AppHeight(app) <= state.height + 2 /\ state.height # 0
        BY <1>2, RecoveryAssumption DEF NextHeight, Ht
      <4>2. store.base <= AppHeight(app)
        BY <4>1, RecoveryAssumption DEF IInv, RecoveryTypeOK, BaseKept, Ordinary, Ht
      <4> QED BY <1>2, <4>1, <4>2, Zenon DEF IInv, SavedForReplay
    <3>3. /\ HashAfter(height) = Append(app, height) /\ AppHeight(HashAfter(height)) = height
          /\ HashAfter(height) \in Seq(Nat)
      BY <1>2, HashNext, HashHeight, Zenon
    <3>4. height > 0 /\ height + 1 = NextHeight(height) /\ ~(height > state.height)
      BY <1>2, <2>2, NextHt, RecoveryAssumption DEF NextHeight, Ht
    <3> QED BY <1>2, <2>2, <3>1, <3>2, <3>3, <3>4, Zenon DEF ReplayBlock
  <2> QED BY <1>2, <2>1, <2>2, RecoveryAssumption DEF Ht
<1>4. RecoveryTypeOK'
  <2>1. height' \in Nat /\ app' \in Seq(Nat) /\ nBlocks' \in Nat
    BY <1>2, <1>3, NextHt, RecoveryAssumption DEF IInv, RecoveryTypeOK, Ht
  <2> QED BY <1>1, <1>3, <2>1, Zenon DEF IInv, RecoveryTypeOK
<1>5. HeightsOrdered'
  <2>1. height <= state.height => height <= store.height
    BY <1>2, RecoveryAssumption DEF IInv, RecoveryTypeOK, HeightsOrdered, Ht, NextHeight
  <2> QED BY <1>1, <1>2, <1>3, <2>1, Zenon DEF IInv, HeightsOrdered
<1>6. BaseKept'
  <2>1. BaseKept /\ retain \in Nat
    BY Zenon DEF IInv, RecoveryTypeOK
  <2>2. height > AppHeight(app) /\ AppHeight(app) \in Nat /\ height \in Nat
    BY <1>2, RecoveryAssumption DEF Ht, NextHeight
  <2>3. AppHeight(app') = AppHeight(app) \/ AppHeight(app') = height
    BY <1>3, Zenon
  <2>4. AppBehind = 0 => retain <= AppHeight(app')
    BY <2>1, <2>2, <2>3 DEF BaseKept
  <2> QED BY <1>1, <2>1, <2>4, Zenon DEF BaseKept
<1>7. SavedForReplay'
  BY <1>1, <1>2, <1>3, Zenon DEF IInv, SavedForReplay, ReplayBlock
<1>8. AtPC'
  BY <1>1, <1>2, <1>3, RecoveryAssumption DEF AtPC, Pending, Done, Ht
<1>9. EndImpliesStored'
  BY <1>1 DEF IInv, EndImpliesStored
<1>10. (Ordinary => Restartable)'
  BY <1>3, Zenon DEF Restartable
<1> QED BY <1>4, <1>5, <1>6, <1>7, <1>8, <1>9, <1>10 DEF IInv

\* catchupReplay.
LEMMA CatchupReplayIInv ==
  ASSUME IInv, CatchupReplay
  PROVE  IInv'
<1>1. RecoveryTypeOK'
  BY RecoveryAssumption DEF IInv, RecoveryTypeOK, Ht, NextHeight, stateStore, WAL, CatchupReplay
<1>2. HeightsOrdered'
  BY DEF IInv, HeightsOrdered, stateStore, CatchupReplay
<1>3. BaseKept'
  BY DEF IInv, BaseKept, stateStore, CatchupReplay
<1>4. SavedForReplay'
  BY Zenon DEF IInv, SavedForReplay, stateStore, CatchupReplay
<1>5. AtPC'
  BY DEF IInv, AtPC, stateStore, CatchupReplay
<1>6. EndImpliesStored'
  BY Zenon DEF IInv, EndImpliesStored, WAL, CatchupReplay
<1>7. (Ordinary => Restartable)'
  BY DEF IInv, AtPC, Restartable, CatchupReplay
<1> QED BY <1>1, <1>2, <1>3, <1>4, <1>5, <1>6, <1>7 DEF IInv

\* A crash: the application may fall back, and the WAL loses what was not synced.
LEMMA CrashIInv ==
  ASSUME IInv, Crash
  PROVE  IInv'
<1>1. PICK n \in 0..Len(app) : /\ app' = SubSeq(app, 1, n)
                               /\ n = Len(app) \/ AppHeight(app') >= retain - AppBehind
  BY Zenon DEF Crash
<1>2. /\ AppHeight(app') \in Ht /\ app' = HashAfter(AppHeight(app')) /\ app' \in Seq(Nat)
      /\ AppHeight(app') <= AppHeight(app)
      /\ AppHeight(app') = AppHeight(app) \/ AppHeight(app') >= retain - AppBehind
  <2>1. AppHeight(app) \in Ht /\ app = HashAfter(AppHeight(app))
    BY DEF IInv, HeightsOrdered
  <2>2. PICK k \in Ht : /\ k <= AppHeight(app) /\ SubSeq(app, 1, n) = HashAfter(k)
                        /\ n = Len(app) => k = AppHeight(app)
    <3> DEFINE h == AppHeight(app)
    <3>1. h \in Ht /\ app = HashAfter(h)
      BY <2>1
    <3> HIDE DEF h
    <3>2. \E k \in Ht : /\ k <= h /\ SubSeq(app, 1, n) = HashAfter(k)
                        /\ n = Len(app) => k = h
      BY <3>1, HashPrefix, Zenon
    <3> QED BY <3>2, Zenon DEF h
  <2>3. app' = HashAfter(k)
    BY <1>1, <2>2, Zenon
  <2>4. AppHeight(app') = k /\ app' \in Seq(Nat)
    BY <2>3, HashHeight
  <2> QED BY <1>1, <2>2, <2>3, <2>4, Zenon
<1>3. /\ store' = store /\ state' = state /\ responses' = responses /\ vals' = vals
      /\ retain' = retain /\ height' = height /\ mode' = mode /\ nBlocks' = nBlocks
      /\ pc' = "down" /\ pc # "down"
  BY DEF Crash, stateStore
<1>4. PICK m \in synced..Len(wal) : wal' = SubSeq(wal, 1, m) /\ synced' = m
  BY DEF Crash
<1>5. /\ wal' \in Seq([type : {"end", "msg"}, height : Nat]) /\ synced' \in Nat
      /\ \A i \in 1..Len(wal') : i \in 1..Len(wal) /\ wal'[i] = wal[i]
  <2> DEFINE R == [type : {"end", "msg"}, height : Nat]
  <2>1. wal \in Seq(R) /\ synced \in Nat
    BY DEF IInv, RecoveryTypeOK
  <2> HIDE DEF R
  <2>2. Len(wal) \in Nat /\ m \in Nat /\ m <= Len(wal)
    BY <1>4, <2>1, SeqElement
  <2>3. wal' \in Seq(R) /\ Len(wal') = m /\ \A i \in 1..m : wal'[i] = wal[i]
    BY <1>4, <2>1, <2>2, SeqPart
  <2> QED BY <1>4, <2>2, <2>3 DEF R
<1>6. RecoveryTypeOK'
  BY <1>2, <1>3, <1>5 DEF IInv, RecoveryTypeOK
<1>7. HeightsOrdered'
  <2>1. AppHeight(app) \in Nat /\ AppHeight(app') \in Nat /\ store.height \in Nat
    BY <1>2, RecoveryAssumption DEF IInv, RecoveryTypeOK, HeightsOrdered, Ht
  <2> QED BY <1>2, <1>3, <2>1 DEF IInv, HeightsOrdered
<1>8. BaseKept'
  BY <1>2, <1>3, RecoveryAssumption DEF IInv, RecoveryTypeOK, BaseKept, Ht
<1>9. SavedForReplay'
  <2>1. AppHeight(app') > state.height => AppHeight(app') = AppHeight(app)
    BY <1>2, RecoveryAssumption DEF IInv, RecoveryTypeOK, HeightsOrdered, NextHeight, Ht
  <2> QED BY <1>3, <2>1 DEF IInv, SavedForReplay
<1>10. AtPC'
  BY <1>3 DEF AtPC
<1>11. EndImpliesStored'
  BY <1>3, <1>5 DEF IInv, EndImpliesStored
<1>12. (Ordinary => Restartable)'
  BY <1>3 DEF Restartable
<1> QED BY <1>6, <1>7, <1>8, <1>9, <1>10, <1>11, <1>12 DEF IInv

\* Every step keeps the invariant.
LEMMA NextIInv ==
  ASSUME IInv, [RecoveryNext]_recVars
  PROVE  IInv'
<1>1. CASE UNCHANGED recVars
  <2> USE <1>1, Zenon DEF recVars, stateStore, WAL
  <2>1. RecoveryTypeOK'
    BY DEF IInv, RecoveryTypeOK
  <2>2. HeightsOrdered'
    BY DEF IInv, HeightsOrdered
  <2>3. BaseKept'
    BY DEF IInv, BaseKept
  <2>4. SavedForReplay'
    BY DEF IInv, SavedForReplay
  <2>5. AtPC'
    BY DEF IInv, AtPC, Pending, Done
  <2>6. EndImpliesStored'
    BY DEF IInv, EndImpliesStored
  <2>7. (Ordinary => Restartable)'
    BY DEF IInv, Restartable, Ordinary
  <2> QED BY <2>1, <2>2, <2>3, <2>4, <2>5, <2>6, <2>7 DEF IInv
<1>2. CASE RecoveryStep
  BY <1>2, ReceiveMsgIInv, SaveBlockIInv, WriteEndHeightIInv, ExecBlockIInv, CommitAppIInv,
     SaveStateIInv, PruneBlocksIInv, PruneStatesIInv, AppliedIInv, HandshakeIInv,
     ReplayBlockIInv, CatchupReplayIInv
  DEF RecoveryStep
<1> QED BY <1>1, <1>2, CrashIInv DEF RecoveryNext

\* What the invariant implies.
LEMMA IInvImplies ==
  ASSUME IInv
  PROVE  StoresAgree /\ (Ordinary => Restartable)
BY DEF IInv, HeightsOrdered, AtPC, StoresAgree, ExactlyOnce, RunsInSync

\* Whatever the initial height, the number of crashes and the place of each, and
\* however far the application falls back: it executes every block once and in order,
\* consensus runs only when block store, state and application are at the same height
\* and hash (Handshake, ReplayBlocks), and the WAL never has the end of a height whose
\* block is not stored (finalizeCommit).
THEOREM StoresAgreeHolds == RecoverySpec => []StoresAgree
<1>1. RecoveryInit => IInv
  BY InitIInv
<1>2. IInv /\ [RecoveryNext]_recVars => IInv'
  BY NextIInv
<1>3. IInv => StoresAgree
  BY IInvImplies
<1> QED BY <1>1, <1>2, <1>3, PTL DEF RecoverySpec

\* A chain that starts at height 1, on an application that does not fall back below
\* the height it told the node to retain, can be restarted after every crash: no
\* check of ReplayBlocks, SaveBlock or ApplyBlock fails, with pruning at any height.
THEOREM RestartableHolds ==
  ASSUME InitialHeight = 1, AppBehind = 0
  PROVE  RecoverySpec => []Restartable
<1>1. RecoveryInit => IInv
  BY InitIInv
<1>2. IInv /\ [RecoveryNext]_recVars => IInv'
  BY NextIInv
<1>3. IInv => Restartable
  BY IInvImplies DEF Ordinary
<1> QED BY <1>1, <1>2, <1>3, PTL DEF RecoverySpec
================================================================================
