------------------------------ MODULE Mempool ------------------------------
(* The priority mempool of internal/mempool/v1 and its ABCI connection.  Txs *)
(* are checked by the application asynchronously: CheckTx sends a request    *)
(* and then sets its callback, responses come back in the order of the       *)
(* requests, and Update runs under the write lock once the connection has    *)
(* been flushed.  A WrappedTx is named by its transaction and the number of  *)
(* its copy; the indexes hold these names and mp.wtx what they point to.     *)
EXTENDS Integers, Sequences, FiniteSets, SequencesExt, FiniteSetsExt

CONSTANTS
    Txs,            \* transactions
    SizeOf,         \* [Txs -> Nat], bytes
    SenderOf,       \* [Txs -> senders or NoSender], what CheckTx answers
    Priorities,     \* the priorities CheckTx may answer
    Size,           \* config.Size
    MaxTxsBytes,    \* config.MaxTxsBytes
    CacheSize,      \* config.CacheSize
    TTLNumBlocks,   \* config.TTLNumBlocks, 0 for none
    SetsDone,       \* does the ABCI client mark a request done (gRPC: yes)
    ReapRechecking, \* may a block be proposed while txs are rechecked
    MaxHeight, NoSender, None

VARIABLES mp, inflight, calling, answered, popped, committed, crashed

mpVars == <<mp, inflight, calling, answered, popped, committed, crashed>>

Names == [tx : Txs, copy : 0..1]
Bad   == [ok |-> FALSE, priority |-> 0]
Results == {Bad} \cup {[ok |-> TRUE, priority |-> p] : p \in Priorities}

Start(on) ==
    /\ mp = [cache |-> <<>>, store |-> {}, priority |-> {}, heights |-> {},
             gossip |-> <<>>, bytes |-> 0, wtx |-> <<>>, height |-> 0,
             cursor |-> None, end |-> None, notified |-> FALSE, panic |-> FALSE]
    /\ inflight = <<>> /\ calling = {} /\ answered = {} /\ popped = {}
    /\ committed = {} /\ crashed = ~on
Init == Start(TRUE)

----------------------------------------------------------------------------
(* The cache and the indexes.                                                *)

\* LRUTxCache.Push: move to the back, or evict the front and append.
Push(cache, tx) ==
    LET old == IF Contains(cache, tx) THEN RemoveFirst(cache, tx)
               ELSE IF Len(cache) >= CacheSize THEN Tail(cache) ELSE cache
    IN  Append(old, tx)

CacheRemove(cache, tx) == RemoveFirst(cache, tx)

Panic(m) == [m EXCEPT !.panic = TRUE]

StoredAs(m, tx) == {n \in m.store : n.tx = tx}

\* The heap index of a WrappedTx that is not in the heap is -1, and removing
\* that panics.  IsTxRemoved looks the hash up among the stored ones, where a
\* removed tx never is, and so never stops removeTx.
removeTx(m, n, fromCache) ==
    IF n \notin m.priority THEN Panic(m)
    ELSE [m EXCEPT !.store = @ \ StoredAs(m, n.tx), !.priority = @ \ {n},
                   !.heights = @ \ {n}, !.gossip = RemoveFirst(@, n),
                   !.bytes = @ - SizeOf[n.tx],
                   !.wtx = [k \in DOMAIN @ \ {n} |-> @[k]],
                   !.cache = IF fromCache THEN CacheRemove(@, n.tx) ELSE @]

removeTxs(m, ns, fromCache) ==
    FoldLeft(LAMBDA a, n : removeTx(a, n, fromCache), m, SetToSeq(ns))

NewName(m, tx) == CHOOSE n \in [tx : {tx}, copy : 0..1] :
                     [tx |-> tx, copy |-> 0] \in DOMAIN m.wtx <=> n.copy = 1

insertTx(m, tx, priority) ==
    LET n == NewName(m, tx) IN
    [m EXCEPT !.store = (@ \ StoredAs(m, tx)) \cup {n}, !.priority = @ \cup {n},
              !.heights = @ \cup {n}, !.gossip = Append(@, n),
              !.bytes = @ + SizeOf[tx],
              !.wtx = [k \in DOMAIN @ \cup {n} |->
                          IF k = n THEN [height |-> m.height, priority |-> priority,
                                         checked |-> m.height]
                          ELSE @[k]]]

notifyTxsAvailable(m) ==
    IF m.store = {} THEN Panic(m) ELSE [m EXCEPT !.notified = TRUE]

canAddTx(m, tx) ==
    Cardinality(m.store) < Size /\ SizeOf[tx] + m.bytes <= MaxTxsBytes

\* The shortest prefix, in ascending priority, of the lower ones in the heap
\* that makes room in bytes; sort.Slice may order equal ones either way.  No
\* such prefix: nothing is evicted.
BytesOf(ns) == MapThenSumSet(LAMBDA n : SizeOf[n.tx], ns)

GetEvictableTxs(m, tx, priority) ==
    LET pri(n)   == m.wtx[n].priority
        lower    == {n \in m.priority : pri(n) < priority}
        fits(ns) == m.bytes - BytesOf(ns) + SizeOf[tx] <= MaxTxsBytes
        prefix(ns) == /\ ns # {}
                      /\ \A n \in ns, k \in lower \ ns : pri(n) <= pri(k)
        last(ns) == {n \in ns : \A k \in ns : pri(k) <= pri(n)}
        enough   == {ns \in SUBSET lower : /\ prefix(ns) /\ fits(ns)
                                           /\ \E n \in last(ns) : ns = {n} \/ ~fits(ns \ {n})}
    IN  IF enough = {} THEN {{}} ELSE enough

(* The callbacks: what the mempool is after the response to a request.       *)

SenderTaken(m, tx) ==
    SenderOf[tx] # NoSender /\ \E n \in m.store : SenderOf[n.tx] = SenderOf[tx]

Insert(m, tx, priority) == notifyTxsAvailable(insertTx(m, tx, priority))

initTxCallback(m, tx, res) ==
    CASE m.cursor # None -> {Panic(m)}
      [] m.cursor = None /\ ~res.ok -> {[m EXCEPT !.cache = CacheRemove(@, tx)]}
      [] m.cursor = None /\ res.ok /\ SenderTaken(m, tx) -> {m}
      [] m.cursor = None /\ res.ok /\ ~SenderTaken(m, tx) /\ canAddTx(m, tx) ->
            {Insert(m, tx, res.priority)}
      [] OTHER ->
            {IF ns = {} THEN [m EXCEPT !.cache = CacheRemove(@, tx)]
             ELSE Insert(removeTxs(m, ns, TRUE), tx, res.priority) :
                ns \in GetEvictableTxs(m, tx, res.priority)}

NextInGossip(m, n) ==
    LET i == SelectInSeq(m.gossip, LAMBDA k : k = n)
    IN  IF i = Len(m.gossip) THEN None ELSE m.gossip[i + 1]

\* Runs for every response; advances the cursor when one is set.
defaultTxCallback(m, tx, res) ==
    LET n     == m.cursor
        next  == IF n = m.end THEN None ELSE NextInGossip(m, n)
        seen  == IF res.ok THEN [m EXCEPT !.wtx[n].priority = res.priority,
                                          !.wtx[n].checked = m.height]
                 ELSE removeTx(m, n, TRUE)
        moved == [seen EXCEPT !.cursor = next]
    IN  CASE n = None -> m
          [] n # None /\ n.tx # tx -> Panic(m)
          [] OTHER -> IF next = None /\ seen.store # {} THEN notifyTxsAvailable(moved)
                      ELSE moved

----------------------------------------------------------------------------
(* The actions.  Every CheckTx call and every reaping proposer holds the read *)
(* lock; Update needs the write lock.                                         *)

Alive == ~crashed /\ ~mp.panic

\* CheckTx up to CheckTxAsync.  A transaction in the cache is not sent; if the
\* request cannot be queued it leaves the cache again.
CheckTx(tx) ==
    /\ Alive /\ tx \notin calling \cup {r.tx : r \in answered}
    /\ LET pushed == Push(mp.cache, tx) IN
       IF Contains(mp.cache, tx)
       THEN /\ mp' = [mp EXCEPT !.cache = pushed]
            /\ UNCHANGED <<inflight, calling>>
       ELSE \/ /\ mp' = [mp EXCEPT !.cache = pushed]
               /\ inflight' = Append(inflight, [tx |-> tx, recheck |-> FALSE])
               /\ calling' = calling \cup {tx}
            \/ /\ mp' = [mp EXCEPT !.cache = CacheRemove(pushed, tx)]
               /\ UNCHANGED <<inflight, calling>>
    /\ UNCHANGED <<answered, popped, committed, crashed>>

\* CheckTx sets the callback of its request.  If the request is done already
\* the callback runs here, but only if the client has said so with SetDone.
SetCallback(tx) ==
    /\ Alive /\ tx \in calling
    /\ calling' = calling \ {tx}
    /\ LET done == {r \in answered : r.tx = tx} IN
       /\ answered' = answered \ done
       /\ IF done = {} \/ ~SetsDone THEN mp' = mp
          ELSE \E r \in done : mp' \in initTxCallback(mp, tx, r.res)
    /\ UNCHANGED <<inflight, popped, committed, crashed>>

\* The ABCI client takes a response: first the global callback, then the one of
\* the request if it is set by now.
Respond(res) ==
    /\ Alive /\ inflight # <<>>
    /\ inflight' = Tail(inflight)
    /\ LET r == Head(inflight)
           m == defaultTxCallback(mp, r.tx, res) IN
       IF r.recheck \/ m.panic THEN mp' = m /\ UNCHANGED answered
       ELSE IF r.tx \in calling
       THEN mp' = m /\ answered' = answered \cup {[tx |-> r.tx, res |-> res]}
       ELSE mp' \in initTxCallback(m, r.tx, res) /\ UNCHANGED answered
    /\ UNCHANGED <<calling, popped, committed, crashed>>

\* ReapMaxBytesMaxGas and ReapMaxTxs pop transactions off the heap and push
\* them back when they are done, with only the read lock held.
ReapMaxTxs ==
    /\ Alive /\ popped = {} /\ mp.priority # {}
    /\ ReapRechecking \/ mp.cursor = None
    /\ popped' = mp.priority
    /\ mp' = [mp EXCEPT !.priority = {}]
    /\ UNCHANGED <<inflight, calling, answered, committed, crashed>>

ReapReturns ==
    /\ Alive /\ popped # {}
    /\ mp' = [mp EXCEPT !.priority = @ \cup popped]
    /\ popped' = {}
    /\ UNCHANGED <<inflight, calling, answered, committed, crashed>>

\* Mutant: committed transactions are not remembered in the cache.
commitTxUncached(m, tx, ok) ==
    removeTxs([m EXCEPT !.cache = CacheRemove(@, tx)], StoredAs(m, tx), FALSE)

commitTx(m, tx, ok) ==
    LET cached == [m EXCEPT !.cache = IF ok THEN Push(@, tx) ELSE CacheRemove(@, tx)]
    IN  removeTxs(cached, StoredAs(m, tx), FALSE)

\* Expired ones leave the height index; of two copies only one leaves the rest.
purgeExpiredTxs(m) ==
    LET expired == {n \in m.heights : TTLNumBlocks > 0
                                      /\ m.height - m.wtx[n].height > TTLNumBlocks}
        once    == {n \in expired : \A k \in expired : k.tx = n.tx => k.copy <= n.copy}
    IN  removeTxs([m EXCEPT !.heights = @ \ expired], once, FALSE)

updateReCheckTxs(m) ==
    [m EXCEPT !.cursor = IF m.gossip = <<>> THEN None ELSE Head(m.gossip),
              !.end = IF m.gossip = <<>> THEN None ELSE Last(m.gossip)]

\* FlushAppConn has waited for the response, and its callback, to every request.
Flushed == inflight = <<>>

\* BlockExecutor.Commit: with the mempool locked, all requests are flushed, the
\* application commits a block of some transactions, and Update takes them out
\* and sends the rest to be rechecked.
Update(block) ==
    /\ Alive /\ calling = {} /\ popped = {} /\ Flushed
    /\ mp.height < MaxHeight
    /\ LET txs == SetToSeq(DOMAIN block)
           new == [mp EXCEPT !.height = @ + 1, !.notified = FALSE]
           rest == purgeExpiredTxs(FoldLeft(LAMBDA m, tx : commitTx(m, tx, block[tx]), new, txs))
           re  == updateReCheckTxs(rest)
       IN  /\ mp' = IF rest.store = {} THEN rest ELSE re
           /\ inflight' = inflight \o
                  (IF rest.store = {} THEN <<>>
                   ELSE [i \in DOMAIN re.gossip |-> [tx |-> re.gossip[i].tx, recheck |-> TRUE]])
           /\ committed' = (committed \cup {tx \in DOMAIN block : block[tx]})
                               \ {tx \in DOMAIN block : ~block[tx]}
    /\ UNCHANGED <<calling, answered, popped, crashed>>

Blocks == UNION {[txs -> BOOLEAN] : txs \in SUBSET Txs}

Next ==
    \/ \E tx \in Txs : CheckTx(tx) \/ SetCallback(tx)
    \/ \E res \in Results : Respond(res)
    \/ ReapMaxTxs \/ ReapReturns
    \/ \E block \in Blocks : Update(block)

Spec == Init /\ [][Next]_mpVars

----------------------------------------------------------------------------
TypeOK ==
    /\ mp.cache \in Seq(Txs) /\ Len(mp.cache) <= CacheSize
    /\ mp.store \subseteq Names /\ mp.priority \subseteq Names
    /\ mp.heights \subseteq Names /\ DOMAIN mp.wtx \subseteq Names
    /\ mp.bytes \in Int /\ mp.height \in 0..MaxHeight
    /\ mp.cursor \in Names \cup {None} /\ mp.end \in Names \cup {None}
    /\ mp.notified \in BOOLEAN /\ mp.panic \in BOOLEAN
    /\ calling \subseteq Txs /\ popped \subseteq Names /\ committed \subseteq Txs

\* No interleaving of responses, proposals and blocks makes a callback panic:
\* the recheck cursor is gone when the response to a CheckTx arrives, it points
\* to the transaction answered, and nothing is removed twice.
NoPanic == ~mp.panic

\* The indexes hold the same transactions, each of them once, and sizeBytes is
\* the sum of their sizes.
IndexesAgree ==
    ~mp.panic =>
        /\ ToSet(mp.gossip) = mp.store /\ Len(mp.gossip) = Cardinality(mp.store)
        /\ mp.priority \cup popped = mp.store /\ mp.heights = mp.store
        /\ mp.bytes = BytesOf(mp.store)

\* The configured limits hold, with evictions too.
WithinLimits == Cardinality(mp.store) <= Size /\ mp.bytes <= MaxTxsBytes

\* No committed transaction is in the mempool: not one whose CheckTx was under
\* way when it was committed, nor one that is sent again.
CommittedLeft == ~mp.panic => \A n \in ToSet(mp.gossip) : n.tx \notin committed

\* Once the rechecks are done every transaction left was valid at this height.
AllRechecked ==
    mp.cursor = None => \A n \in DOMAIN mp.wtx : mp.wtx[n].checked = mp.height

\* With transactions to propose and no recheck under way, consensus has been
\* told at this height.
Notified == mp.store # {} /\ mp.cursor = None => mp.notified
============================================================================
