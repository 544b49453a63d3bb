----------------------------- MODULE LightClient -----------------------------
(* The light client (light/client.go, verifier.go, detector.go and its        *)
(* store): it trusts a block at a configured height, follows the chain by      *)
(* asking its primary provider, forwards by skipping or one by one, backwards  *)
(* by hashes, and compares what it verified with its witnesses.                *)
(* Calls of the client come one at a time; every answer of a provider is a     *)
(* choice of that provider.                                                    *)
EXTENDS Integers, Sequences, FiniteSets, FiniteSetsExt, SequencesExt

CONSTANTS
    Providers,       \* the first one is the primary, the others are witnesses
    FaultyProviders, \* those that may send any block
    Chain,           \* the blocks of the chain by height
    ForkSets,        \* sets of blocks that are not on the chain
    SafeForks,       \* the sets signed by a third of the validators at most
    TrustHeight,     \* TrustOptions.Height
    TrustingPeriod, MaxClockDrift,
    PruningSize,
    MaxTime,
    MaxRequests,
    None

VARIABLES
    lc,         \* the client: primary, witnesses, store, latest, asks
    op,         \* the call it is in
    forks,      \* the blocks that faulty providers can send
    now,
    sent,       \* evidence reported
    requests

lightVars == <<lc, op, forks, now, sent, requests>>

NoBlock == [h |-> 0, t |-> 0, vals |-> {}, next |-> {}, signers |-> {}, id |-> None, last |-> None]
Conflict(b) == [msg |-> "conflict", block |-> b]
Msg(m) == [msg |-> m, block |-> NoBlock]
NoExam == [trace |-> <<>>, k |-> 0, target |-> NoBlock, source |-> None, prev |-> NoBlock,
           block |-> NoBlock, found |-> <<>>, witness |-> 0]
Idle == [pc |-> "idle", from |-> NoBlock, target |-> NoBlock, source |-> None,
         verified |-> NoBlock, cache |-> <<>>, depth |-> 1, trace |-> <<>>, exam |-> NoExam,
         todo |-> <<>>, reads |-> 0, matched |-> FALSE, really |-> FALSE, remove |-> {},
         at |-> 0]

NewClient(sequential) ==
    [primary |-> Head(Providers), witnesses |-> Tail(Providers), store |-> <<>>,
     latest |-> NoBlock, asks |-> TRUE, sequential |-> sequential]

Start(on) ==
    /\ \E s \in BOOLEAN : (on \/ s) /\ lc = NewClient(s)
    /\ op = [Idle EXCEPT !.pc = IF on THEN "new" ELSE "off"]
    /\ forks \in IF on THEN ForkSets ELSE {{}}
    /\ now = TrustHeight /\ sent = {} /\ requests = 0
Init == Start(TRUE)

----------------------------------------------------------------------------
(* verifier.go.                                                              *)

HeaderExpired(b) == b.t + TrustingPeriod <= op.at

\* More than two thirds of the block's validators signed it.
VerifyCommitLight(b) == 3 * Cardinality(b.signers \cap b.vals) > 2 * Cardinality(b.vals)

\* Mutant: a third is enough.
VerifyCommitLightTrustingThird(tr, b) ==
    3 * Cardinality(b.signers \cap tr.vals) >= Cardinality(tr.vals)

\* More than a third of the validators already trusted signed it.
VerifyCommitLightTrusting(tr, b) ==
    3 * Cardinality(b.signers \cap tr.vals) > Cardinality(tr.vals)

verifyNewHeaderAndVals(tr, b) == b.h > tr.h /\ b.t > tr.t /\ b.t < op.at + MaxClockDrift

VerifyAdjacent(tr, b) ==
    CASE HeaderExpired(b) -> "expired"
      [] ~HeaderExpired(b) /\ verifyNewHeaderAndVals(tr, b) /\ b.vals = tr.next
         /\ VerifyCommitLight(b) -> "ok"
      [] OTHER -> "invalid"

Verify(tr, b) ==
    CASE b.h = tr.h + 1 -> VerifyAdjacent(tr, b)
      [] b.h # tr.h + 1 /\ HeaderExpired(b) -> "expired"
      [] b.h # tr.h + 1 /\ ~HeaderExpired(b) /\ ~verifyNewHeaderAndVals(tr, b) -> "invalid"
      [] b.h # tr.h + 1 /\ ~HeaderExpired(b) /\ verifyNewHeaderAndVals(tr, b) ->
            IF ~VerifyCommitLightTrusting(tr, b) THEN "valset"
            ELSE IF VerifyCommitLight(b) THEN "ok" ELSE "invalid"

VerifyBackwards(b, tr) == b.t < tr.t /\ b.id = tr.last

\* The next height to try between one that is verified and one that failed.
schedule(verified, failed) == verified + ((failed - verified) * 9) \div 16

----------------------------------------------------------------------------
(* Providers: a block, or an error.                                          *)

Answer(b) == [err |-> "", block |-> b]
Error(e) == [err |-> e, block |-> NoBlock]
OnChain(b) == b.h \in DOMAIN Chain /\ Chain[b.h] = b

\* The blocks a provider can send: the chain so far, and forks if it is faulty.
Has(p) == {Chain[h] : h \in {x \in DOMAIN Chain : Chain[x].t <= now}}
          \cup (IF p \in FaultyProviders THEN forks ELSE {})

\* Without a timeout of its own (lc.asks) every request runs out of time.
getLightBlock(p, h) ==
    {Error("none")}
    \cup (IF lc.asks THEN {Answer(b) : b \in {x \in Has(p) : x.h = h}} ELSE {})
    \cup (IF p \in FaultyProviders THEN {Error("bad")} ELSE {})

\* The latest block of a provider that has none of the height asked for.
LatestBefore(p, h) ==
    IF p \in FaultyProviders THEN {b \in Has(p) : b.h < h}
    ELSE {b \in Has(p) : b.h < h /\ \A x \in Has(p) : x.h <= b.h}

Without(ws, idx) == LET keep == SetToSortSeq(DOMAIN ws \ idx, <)
                    IN  [i \in DOMAIN keep |-> ws[keep[i]]]

\* removeWitnesses refuses to remove them all.
removable(ws, idx) == Len(ws) > Cardinality(idx)

\* Witness i becomes the primary; those that answered badly before it go.  The
\* primary has changed even if no witness would be left and an error is returned.
promote(c, i, bad, remove) ==
    LET ws == IF remove THEN c.witnesses ELSE Append(c.witnesses, c.primary)
        idx == bad \cup {i}
    IN  [c EXCEPT !.primary = ws[i],
                  !.witnesses = IF removable(ws, idx) THEN Without(ws, idx) ELSE ws]

\* What findNewPrimary can come to: the client after it and an answer.
findNewPrimary(h, remove) ==
    LET ws == lc.witnesses
        Bad(i) == Error("bad") \in getLightBlock(ws[i], h)
    IN  {[c |-> lc, a |-> Error("none")]} \cup
        UNION {{[c |-> promote(lc, i, bad, remove),
                 a |-> IF removable(IF remove THEN ws ELSE Append(ws, None), bad \cup {i})
                       THEN a ELSE Error("none")]
                : a \in {x \in getLightBlock(ws[i], h) : x.err = ""},
                  bad \in SUBSET {j \in DOMAIN ws \ {i} : Bad(j)}}
               : i \in DOMAIN ws}

lightBlockFromPrimary(h) ==
    UNION {CASE a.err = "" -> {[c |-> lc, a |-> a]}
             [] a.err = "none" -> findNewPrimary(h, FALSE)
             [] a.err = "bad" -> findNewPrimary(h, TRUE)
           : a \in getLightBlock(lc.primary, h)}

----------------------------------------------------------------------------
(* The trusted store.                                                        *)

First(s) == Min(DOMAIN s)
LightBlockBefore(s, h) == s[Max({x \in DOMAIN s : x < h})]

Prune(s) == LET drop == Max({0, Cardinality(DOMAIN s) - PruningSize})
                kept == {h \in DOMAIN s : Cardinality({x \in DOMAIN s : x < h}) >= drop}
            IN  [h \in kept |-> s[h]]

updateTrustedLightBlock(c, b) ==
    [c EXCEPT !.store = Prune([h \in DOMAIN c.store \cup {b.h} |->
                                  IF h = b.h THEN b ELSE c.store[h]]),
              !.latest = IF b.h > c.latest.h THEN b ELSE c.latest]

----------------------------------------------------------------------------
(* A call.  Return gives up with an error; the client keeps what it has.     *)

Return(c) == lc' = c /\ op' = Idle /\ UNCHANGED <<forks, now, sent, requests>>
GoOn(c, o) == lc' = c /\ op' = o /\ UNCHANGED <<forks, now, sent, requests>>

Skipping(o, source, from, target) ==
    [o EXCEPT !.pc = "skip", !.source = source, !.verified = from, !.cache = <<target>>,
              !.depth = 1, !.trace = <<from>>]

\* Ask every witness for the block at the height of the target.
Detect(o, trace) ==
    [o EXCEPT !.pc = "detect", !.trace = trace, !.reads = 0, !.matched = FALSE,
              !.really = FALSE, !.remove = {}, !.exam = NoExam,
              !.todo = [i \in DOMAIN lc.witnesses |-> <<Msg("ask")>>]]

\* initializeWithTrustOptions up to the comparison with the witnesses.
Initialize ==
    /\ op.pc = "new"
    /\ \E r \in lightBlockFromPrimary(TrustHeight) :
          /\ r.a.err = "" /\ OnChain(r.a.block) /\ VerifyCommitLight(r.a.block)
          /\ r.c.witnesses # <<>>
          /\ GoOn(r.c, [op EXCEPT !.pc = "first", !.target = r.a.block,
                                  !.todo = [i \in DOMAIN r.c.witnesses |-> <<Msg("ask")>>]])

Forwards(c, from, b) ==
    IF c.sequential
    THEN [Idle EXCEPT !.pc = "seq", !.from = from, !.target = b, !.verified = from,
                      !.trace = <<from>>, !.at = now]
    ELSE Skipping([Idle EXCEPT !.from = from, !.target = b, !.at = now], c.primary, from, b)

\* verifyLightBlock chooses the direction and where to start from.
verifyLightBlock(c, b) ==
    CASE b.h >= c.latest.h -> Forwards(c, c.latest, b)
      [] b.h < First(c.store) ->
            [Idle EXCEPT !.pc = "back", !.target = b, !.verified = c.store[First(c.store)], !.at = now]
      [] OTHER -> Forwards(c, LightBlockBefore(c.store, b.h), b)

\* VerifyLightBlockAtHeight, VerifyHeader (which also compares the hash), and
\* Update for the latest height.
VerifyLightBlockAtHeight(h) ==
    /\ op.pc = "idle" /\ requests < MaxRequests /\ h \notin DOMAIN lc.store
    /\ requests' = requests + 1
    /\ \E r \in lightBlockFromPrimary(h) :
          /\ lc' = r.c
          /\ op' = IF r.a.err = "" THEN verifyLightBlock(r.c, r.a.block) ELSE Idle
    /\ UNCHANGED <<forks, now, sent>>

----------------------------------------------------------------------------
(* examineConflictingHeaderAgainstTrace: the trace of one provider against a  *)
(* block of another, first the witness's, then the primary's.                 *)

Examining(o, trace, target, source, i) ==
    [o EXCEPT !.pc = "exam",
              !.exam = [NoExam EXCEPT !.trace = trace, !.k = 1, !.target = target,
                                      !.source = source, !.witness = i]]

\* The first time the witness is at fault; the second time there was an attack.
ExamFails ==
    IF op.exam.witness # 0
    THEN GoOn(lc, [op EXCEPT !.pc = "detect", !.trace = op.exam.trace, !.exam = NoExam,
                             !.remove = @ \cup {op.exam.witness}])
    ELSE Return(lc)

\* newLightClientAttackEvidence, sent to the provider that is held to be right.
evidence(conflicted, trusted, common, to) ==
    [block |-> conflicted, to |-> to,
     common |-> IF conflicted.vals # trusted.vals \/ conflicted.next # trusted.next
                THEN common ELSE trusted]

ExamFinds(o, found, block) ==
    /\ sent' = sent \cup {evidence(block, Last(found), Head(found), op.exam.source)}
    /\ op' = IF op.exam.witness # 0 THEN Examining(o, found, block, lc.primary, 0) ELSE Idle
    /\ UNCHANGED <<lc, forks, now, requests>>

Examine ==
    LET e == op.exam
        t == e.trace[e.k]
    IN  /\ op.pc = "exam"
        /\ \/ (e.k > Len(e.trace) \/ e.target.h < e.trace[1].h) /\ ExamFails
           \/ /\ e.k <= Len(e.trace) /\ e.target.h >= e.trace[1].h /\ t.h > e.target.h
              /\ \/ t.t > e.target.t /\ ExamFails
                 \/ t.t <= e.target.t /\ e.prev.h = e.target.h /\ ExamFinds(op, e.found, t)
                 \/ t.t <= e.target.t /\ e.prev.h # e.target.h
                    /\ GoOn(lc, Skipping([op EXCEPT !.exam.block = e.target], e.source, e.prev, e.target))
           \/ /\ e.k <= Len(e.trace) /\ e.target.h >= e.trace[1].h /\ t.h <= e.target.h
              /\ \E a \in IF t.h = e.target.h THEN {Answer(e.target)} ELSE getLightBlock(e.source, t.h) :
                    \/ (a.err # "" \/ (e.k = 1 /\ a.block # t)) /\ ExamFails
                    \/ /\ a.err = "" /\ e.k = 1 /\ a.block = t
                       /\ GoOn(lc, [op EXCEPT !.exam.prev = a.block, !.exam.k = 2])
                    \/ /\ a.err = "" /\ e.k > 1
                       /\ GoOn(lc, Skipping([op EXCEPT !.exam.block = a.block],
                                            e.source, e.prev, a.block))

----------------------------------------------------------------------------
(* verifySkipping, a round of its loop at a time.                            *)

\* examine...: what to do with a block that the source could verify.
Examined(trace) ==
    LET e == op.exam
        t == e.trace[e.k]
    IN  IF e.block # t THEN ExamFinds(op, trace, t)
        ELSE GoOn(lc, [op EXCEPT !.pc = "exam", !.exam.k = e.k + 1, !.exam.prev = e.block,
                                 !.exam.found = trace])

\* verifySkippingAgainstPrimary after an error: try again with another primary if
\* that one has the same target.
TryAnotherPrimary(remove) ==
    \E r \in findNewPrimary(op.target.h, remove) :
        IF r.a.err = "" /\ r.a.block = op.target
        THEN GoOn(r.c, Skipping(op, r.c.primary, op.from, op.target))
        ELSE Return(r.c)

SkipFails(reason, height) ==
    CASE op.exam # NoExam -> ExamFails
      [] op.exam = NoExam /\ (reason = "expired" \/ (reason = "invalid" /\ height = op.target.h)) ->
            Return(lc)
      [] OTHER -> TryAnotherPrimary(reason # "none")

Verified ==
    LET b == op.cache[op.depth]
    IN  IF op.depth > 1
        THEN GoOn(lc, [op EXCEPT !.verified = b, !.cache = SubSeq(@, 1, op.depth - 1),
                                 !.depth = 1, !.trace = Append(@, b)])
        ELSE IF op.exam # NoExam THEN Examined(Append(op.trace, b))
        ELSE IF lc.witnesses = <<>> THEN Return(lc)
        ELSE GoOn(lc, Detect(op, Append(op.trace, b)))

verifySkipping ==
    LET b == op.cache[op.depth]
        v == Verify(op.verified, b)
    IN  /\ op.pc = "skip"
        /\ \/ v = "ok" /\ Verified
           \/ v \in {"invalid", "expired"} /\ SkipFails(v, b.h)
           \/ /\ v = "valset" /\ op.depth < Len(op.cache)
              /\ GoOn(lc, [op EXCEPT !.depth = @ + 1])
           \/ /\ v = "valset" /\ op.depth = Len(op.cache)
              /\ LET pivot == schedule(op.verified.h, b.h)
                 IN  \E a \in getLightBlock(op.source, pivot) :
                        IF a.err = ""
                        THEN GoOn(lc, [op EXCEPT !.depth = @ + 1, !.cache = Append(@, a.block)])
                        ELSE SkipFails(a.err, pivot)

----------------------------------------------------------------------------
(* verifySequential, and backwards, a height at a time.                      *)

verifySequential ==
    LET h == op.verified.h + 1
    IN  /\ op.pc = "seq"
        /\ \E r \in IF h = op.target.h THEN {[c |-> lc, a |-> Answer(op.target)]}
                     ELSE lightBlockFromPrimary(h) :
              LET v == VerifyAdjacent(op.verified, r.a.block)
              IN  \/ (r.a.err # "" \/ v = "expired" \/ (v = "invalid" /\ h = op.target.h)) /\ Return(r.c)
                  \/ /\ r.a.err = "" /\ v = "ok" /\ h < op.target.h
                     /\ GoOn(r.c, [op EXCEPT !.verified = r.a.block, !.trace = Append(@, r.a.block)])
                  \/ /\ r.a.err = "" /\ v = "ok" /\ h = op.target.h
                     /\ IF lc.witnesses = <<>> THEN Return(lc)
                        ELSE GoOn(lc, Detect(op, Append(op.trace, op.target)))
                  \/ /\ r.a.err = "" /\ v = "invalid" /\ h < op.target.h
                     /\ lc' = r.c /\ op' = [op EXCEPT !.pc = "replace"]
                     /\ UNCHANGED <<forks, now, sent, requests>>

\* An intermediate block was invalid: the height is tried again with another
\* primary that has the same target.
ReplaceInvalid ==
    /\ op.pc = "replace"
    /\ \E r \in findNewPrimary(op.target.h, TRUE) :
          IF r.a.err = "" /\ r.a.block = op.target
          THEN GoOn(r.c, [op EXCEPT !.pc = IF op.trace = <<>> THEN "back" ELSE "seq"])
          ELSE Return(r.c)

\* The chain of hashes down to the target's height; the target is saved then.
backwards ==
    /\ op.pc = "back"
    /\ \/ /\ op.verified.h = op.target.h
          /\ lc' = updateTrustedLightBlock(lc, op.target) /\ op' = Idle
          /\ UNCHANGED <<forks, now, sent, requests>>
       \/ /\ op.verified.h > op.target.h
          /\ \E r \in lightBlockFromPrimary(op.verified.h - 1) :
                CASE r.a.err # "" -> Return(r.c)
                  [] r.a.err = "" /\ VerifyBackwards(r.a.block, op.verified) ->
                        GoOn(r.c, [op EXCEPT !.verified = r.a.block])
                  [] OTHER -> GoOn(r.c, [op EXCEPT !.pc = "replace"])

----------------------------------------------------------------------------
(* detectDivergence and compareFirstHeaderWithWitnesses: one goroutine for    *)
(* each witness sends to a channel with a place for each; that many are read. *)

\* What compareNewHeaderWithWitness sends.  After a conflicting header it goes on
\* to send that the headers match.
compareNewHeaderWithWitness(w) ==
    LET b == op.target
    IN  {IF a.err = "bad" THEN <<Msg("bad")>>
         ELSE IF a.err = "none" THEN <<Msg("none")>>
         ELSE IF a.block = b THEN <<Msg("same")>>
         ELSE <<Conflict(a.block), Msg("nil")>> : a \in getLightBlock(w, b.h)}
        \cup {<<Conflict(x)>> : x \in {y \in LatestBefore(w, b.h) : y.t >= b.t}}

\* The next message of witness i, and those it still sends.
Reads(i) ==
    IF op.todo[i] = <<Msg("ask")>> THEN compareNewHeaderWithWitness(lc.witnesses[i])
    ELSE {op.todo[i]}

ReadComparison(i) ==
    /\ op.pc \in {"first", "detect"} /\ op.reads < Len(op.todo)
    /\ op.todo[i] # <<>>
    /\ \E ms \in Reads(i) :
          LET m == Head(ms)
              o == [op EXCEPT !.reads = @ + 1, !.todo[i] = Tail(ms)]
          IN  CASE m.msg \in {"same", "nil"} ->
                     GoOn(lc, [o EXCEPT !.matched = TRUE, !.really = @ \/ m.msg = "same"])
                [] m.msg = "none" -> GoOn(lc, o)
                [] m.msg = "bad" -> GoOn(lc, [o EXCEPT !.remove = @ \cup {i}])
                [] m.msg = "conflict" /\ op.pc = "detect" ->
                     GoOn(lc, Examining(o, op.trace, m.block, lc.witnesses[i], i))
                [] m.msg = "conflict" /\ op.pc = "first" ->
                     UNCHANGED <<forks, now, sent, requests>> /\ lc' = NewClient(lc.sequential)
                     /\ op' = [Idle EXCEPT !.pc = "new"]

\* All were read: remove the witnesses at fault, then trust the block or not.
Decide ==
    /\ op.pc \in {"first", "detect"} /\ op.reads = Len(op.todo)
    /\ LET removed == [lc EXCEPT !.witnesses = Without(@, op.remove)]
       IN  IF ~removable(lc.witnesses, op.remove)
           THEN IF op.pc = "first" THEN GoOn(NewClient(lc.sequential), [Idle EXCEPT !.pc = "new"])
                ELSE Return(lc)
           ELSE IF op.pc = "first" \/ op.matched
           THEN GoOn(updateTrustedLightBlock(removed, op.target), Idle)
           ELSE Return(removed)

----------------------------------------------------------------------------
\* NewClientFromTrustedStore: the providers are those of the configuration, and
\* no timeout for them is set.
Restart ==
    /\ op.pc \notin {"new", "first", "off"} /\ lc.asks
    /\ lc' = [NewClient(lc.sequential) EXCEPT !.store = lc.store, !.asks = FALSE,
                  !.latest = lc.store[Max(DOMAIN lc.store)]]
    /\ op' = Idle /\ UNCHANGED <<forks, now, sent, requests>>

Tick == /\ op.pc = "idle" /\ now < MaxTime /\ now' = now + 1
        /\ UNCHANGED <<lc, op, forks, sent, requests>>

Next ==
    \/ Initialize \/ Tick \/ Restart
    \/ \E h \in DOMAIN Chain : VerifyLightBlockAtHeight(h)
    \/ verifySkipping \/ verifySequential \/ ReplaceInvalid \/ backwards \/ Examine
    \/ \E i \in DOMAIN op.todo : ReadComparison(i)
    \/ Decide

Spec == Init /\ [][Next]_lightVars

----------------------------------------------------------------------------
TypeOK ==
    /\ lc.primary \in ToSet(Providers) /\ ToSet(lc.witnesses) \subseteq ToSet(Providers)
    /\ \A h \in DOMAIN lc.store : lc.store[h].h = h
    /\ op.target \in {NoBlock} \cup Range(Chain) \cup forks
    /\ op.reads \in 0..Len(op.todo) /\ requests \in 0..MaxRequests /\ now \in 0..MaxTime

\* Only blocks of the chain are trusted, as long as no block off the chain was
\* signed by more than a third of the validators of a block on it: neither
\* skipping, nor a pivot from a faulty primary, nor a primary replaced half way
\* lets another one in.
TrustedOnChain == forks \in SafeForks => \A h \in DOMAIN lc.store : OnChain(lc.store[h])

\* Evidence reported to a correct provider accuses a block that is not on the
\* chain, and the height it calls common is one of the chain.
EvidenceSound ==
    \A e \in sent : e.to \notin FaultyProviders => ~OnChain(e.block) /\ OnChain(e.common)

\* The latest block is in the store, whatever was pruned or verified backwards.
LatestStored ==
    lc.store # <<>> => /\ lc.latest.h = Max(DOMAIN lc.store)
                       /\ lc.store[lc.latest.h] = lc.latest

\* A block verified forwards had not expired when it was asked for.
ForwardFresh == op.pc = "detect" /\ lc'.store # lc.store => ~HeaderExpired(op.target)

\* A block is trusted only if a witness returned the same one ("If we had at
\* least one witness that returned the same header").
CrossCheck == op.pc = "detect" /\ lc'.store # lc.store => op.really
=============================================================================
