---------------------------- MODULE EvidencePool ----------------------------
(* The evidence pool of internal/evidence: evidence arrives from peers, from *)
(* conflicting votes that consensus reports, and in proposed blocks; it is   *)
(* pending until a block commits it or it expires.  AddEvidence runs in the  *)
(* reactor's goroutine, with no lock between its checks and its write, while *)
(* consensus applies blocks.  Blocks come from the network, which accepts no *)
(* evidence that is committed or expired.                                    *)
EXTENDS Integers, FiniteSets

CONSTANTS
    Evidence,         \* pieces of evidence
    HeightOf,         \* [Evidence -> height]
    LightEv,          \* those that are LightClientAttackEvidence
    MaxAgeNumBlocks, MaxAgeDuration,   \* the evidence parameters
    BlockTime,        \* seconds between two blocks
    MaxHeight,        \* last height of the chain
    MaxCrashes,       \* crashes of the node
    MaxSize           \* proposals are no longer validated at this count

ASSUME EvidenceAssumption ==
    /\ IsFiniteSet(Evidence) /\ HeightOf \in [Evidence -> Nat]
    /\ MaxAgeNumBlocks \in Nat /\ MaxAgeDuration \in Nat /\ BlockTime \in Nat
    /\ MaxHeight \in Nat \ {0} /\ MaxCrashes \in Nat

VARIABLES
    ep,        \* the pool
    adding,    \* evidence that AddEvidence has verified and not yet stored
    chain,     \* evidence the chain has committed
    known,     \* evidence that was pending at some time
    unmarked,  \* evidence added or replayed while its block was applied
    epCrashes  \* crashes so far

epVars == <<ep, adding, chain, known, unmarked, epCrashes>>

Time(h) == h * BlockTime

isExpired(h, e) ==
    /\ h - HeightOf[e] > MaxAgeNumBlocks
    /\ Time(h) - Time(HeightOf[e]) > MaxAgeDuration

EvidenceStart(on) ==
    /\ ep = [pending |-> {}, committed |-> {}, list |-> {}, size |-> 0, buffer |-> {},
             height |-> 1, pruningHeight |-> 1, pruningTime |-> Time(1)]
    /\ adding = {} /\ chain = {} /\ known = {} /\ unmarked = {}
    /\ epCrashes = IF on THEN 0 ELSE MaxCrashes + 1
EvidenceInit == EvidenceStart(TRUE)

Alive == epCrashes <= MaxCrashes

----------------------------------------------------------------------------
isPending(p, e)   == e \in p.pending
isCommitted(p, e) == e \in p.committed

\* What verify asks of genuine evidence: its block is there and it is not too
\* old.
verify(p, e) == HeightOf[e] <= p.height /\ ~isExpired(p.height, e)

\* addPendingEvidence, for each of es: counted even if it is pending.
addPending(p, es) == [p EXCEPT !.pending = @ \cup es, !.size = @ + Cardinality(es)]

\* Genuine evidence in a block; what is pending is not looked at again, unless
\* it is of a light client.
CheckEvidence(p, es) ==
    \A e \in es : (e \in LightEv \/ ~isPending(p, e)) => ~isCommitted(p, e) /\ verify(p, e)
Checked(p, es) == addPending(p, {e \in es : e \in LightEv \/ ~isPending(p, e)})

\* Conflicting votes of this height or a lower one become evidence, those of a
\* higher one are dropped.
processConsensusBuffer(p, h) ==
    LET new == {e \in p.buffer : HeightOf[e] <= h /\ ~isPending(p, e) /\ ~isCommitted(p, e)}
    IN  [addPending(p, new) EXCEPT !.list = @ \cup new, !.buffer = {}]

markEvidenceAsCommitted(p, es) ==
    [p EXCEPT !.committed = @ \cup es, !.pending = @ \ es,
              !.list = @ \ (es \cap p.pending), !.size = @ - Cardinality(es \cap p.pending)]

\* Mutants: what is old in blocks only is removed; what is removed from the
\* store stays in the gossip list.
removeExpiredByHeight(p) ==
    [p EXCEPT !.pending = {e \in @ : p.height - HeightOf[e] <= MaxAgeNumBlocks}]

\* Removes expired evidence, lowest height first, and notes when the first of
\* the others will have expired.
removeExpiredPendingEvidence(p) ==
    LET expired == {e \in p.pending : isExpired(p.height, e)}
        rest    == p.pending \ expired
        first   == CHOOSE e \in rest : \A k \in rest : HeightOf[e] <= HeightOf[k]
        q       == [p EXCEPT !.pending = rest, !.list = @ \ expired,
                             !.size = @ - Cardinality(expired)]
    IN  IF rest = {} THEN [q EXCEPT !.pruningHeight = p.height, !.pruningTime = Time(p.height)]
        ELSE [q EXCEPT !.pruningHeight = HeightOf[first] + MaxAgeNumBlocks + 1,
                       !.pruningTime = Time(HeightOf[first]) + MaxAgeDuration + 1]

\* Pool.Update, with the new height and the block's evidence.
Updated(p, h, es) ==
    LET marked == markEvidenceAsCommitted([processConsensusBuffer(p, h) EXCEPT !.height = h], es)
    IN  IF marked.size > 0 /\ h > marked.pruningHeight /\ Time(h) > marked.pruningTime
        THEN removeExpiredPendingEvidence(marked)
        ELSE marked

\* NewPool on the stored evidence, with the state of height h.
NewPool(p, h) ==
    LET q == removeExpiredPendingEvidence([p EXCEPT !.height = h, !.buffer = {}])
    IN  [q EXCEPT !.size = Cardinality(q.pending), !.list = q.pending]

----------------------------------------------------------------------------
\* AddEvidence up to verify.
AddEvidence(e) ==
    /\ Alive /\ e \notin adding
    /\ ~isPending(ep, e) /\ ~isCommitted(ep, e) /\ verify(ep, e)
    /\ adding' = adding \cup {e}
    /\ UNCHANGED <<ep, chain, known, unmarked, epCrashes>>

\* AddEvidence saves it and adds it to the list.
AddVerified(e) ==
    /\ Alive /\ e \in adding
    /\ ep' = [addPending(ep, {e}) EXCEPT !.list = @ \cup {e}]
    /\ adding' = adding \ {e} /\ known' = known \cup {e}
    /\ UNCHANGED <<chain, unmarked, epCrashes>>

\* Evidence whose ABCI part is wrong has another hash, under which it is neither
\* pending nor committed; verify stores it corrected and returns an error.
AddRectified(e) ==
    /\ Alive /\ verify(ep, e) /\ ~isPending(ep, e)
    /\ ep' = addPending(ep, {e})
    /\ known' = known \cup {e}
    /\ unmarked' = unmarked \cup ({e} \cap chain)
    /\ UNCHANGED <<adding, chain, epCrashes>>

\* Consensus reports votes of the height it is at or of the one before.
ReportConflictingVotes(e) ==
    /\ Alive /\ e \notin LightEv /\ HeightOf[e] \in {ep.height, ep.height + 1}
    /\ e \notin ep.buffer
    /\ ep' = [ep EXCEPT !.buffer = @ \cup {e}]
    /\ UNCHANGED <<adding, chain, known, unmarked, epCrashes>>

\* A proposal is validated: its evidence becomes pending.
ValidateBlock(es) ==
    /\ Alive /\ ep.size < MaxSize /\ es \cap chain = {} /\ CheckEvidence(ep, es)
    /\ ep' = Checked(ep, es) /\ ep' # ep
    /\ known' = known \cup es
    /\ UNCHANGED <<adding, chain, unmarked, epCrashes>>

\* The evidence a block of the network may hold at the next height.
Proposable(es) ==
    /\ ep.height < MaxHeight /\ es \cap chain = {}
    /\ \A e \in es : HeightOf[e] <= ep.height /\ ~isExpired(ep.height, e)

\* ApplyBlock: validate, execute, Update.
ApplyBlock(es) ==
    /\ Alive /\ Proposable(es)
    /\ ep' = Updated(Checked(ep, es), ep.height + 1, es)
    /\ chain' = chain \cup es
    /\ known' = known \cup es \cup ep'.pending
    /\ unmarked' = unmarked \cup (adding \cap es)
    /\ UNCHANGED <<adding, epCrashes>>

\* A crash between two blocks, and the restart.
Crash ==
    /\ epCrashes < MaxCrashes
    /\ ep' = NewPool(ep, ep.height)
    /\ adding' = {} /\ epCrashes' = epCrashes + 1
    /\ UNCHANGED <<chain, known, unmarked>>

\* A crash after the block is stored and before Update, or in Update between the
\* two writes of markEvidenceAsCommitted: the handshake applies the block with
\* EmptyEvidencePool.
CrashInBlock(es) ==
    /\ epCrashes < MaxCrashes /\ Proposable(es) /\ es # {}
    /\ \E marked \in {{}, es} :
          ep' = NewPool([Checked(ep, es) EXCEPT !.committed = @ \cup marked], ep.height + 1)
    /\ chain' = chain \cup es /\ adding' = {}
    /\ known' = known \cup es /\ unmarked' = unmarked \cup es
    /\ epCrashes' = epCrashes + 1

EvidenceNext ==
    \/ \E e \in Evidence : \/ AddEvidence(e) \/ AddVerified(e) \/ AddRectified(e)
                           \/ ReportConflictingVotes(e)
    \/ \E es \in SUBSET Evidence : ValidateBlock(es) \/ ApplyBlock(es) \/ CrashInBlock(es)
    \/ Crash

EvidenceSpec == EvidenceInit /\ [][EvidenceNext]_epVars

----------------------------------------------------------------------------
EvidenceTypeOK ==
    /\ ep \in [pending : SUBSET Evidence, committed : SUBSET Evidence, list : SUBSET Evidence,
               size : Int, buffer : SUBSET Evidence, height : 1..MaxHeight,
               pruningHeight : Nat, pruningTime : Nat]
    /\ adding \subseteq Evidence /\ chain \subseteq Evidence /\ known \subseteq Evidence
    /\ epCrashes \in 0..MaxCrashes + 1

\* PendingEvidence returns nothing when the counter is 0, so the counter may run
\* ahead of what is stored, but never behind it or below 0.
SizeCovers == ep.size >= Cardinality(ep.pending)

\* Evidence that was pending stays so, through crashes too, until the chain
\* commits it or it expires.
NotLost == \A e \in known : e \in ep.pending \cup chain \/ isExpired(ep.height, e)

\* Evidence on the chain is not pending, where it would be proposed again and
\* be accepted unseen by CheckEvidence, unless its block was applied while it was
\* being added, or by the handshake.
CommittedNotPending == ep.pending \cap chain \subseteq unmarked

\* Whatever is gossiped is pending or on the chain.
GossipsPending == ep.list \subseteq ep.pending \cup chain

\* What consensus and the reactor rely on: evidence is neither lost nor proposed
\* twice, the counter that guards PendingEvidence covers it, and it is gossiped
\* only while it is pending or just committed.
EvidenceKept == SizeCovers /\ NotLost /\ CommittedNotPending /\ GossipsPending
=============================================================================
