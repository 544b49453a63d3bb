------------------------------- MODULE Stores -------------------------------
(* The state store (internal/state/store.go) and the block store             *)
(* (internal/store/store.go): validators and parameters are kept by height,  *)
(* in full only where they change and at checkpoints; pruning removes old    *)
(* heights in batches, between which the node may crash; a node that was     *)
(* state synced starts in the middle and fills in headers below.  A          *)
(* validator set is the height since which it is in force and the number of  *)
(* times its priorities were incremented.                                    *)
EXTENDS Integers, FiniteSets, Sequences, FiniteSetsExt, Functions

CONSTANTS
    InitialHeight,            \* of the chain
    SyncHeights,              \* heights a node may be state synced at
    MaxHeight,                \* last block
    valSetCheckpointInterval,
    BatchSize,                \* deletions in a batch (1000 in the code)
    MaxStoreCrashes, None

VARIABLES
    vals,      \* validators by height: [lastHeightChanged, set or None]
    params,    \* consensus parameters by height, the same
    state,     \* the saved State
    blocks,    \* block store: metas, parts, commits (sets of heights), headers
    todo,      \* ranges still to be deleted, first one first
    retain,    \* height below which everything was pruned
    valsAt,    \* the validators of each height, in fact
    paramsAt,  \* the parameters of each height, in fact
    storeCrashes

stVars == <<vals, params, state, blocks, todo, retain, valsAt, paramsAt, storeCrashes>>

At(h, v) == [k \in {h} |-> v]
Put(f, h, v) == [k \in DOMAIN f \cup {h} |-> IF k = h THEN v ELSE f[k]]

----------------------------------------------------------------------------
(* The state store.                                                          *)

\* saveValidatorsInfo, in full if it changed here or at a checkpoint.
saveValidatorsInfo(db, h, lastChanged, set) ==
    Put(db, h, [lastHeightChanged |-> lastChanged,
                set |-> IF h = lastChanged \/ h % valSetCheckpointInterval = 0
                        THEN set ELSE None])

saveConsensusParamsInfo(db, h, changed, p) ==
    Put(db, h, [lastHeightChanged |-> changed, set |-> IF h = changed THEN p ELSE None])

lastStoredHeightFor(h, lastChanged) == Max({h - (h % valSetCheckpointInterval), lastChanged})

IncrementProposerPriority(set, times) == [set EXCEPT !.incremented = @ + times]

\* None if they cannot be found.
LoadValidators(db, h) ==
    LET last == lastStoredHeightFor(h, db[h].lastHeightChanged) IN
    IF h \notin DOMAIN db THEN None
    ELSE IF db[h].set # None THEN db[h].set
    ELSE IF last \notin DOMAIN db \/ db[last].set = None THEN None
    ELSE IncrementProposerPriority(db[last].set, h - last)

LoadConsensusParams(db, h) ==
    LET last == db[h].lastHeightChanged IN
    IF h \notin DOMAIN db THEN None
    ELSE IF db[h].set # None THEN db[h].set
    ELSE IF last \notin DOMAIN db THEN None ELSE db[last].set

Genesis == [set |-> InitialHeight, incremented |-> 0]

\* The genesis state, saved.
SaveGenesis ==
    LET next == IncrementProposerPriority(Genesis, 1)
        h    == InitialHeight IN
    /\ state = [height |-> 0, next |-> next, valsChanged |-> h, params |-> h, paramsChanged |-> h]
    /\ vals = saveValidatorsInfo(saveValidatorsInfo(<<>>, h, h, Genesis), h + 1, h, next)
    /\ params = saveConsensusParamsInfo(<<>>, h, h, h)
    /\ blocks = [metas |-> {}, parts |-> {}, commits |-> {}, headers |-> {}]
    /\ valsAt = Put(At(h, Genesis), h + 1, next)
    /\ paramsAt = At(h, h)

\* Bootstrap at height H, with the state that the state provider makes up.
Bootstrap(H) ==
    LET set(h) == [set |-> InitialHeight, incremented |-> h - InitialHeight] IN
    /\ state = [height |-> H, next |-> set(H + 2), valsChanged |-> H + 2,
                params |-> InitialHeight, paramsChanged |-> H + 1]
    /\ vals = [h \in H..H + 2 |-> [lastHeightChanged |-> h, set |-> set(h)]]
    /\ params = saveConsensusParamsInfo(<<>>, H + 1, H + 1, InitialHeight)
    /\ blocks = [metas |-> {}, parts |-> {}, commits |-> {}, headers |-> {}]
    /\ valsAt = [h \in InitialHeight..H + 2 |-> set(h)]
    /\ paramsAt = At(H + 1, InitialHeight)

Start(on) ==
    /\ SaveGenesis \/ (on /\ \E H \in SyncHeights : Bootstrap(H))
    /\ todo = <<>> /\ retain = 0
    /\ storeCrashes = IF on THEN 0 ELSE MaxStoreCrashes + 1
Init == Start(TRUE)

Alive == storeCrashes <= MaxStoreCrashes

\* updateState and Save.  The validators returned by a block are those of the
\* height after the next, its parameters are those of the next.
SaveState(h, valsChange, paramsChange) ==
    LET changed == IF valsChange THEN h + 2 ELSE state.valsChanged
        set     == IF valsChange THEN [state.next EXCEPT !.set = h + 2] ELSE state.next
        next    == IncrementProposerPriority(set, 1)
        pChange == IF paramsChange THEN h + 1 ELSE state.paramsChanged
        p       == IF paramsChange THEN h + 1 ELSE state.params
    IN  /\ state' = [height |-> h, next |-> next, valsChanged |-> changed,
                     params |-> p, paramsChanged |-> pChange]
        /\ vals' = saveValidatorsInfo(vals, h + 2, changed, next)
        /\ params' = saveConsensusParamsInfo(params, h + 1, pChange, p)
        /\ valsAt' = Put(valsAt, h + 2, next)
        /\ paramsAt' = Put(paramsAt, h + 1, p)

----------------------------------------------------------------------------
(* The block store.                                                          *)

Base   == IF blocks.metas = {} THEN 0 ELSE Min(blocks.metas)
Height == IF blocks.metas = {} THEN 0 ELSE Max(blocks.metas)

\* SaveBlock: parts, meta, hash, the commit of the block before, in one batch.
SaveBlock(h) ==
    blocks' = [blocks EXCEPT !.metas = @ \cup {h}, !.parts = @ \cup {h}, !.commits = @ \cup {h - 1}]

\* A block is stored, applied and its state saved.
ApplyBlock(valsChange, paramsChange) ==
    LET h == IF state.height = 0 THEN InitialHeight ELSE state.height + 1 IN
    /\ Alive /\ todo = <<>> /\ h <= MaxHeight
    /\ Height = 0 \/ h = Height + 1
    /\ SaveBlock(h) /\ SaveState(h, valsChange, paramsChange)
    /\ UNCHANGED <<todo, retain, storeCrashes>>

\* Backfill stores a header, its commit and its validators below what it has:
\* SaveSignedHeader and SaveValidatorSets.
SaveSignedHeader ==
    LET lowest == IF blocks.metas = {} THEN state.height + 1 ELSE Base
        h      == lowest - 1 IN
    /\ Alive /\ todo = <<>> /\ retain = 0 /\ blocks.parts = {}
    /\ state.height > InitialHeight /\ h >= InitialHeight
    /\ blocks' = [blocks EXCEPT !.metas = @ \cup {h}, !.commits = @ \cup {h}, !.headers = @ \cup {h}]
    /\ vals' = saveValidatorsInfo(vals, h, h, valsAt[h])
    /\ UNCHANGED <<params, state, todo, retain, valsAt, paramsAt, storeCrashes>>

----------------------------------------------------------------------------
(* Pruning.                                                                  *)

KeyRange(table, lo, hi) == [table |-> table, lo |-> lo, hi |-> hi]

\* BlockStore.PruneBlocks: metas first, as they say that a block exists.
BlockRanges(height) ==
    <<KeyRange("metas", 0, height), KeyRange("parts", 0, height), KeyRange("commits", 0, height)>>

\* Mutant: the parameters that the retained height refers to are pruned.
ParamsRangesAll(height) == <<KeyRange("params", 1, height)>>

\* pruneConsensusParams and pruneValidatorSets keep what the lowest retained
\* height refers to.  Neither prunes anything if that is missing.
ParamsRanges(height) ==
    LET last == params[height].lastHeightChanged IN
    IF height \notin DOMAIN params \/ LoadConsensusParams(params, height) = None THEN <<>>
    ELSE (IF params[height].set = None THEN <<KeyRange("params", last + 1, height)>> ELSE <<>>)
         \o <<KeyRange("params", 1, last)>>

ValsRanges(height) ==
    LET last == lastStoredHeightFor(height, vals[height].lastHeightChanged) IN
    IF height \notin DOMAIN vals \/ last \notin DOMAIN vals \/ vals[last].set = None THEN <<>>
    ELSE (IF last < height THEN <<KeyRange("vals", last + 1, height)>> ELSE <<>>)
         \o <<KeyRange("vals", 1, last)>>

StateRanges(height) ==
    IF ParamsRanges(height) = <<>> THEN <<>> ELSE ParamsRanges(height) \o ValsRanges(height)

\* pruneBlocks of the executor, for the height the application returns.
PruneBlocks(height) ==
    /\ Alive /\ todo = <<>>
    /\ height > Base /\ height <= Height
    /\ todo' = BlockRanges(height) \o StateRanges(height)
    /\ retain' = height
    /\ UNCHANGED <<vals, params, state, blocks, valsAt, paramsAt, storeCrashes>>

TableOf(table) ==
    CASE table = "vals" -> DOMAIN vals [] table = "params" -> DOMAIN params
      [] OTHER -> blocks[table]

\* One batch: the block store deletes upwards, the state store downwards.
PruneBatch ==
    /\ Alive /\ todo # <<>>
    /\ LET r    == Head(todo)
           keys == {h \in TableOf(r.table) : r.lo <= h /\ h < r.hi}
           rank(h) == IF r.table \in {"vals", "params"}
                      THEN Cardinality({k \in keys : k >= h})
                      ELSE Cardinality({k \in keys : k <= h})
           gone == {h \in keys : rank(h) <= BatchSize}
       IN  /\ todo' = IF gone = keys THEN Tail(todo) ELSE todo
           /\ vals' = IF r.table = "vals" THEN Restrict(vals, DOMAIN vals \ gone) ELSE vals
           /\ params' = IF r.table = "params" THEN Restrict(params, DOMAIN params \ gone) ELSE params
           /\ blocks' = IF r.table \in {"vals", "params"} THEN blocks
                        ELSE [blocks EXCEPT ![r.table] = @ \ gone]
    /\ UNCHANGED <<state, retain, valsAt, paramsAt, storeCrashes>>

\* The node crashes while it prunes, and restarts; nothing resumes the pruning.
Crash ==
    /\ storeCrashes < MaxStoreCrashes /\ todo # <<>>
    /\ todo' = <<>> /\ storeCrashes' = storeCrashes + 1
    /\ UNCHANGED <<vals, params, state, blocks, retain, valsAt, paramsAt>>

Next ==
    \/ \E v, p \in BOOLEAN : ApplyBlock(v, p)
    \/ SaveSignedHeader
    \/ \E h \in 1..MaxHeight : PruneBlocks(h)
    \/ PruneBatch
    \/ Crash

Spec == Init /\ [][Next]_stVars

----------------------------------------------------------------------------
TypeOK ==
    /\ DOMAIN vals \subseteq 1..MaxHeight + 2 /\ DOMAIN params \subseteq 1..MaxHeight + 1
    /\ state.height \in 0..MaxHeight /\ retain \in 0..MaxHeight
    /\ blocks.metas \subseteq 1..MaxHeight /\ blocks.parts \subseteq 1..MaxHeight
    /\ blocks.commits \subseteq 0..MaxHeight /\ blocks.headers \subseteq 1..MaxHeight
    /\ storeCrashes \in 0..MaxStoreCrashes + 1

\* For every block that is stored, and the next two heights, the validators can
\* be loaded and are those that were in force, with their priorities; while
\* states are pruned too, and after a crash there.
ValidatorsLoadable ==
    \A h \in DOMAIN valsAt :
        h >= (IF Base = 0 THEN state.height + 1 ELSE Base) => LoadValidators(vals, h) = valsAt[h]

\* The same for the parameters, from the first height the node has them for.
ParamsLoadable ==
    \A h \in DOMAIN paramsAt :
        h >= Base => LoadConsensusParams(params, h) = paramsAt[h]

\* The blocks stored are contiguous and whole: parts, and the commit of every
\* one but the last; SaveBlock after a restart never panics.
BlocksWhole ==
    /\ blocks.metas = IF Base = 0 THEN {} ELSE Base..Height
    /\ \A h \in blocks.metas \ blocks.headers : h \in blocks.parts
    /\ \A h \in blocks.metas : h < Height => h \in blocks.commits

\* When pruning has ended, and no crash cut it short, nothing is left of the
\* pruned blocks, and of the states at most the one a later height refers to.
PrunedGone ==
    todo = <<>> /\ storeCrashes = 0 =>
        /\ \A h \in blocks.parts \cup blocks.metas : h >= retain
        /\ state.height >= InitialHeight /\ retain \in DOMAIN params =>
               Cardinality({h \in DOMAIN vals : h < retain}) <= 1
=============================================================================
