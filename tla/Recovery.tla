------------------------------- MODULE Recovery -------------------------------
(***************************************************************************)
(* How a node commits a block to its four durable stores (block store,     *)
(* consensus WAL, application, state store) and how it brings them back    *)
(* together after a crash: finalizeCommit (internal/consensus/state.go),   *)
(* ApplyBlock (internal/state/execution.go), then Handshaker and           *)
(* catchupReplay (internal/consensus/replay.go).  A crash may come between *)
(* any two writes, recovery included, and the application may come back    *)
(* at an earlier height.                                                   *)
(*                                                                         *)
(* The application is deterministic: its hash is the sequence of blocks it *)
(* has executed, and the retain heights it returns do not decrease.  Block *)
(* h carries the hash of the state before it.  The validators do not       *)
(* change.  Block validation other than height and AppHash is left out,    *)
(* and so are the mempool, the evidence pool and the events of a block.    *)
(***************************************************************************)
EXTENDS Integers, Sequences

CONSTANTS
  InitialHeight,  \* genesis: the height of the first block
  MsgsPerHeight,  \* consensus messages it takes to decide a height
  AppBehind,      \* how far below its retain height the application may restart
  MaxHeight,      \* bound: the last height committed
  MaxCrashes      \* bound: crashes explored

ASSUME RecoveryAssumption ==
  InitialHeight \in Nat \ {0} /\ AppBehind \in Nat /\ MaxHeight \in Nat

VARIABLES
  store,      \* BlockStore: [base, height], 0 when empty
  state,      \* stateStore: [height, appHash] of the State saved last
  responses,  \* stateStore: heights whose ABCIResponses are saved
  vals,       \* stateStore: heights whose ValidatorsInfo is saved
  app,        \* application: the blocks it has committed
  retain,     \* application: the retain height it returned last
  wal,        \* consensus WAL: end markers and messages
  synced,     \* how much of the WAL is known to be on disk
  pc,         \* where the node is
  height,     \* State.Height, or the block being replayed
  mode,       \* who runs ApplyBlock: "consensus", "handshake", "mock"
  applied,    \* messages of this height the state machine has handled
  nBlocks,    \* Handshaker: blocks replayed so far
  crashes

stateStore == <<state, responses, vals>>
WAL == <<wal, synced>>
recVars == <<store, stateStore, app, retain, WAL, pc, height, mode, applied, nBlocks, crashes>>

end(h) == [type |-> "end", height |-> h]
msg(h) == [type |-> "msg", height |-> h]

\* Height 0 means that no block was committed.
NextHeight(h) == IF h = 0 THEN InitialHeight ELSE h + 1

AppHeight(a) == IF a = <<>> THEN 0 ELSE a[Len(a)]

\* The application hash after block h, which block h + 1 carries.
HashAfter(h) == [i \in 1..(IF h = 0 THEN 0 ELSE h - InitialHeight + 1) |-> InitialHeight + i - 1]

BlockAppHash(h) == HashAfter(IF h = InitialHeight THEN 0 ELSE h - 1)

\* A new node, which is started (on) or stays off.
RecoveryStart(on) ==
  /\ store = [base |-> 0, height |-> 0]
  /\ state = [height |-> 0, appHash |-> <<>>]
  /\ responses = {}
  /\ vals = {}
  /\ app = <<>>
  /\ retain = 0
  /\ wal = <<end(0)>>
  /\ synced = 1
  /\ pc = IF on THEN "down" ELSE "off"
  /\ height = 0
  /\ mode = "consensus"
  /\ applied = 0
  /\ nBlocks = 0
  /\ crashes = 0

RecoveryInit == RecoveryStart(TRUE)
-------------------------------------------------------------------------------
\* receiveRoutine: a message is written to the WAL, then handled.  Its own
\* messages are synced (WriteSync), those of peers only written (Write).
ReceiveMsg(own) ==
  /\ pc = "running"
  /\ applied < MsgsPerHeight
  /\ height <= MaxHeight
  /\ wal' = Append(wal, msg(height))
  /\ synced' = IF own THEN Len(wal') ELSE synced
  /\ applied' = applied + 1
  /\ UNCHANGED <<store, stateStore, app, retain, pc, height, mode, crashes, nBlocks>>

\* finalizeCommit, once the messages of the height decide a block: SaveBlock,
\* which refuses a block that is not the next one.
SaveBlock ==
  /\ pc = "running"
  /\ applied = MsgsPerHeight
  /\ height <= MaxHeight
  /\ IF store.height >= height
     THEN store' = store /\ pc' = "endHeight"
     ELSE IF store.base > 0 /\ height # store.height + 1
     THEN store' = store /\ pc' = "panicked"
     ELSE /\ store' = [base |-> IF store.base = 0 THEN height ELSE store.base, height |-> height]
          /\ pc' = "endHeight"
  /\ mode' = "consensus"
  /\ UNCHANGED <<stateStore, app, retain, WAL, height, applied, crashes, nBlocks>>

\* finalizeCommit: WriteSync(EndHeightMessage), then ApplyBlock.
WriteEndHeight ==
  /\ pc = "endHeight"
  /\ wal' = Append(wal, end(height))
  /\ synced' = Len(wal')
  /\ pc' = "exec"
  /\ UNCHANGED <<store, stateStore, app, retain, height, mode, applied, crashes, nBlocks>>
-------------------------------------------------------------------------------
\* getBeginBlockValidatorInfo: LoadValidators of the height before.
ValidatorsKnown == height > InitialHeight => height - 1 \in vals

\* ValidateBlock: the block is the next one and carries the state's AppHash.
ValidBlock == height = NextHeight(state.height) /\ BlockAppHash(height) = state.appHash

\* Mutant: the responses are not saved before the application commits.
ExecBlock_NoResponses ==
  /\ pc = "exec"
  /\ pc' = IF ~ValidBlock THEN "failed" ELSE IF ValidatorsKnown THEN "commit" ELSE "panicked"
  /\ UNCHANGED <<store, stateStore, app, retain, WAL, height, mode, applied, crashes, nBlocks>>

\* ApplyBlock: validate, execute on the application, SaveABCIResponses.
ExecBlock ==
  /\ pc = "exec"
  /\ pc' = IF ~ValidBlock THEN "failed" ELSE IF ValidatorsKnown THEN "commit" ELSE "panicked"
  /\ responses' = IF pc' = "commit" THEN responses \cup {height} ELSE responses
  /\ UNCHANGED <<store, state, vals, app, retain, WAL, height, mode, applied, crashes, nBlocks>>

\* Mutant: the last block is always replayed on the application itself.
CommitApp_NeverMock(r) ==
  /\ pc = "commit"
  /\ r \in retain..height
  /\ app' = Append(app, height)
  /\ retain' = r
  /\ pc' = "save"
  /\ UNCHANGED <<store, stateStore, WAL, height, mode, applied, crashes, nBlocks>>

\* ApplyBlock: Commit.  The mock application only returns the hash it was
\* given; the real one commits the block and says which heights it may need.
CommitApp(r) ==
  /\ pc = "commit"
  /\ IF mode = "mock"
     THEN r = retain /\ app' = app
     ELSE r \in retain..height /\ app' = Append(app, height)
  /\ retain' = r
  /\ pc' = "save"
  /\ UNCHANGED <<store, stateStore, WAL, height, mode, applied, crashes, nBlocks>>

\* ApplyBlock: Save of the new state, with the hash that Commit returned and
\* the validators two heights on.
SaveState ==
  /\ pc = "save"
  /\ state' = [height |-> height, appHash |-> app]
  /\ vals' = vals \cup {height + 2}
  /\ pc' = IF mode # "mock" /\ retain > store.base THEN "pruneBlocks" ELSE "applied"
  /\ UNCHANGED <<store, responses, app, retain, WAL, height, mode, applied, crashes, nBlocks>>

\* pruneBlocks: the block store first, then the state store.
PruneBlocks ==
  /\ pc = "pruneBlocks"
  /\ store' = [store EXCEPT !.base = retain]
  /\ pc' = "pruneStates"
  /\ UNCHANGED <<stateStore, app, retain, WAL, height, mode, applied, crashes, nBlocks>>

\* The validators of the height they changed last, the first, are kept: the
\* entries at and above the retain height point to them.
PruneStates ==
  /\ pc = "pruneStates"
  /\ responses' = {h \in responses : h >= retain}
  /\ vals' = {h \in vals : h >= retain \/ h = InitialHeight}
  /\ pc' = "applied"
  /\ UNCHANGED <<store, state, app, retain, WAL, height, mode, applied, crashes, nBlocks>>

\* ApplyBlock returns: to finalizeCommit, which goes on to the next height
\* (updateToState), or to the handshake, which is then done.
Applied ==
  /\ pc = "applied"
  /\ IF mode = "consensus"
     THEN pc' = "running" /\ height' = NextHeight(state.height) /\ applied' = 0
     ELSE pc' = "catchup" /\ UNCHANGED <<height, applied>>
  /\ UNCHANGED <<store, stateStore, app, retain, WAL, mode, crashes, nBlocks>>
-------------------------------------------------------------------------------
\* assertAppHashEqualsOneFromState
Synced == IF app = state.appHash THEN "catchup" ELSE "panicked"

\* ReplayBlocks when the store is where the state is or one ahead: what to
\* replay, by where the application is.
ReplayFrom(a) ==
  CASE a < state.height ->
         [pc |-> "replay", height |-> NextHeight(a), mode |-> "handshake"]
    [] a = state.height /\ store.height = state.height ->
         [pc |-> Synced, height |-> 0, mode |-> "handshake"]
    [] a = state.height /\ store.height > state.height ->
         [pc |-> "exec", height |-> store.height, mode |-> "handshake"]
    [] a > state.height ->
         [pc |-> IF a \in responses THEN "exec" ELSE "failed", height |-> store.height, mode |-> "mock"]

AppTooLow(a) == IF a = 0 THEN InitialHeight < store.base ELSE a < store.base - 1

\* Handshake: InitChain of an empty application, which saves the first state,
\* and ReplayBlocks up to the first block to be replayed.
Handshake ==
  /\ pc = "down"
  /\ LET a == AppHeight(app)
         Stop(p) == [pc |-> p, height |-> 0, mode |-> "handshake"]
         to == IF store.height = 0 THEN Stop(Synced)
               ELSE IF AppTooLow(a) \/ store.height < a THEN Stop("failed")
               ELSE IF store.height \notin state.height..state.height + 1 THEN Stop("panicked")
               ELSE ReplayFrom(a)
     IN  /\ pc' = to.pc /\ height' = to.height /\ mode' = to.mode
         /\ vals' = IF a = 0 /\ state.height = 0
                    THEN vals \cup {InitialHeight, InitialHeight + 1} ELSE vals
  /\ nBlocks' = 0
  /\ UNCHANGED <<store, state, responses, app, retain, WAL, applied, crashes>>

\* Mutant: the last block in the state is left out of the replay.
finalBlock_OffByOne == store.height - 1

\* replayBlocks: the block that is not in the state yet is left to replayBlock.
finalBlock == IF store.height > state.height THEN store.height - 1 ELSE store.height

\* replayBlocks: ExecCommitBlock of the next block, whose AppHash must be the
\* one the application returned for the block before; after the last, the block
\* that is not in the state yet goes through ApplyBlock.
ReplayBlock ==
  /\ pc = "replay"
  /\ IF height > finalBlock
     THEN /\ pc' = IF store.height > state.height THEN "exec" ELSE Synced
          /\ height' = store.height
          /\ UNCHANGED <<app, nBlocks>>
     ELSE IF ~ValidatorsKnown \/ (nBlocks > 0 /\ app # BlockAppHash(height))
     THEN pc' = "panicked" /\ UNCHANGED <<app, height, nBlocks>>
     ELSE /\ app' = Append(app, height)
          /\ height' = height + 1
          /\ nBlocks' = nBlocks + 1
          /\ pc' = pc
  /\ UNCHANGED <<store, stateStore, retain, WAL, mode, applied, crashes>>

\* SearchForEndHeight
Ends(h) == {i \in 1..Len(wal) : wal[i] = end(h)}

MsgsAfter(i) == Len(SelectSeq(SubSeq(wal, i + 1, Len(wal)), LAMBDA m : m = msg(height')))

\* NewState on the recovered state, then OnStart: catchupReplay handles the
\* messages after the end of the last height, and does nothing when it finds
\* the end of this height or does not find the end of the last.
CatchupReplay ==
  /\ pc = "catchup"
  /\ height' = NextHeight(state.height)
  /\ pc' = IF state.height \in {0, store.height} THEN "running" ELSE "panicked"
  /\ LET last == Ends(IF height' = InitialHeight THEN 0 ELSE height' - 1)
     IN  applied' = IF Ends(height') # {} \/ last = {} THEN 0
                    ELSE MsgsAfter(CHOOSE i \in last : \A j \in last : i <= j)
  /\ UNCHANGED <<store, stateStore, app, retain, WAL, mode, crashes, nBlocks>>

\* The process stops; what was not synced may be lost, and an application that
\* does not save every block comes back earlier, never below what it retains.
Crash ==
  /\ pc \notin {"off", "down", "panicked", "failed"}
  /\ crashes < MaxCrashes
  /\ crashes' = crashes + 1
  /\ \E n \in synced..Len(wal) : wal' = SubSeq(wal, 1, n) /\ synced' = n
  /\ \E n \in 0..Len(app) :
       /\ app' = SubSeq(app, 1, n)
       /\ n = Len(app) \/ AppHeight(app') >= retain - AppBehind
  /\ pc' = "down"
  /\ applied' = 0
  /\ UNCHANGED <<store, stateStore, retain, height, mode, nBlocks>>

RecoveryStep ==
  \/ \E own \in BOOLEAN : ReceiveMsg(own)
  \/ SaveBlock
  \/ WriteEndHeight
  \/ ExecBlock
  \/ \E r \in 0..MaxHeight : CommitApp(r)
  \/ SaveState
  \/ PruneBlocks
  \/ PruneStates
  \/ Applied
  \/ Handshake
  \/ ReplayBlock
  \/ CatchupReplay

RecoveryNext == RecoveryStep \/ Crash

\* Each step is taken by a goroutine that runs until it is done.
RecoveryFairness == WF_recVars(RecoveryStep)

RecoverySpec == RecoveryInit /\ [][RecoveryNext]_recVars /\ RecoveryFairness
-------------------------------------------------------------------------------
\* The node can always be started again: no store is left where the handshake
\* panics ("under tendermint's control") or gives up.
Restartable == pc \notin {"panicked", "failed"}

\* The application executes every block exactly once and in order, counting
\* what it lost as not executed, so its hash is the one the next block carries.
ExactlyOnce == app = HashAfter(AppHeight(app))

\* Consensus runs only when block store, state and application are at the same
\* height and agree on the hash.
RunsInSync ==
  pc = "running" => /\ height = NextHeight(state.height)
                    /\ store.height = state.height /\ AppHeight(app) = state.height
                    /\ state.appHash = app

\* EndHeightMessage implies that the block store has saved the block
\* (finalizeCommit): WAL replay never skips a height whose block is not stored.
EndImpliesStored == \A i \in 1..Len(wal) : wal[i].type = "end" => wal[i].height <= store.height

\* The stores agree on what was executed, when consensus runs and in between.
StoresAgree == ExactlyOnce /\ RunsInSync /\ EndImpliesStored

\* After every crash the node gets back to running consensus and commits every
\* height.
Recovers == (pc = "down") ~> (pc = "running" /\ state.height = MaxHeight)

\* "store should be at most one ahead of the state (this is under tendermint's
\* control)" (ReplayBlocks): what a crash leaves behind.
StoreOneAhead == pc = "down" => store.height <= state.height + 1

\* The application "can be 1 behind" the truncated store "since we replay the
\* next" (ReplayBlocks): the replay finds the validators it loads.
ReplayFindsValidators == pc = "replay" /\ height <= finalBlock => ValidatorsKnown

\* "the WAL ensures we can always recover deterministically to the latest state
\* of the consensus" (docs/nodes/running-in-production.md): a node that runs has
\* handled every message of its height that is in its WAL.
WALReplayed ==
  pc = "running" =>
    applied = Len(SelectSeq(wal, LAMBDA m : m = msg(height)))
===============================================================================
