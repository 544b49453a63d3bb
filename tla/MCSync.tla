-------------------------------- MODULE MCSync --------------------------------
(***************************************************************************)
(* Small instances of block sync v0 and v2 and of the backfill after state *)
(* sync.  They do not share state, and one of them is started.             *)
(***************************************************************************)
EXTENDS BlockPool, Backfill

CONSTANTS n1, n2   \* peers: n1 serves the chain, n2 whatever it likes, when it likes

VARIABLES sc, pcState, toSc, toPc, requested, scRunning, panicked, switched
VARIABLE which   \* the part that is started

v2Vars == <<sc, pcState, toSc, toPc, requested, scRunning, panicked, switched>>

\* The peers of block sync v0 report the whole chain.
MCStatusHeights == [x \in {n1, n2} |-> {3}]

\* The list of peers of the backfill begins with the one that may answer badly.
MCPeerList == <<n2, n1>>

\* The validators change once while the backfill goes down.
MCValidatorsAt == [h \in 1 .. 4 |-> IF h >= 2 THEN "v2" ELSE "v1"]

V2 == INSTANCE BlockSyncV2 WITH
  ScPeers <- {n1, n2}, Trusted <- {n1}, Top <- 3, TargetPending <- 2, MaxQueue <- 2,
  StatusHeights <- [x \in {n1, n2} |-> IF x = n1 THEN {3} ELSE {2, 3}], Reorder <- TRUE
GroupInit ==
  /\ which \in {"v0", "v2", "backfill"}
  /\ Start(which = "v0")
  /\ V2!Start(which = "v2")
  /\ BackfillStart(which = "backfill")

GroupNext ==
  /\ UNCHANGED which
  /\ \/ which = "v0" /\ Next /\ UNCHANGED <<v2Vars, bfVars>>
     \/ which = "v2" /\ V2!Next /\ UNCHANGED <<poolVars, bfVars>>
     \/ which = "backfill" /\ BackfillNext /\ UNCHANGED <<poolVars, v2Vars>>

GroupSpec ==
  /\ GroupInit
  /\ [][GroupNext]_<<which, poolVars, v2Vars, bfVars>>
  /\ Fairness /\ V2!Fairness /\ BackfillFairness
-------------------------------------------------------------------------------
\* Block sync v2: only blocks of the chain are applied, in order, each once; a height is
\* pending or received if and only if a peer holds it, a block the scheduler holds as
\* received is with the processor, and the two agree on the height up to what is on its
\* way.
ScheduleInStep ==
  which = "v2" =>
    V2!TypeOK /\ V2!ChainProcessed /\ V2!ScheduleConsistent /\ V2!ReceivedNotLost /\ V2!HeightsInStep

\* Block sync v2: a finished scheduler leads to the switch to consensus.
FinishSwitches == V2!FinishSwitches
===============================================================================
