---------------------------- MODULE PrivValidator ----------------------------
(***************************************************************************)
(* What the consensus state machine relies on its PrivValidator for: the   *)
(* signatures a validator hands out are totally ordered by height, round   *)
(* and step (HRS), and there is at most one for each HRS.  FilePV is shown *)
(* to implement this module.                                               *)
(***************************************************************************)
EXTENDS Integers

CONSTANTS Heights,   \* heights a request may name (int64 in the code)
          Rounds,    \* rounds a request may name (int32 in the code)
          Data,      \* what is signed: a block ID, the nil block ID, a proposal
          Times      \* the timestamps a request may carry

VARIABLE signed      \* every signature ever returned to a caller

stepNone      == 0
stepPropose   == 1
stepPrevote   == 2
stepPrecommit == 3

\* The canonical sign bytes of a vote or of a proposal: all the signed fields.
SignBytes == [height : Heights, round : Rounds,
              step : {stepPropose, stepPrevote, stepPrecommit},
              data : Data, time : Times]

\* a comes strictly before b in the order height, round, step.
HRSBefore(a, b) ==
  \/ a.height < b.height
  \/ a.height = b.height /\ a.round < b.round
  \/ a.height = b.height /\ a.round = b.round /\ a.step < b.step

SameHRS(a, b) == a.height = b.height /\ a.round = b.round /\ a.step = b.step

Init == signed = {}

\* A signature for a new HRS, later than every HRS signed so far.
Sign(m) == /\ \A s \in signed : HRSBefore(s, m)
           /\ signed' = signed \cup {m}

Next == signed' # signed /\ \E m \in SignBytes : Sign(m)

Spec == Init /\ [][Next]_signed
==============================================================================
