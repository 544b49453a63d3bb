--------------------------------- MODULE Voter ---------------------------------
(***************************************************************************)
(* One correct validator: it learns votes, casts votes the rules allow and *)
(* moves to the next height.  One step may do several of these, as one     *)
(* handler of state.go does.                                               *)
(***************************************************************************)
EXTENDS VotingRules

VARIABLES
  height,
  seen,     \* the votes of this height it has received
  signed    \* the votes of this height it has cast

vars == <<height, seen, signed>>

Init == height = 1 /\ seen = {} /\ signed = {}

Vote ==
  /\ height' = height
  /\ seen \subseteq seen'
  /\ signed \subseteq signed'
  /\ \A m \in signed' \ signed :
       /\ Allowed({w \in signed' : Before(w, m)}, seen', m)
       /\ \A w \in signed' : w = m \/ Before(w, m) \/ Before(m, w)
  /\ \A m \in signed' \ signed, w \in signed : Before(w, m)

NewHeight ==
  /\ height' = height + 1
  /\ seen' = {}
  /\ signed' = {}

Next == Vote \/ NewHeight

Spec == Init /\ [][Next]_vars
===============================================================================
