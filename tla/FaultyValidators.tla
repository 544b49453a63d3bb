--------------------------- MODULE FaultyValidators ---------------------------
(***************************************************************************)
(* Less than a third of the power is faulty.  Power is additive, stated by *)
(* what the proofs use of a sum.                                           *)
(***************************************************************************)
EXTENDS Integers, Electorate

CONSTANTS Faulty, Rounds

ASSUME VotingAssumption ==
  /\ Faulty \subseteq Validators
  /\ Rounds \subseteq Nat
  /\ Power \in [SUBSET Validators -> Nat]
  /\ \A S, T \in SUBSET Validators : S \subseteq T => Power[S] <= Power[T]
  /\ \A S, T \in SUBSET Validators :
       Power[S \cup T] + Power[S \cap T] = Power[S] + Power[T]
  /\ 3 * Power[Faulty] < Power[Validators]
===============================================================================
