------------------------------ MODULE Electorate ------------------------------
(***************************************************************************)
(* The validators of a height, their power, and what they vote on.         *)
(***************************************************************************)
CONSTANTS
  Validators,
  Power,        \* the power of a set of validators
  Blocks,
  Nil           \* the zero block ID, of a vote for no block

ASSUME BlocksAssumption == Nil \notin Blocks

BlockIDs == Blocks \cup {Nil}
===============================================================================
