-------------------------------- MODULE FilePV --------------------------------
(***************************************************************************)
(* privval/file.go: the file-backed private validator.  A request is       *)
(* checked against the last sign state (lss), signed, recorded in memory,  *)
(* saved to the state file, and only then returned.  The process may crash *)
(* between any two of these steps and is then reloaded from the file.      *)
(*                                                                         *)
(* A signature is a function of the bytes signed, so it is represented by  *)
(* those bytes.  Reset and LoadFilePVEmptyState, the operator commands     *)
(* that the code marks unsafe, are not actions of this module.             *)
(***************************************************************************)
EXTENDS Integers

CONSTANTS Heights, Rounds, Data, Times,
          Requests,      \* the sign bytes callers may ask to have signed
          NoBytes        \* SignBytes of a state that has signed nothing

VARIABLES lss,           \* FilePV.LastSignState, in memory
          disk,          \* the contents of the state file
          pc,            \* where signVote / signProposal is
          returned       \* every signature given back to a caller

vars == <<lss, disk, pc, returned>>

PV == INSTANCE PrivValidator WITH signed <- returned

ASSUME FilePVAssumption == /\ Heights \subseteq Nat \ {0}
                           /\ Rounds \subseteq Nat
                           /\ Requests \subseteq PV!SignBytes
                           /\ NoBytes \notin PV!SignBytes

LastSignStates == [height : Int, round : Int, step : 0..3,
                   signBytes : PV!SignBytes \cup {NoBytes}]

\* The last sign state is complete, in memory and on disk: sign bytes are
\* recorded together with their height, round and step.
TypeOK == /\ lss \in LastSignStates
          /\ disk \in LastSignStates
          /\ pc \in {"idle", "save", "return"}
          /\ returned \subseteq PV!SignBytes

\* NewFilePV: nothing signed; LoadOrGenFilePV saves it before it is used.
EmptyState == [height |-> 0, round |-> 0, step |-> PV!stepNone,
               signBytes |-> NoBytes]

Init == /\ lss = EmptyState
        /\ disk = EmptyState
        /\ pc = "idle"
        /\ returned = {}

\* Mutant: the round is compared without looking at the height.
NewHRS_HeightIgnored(m) == \/ lss.round < m.round
                           \/ lss.round = m.round /\ lss.step < m.step
                           \/ lss.height < m.height

\* CheckHRS returns no error and sameHRS = FALSE: m is a new HRS.
NewHRS(m) == PV!HRSBefore(lss, m)

\* CheckHRS returns sameHRS = TRUE: this HRS has been signed before.
Signed(m) == PV!SameHRS(lss, m) /\ lss.signBytes # NoBytes

\* bytes.Equal, or checkVotesOnlyDifferByTimestamp /
\* checkProposalsOnlyDifferByTimestamp: everything but the time is the same.
OnlyDifferByTimestamp(m) == lss.signBytes = [m EXCEPT !.time = lss.signBytes.time]

\* saveSigned up to the call of Save: the five assignments in memory.
saveSigned(m) == lss' = [height |-> m.height, round |-> m.round,
                         step |-> m.step, signBytes |-> m]

\* signVote and signProposal for an HRS that was not signed yet.  A request
\* that CheckHRS refuses, or whose data conflicts, changes nothing.
SignNew(m) == /\ pc = "idle"
              /\ NewHRS(m)
              /\ saveSigned(m)
              /\ pc' = "save"
              /\ UNCHANGED <<disk, returned>>

\* signVote and signProposal for an HRS already signed: the old signature,
\* and with it the old timestamp, is returned.
SignAgain(m) == /\ pc = "idle"
                /\ Signed(m)
                /\ OnlyDifferByTimestamp(m)
                /\ returned' = returned \cup {lss.signBytes}
                /\ UNCHANGED <<lss, disk, pc>>

\* Mutant: the state file is not written.
Save_Lost == /\ pc = "save"
             /\ pc' = "return"
             /\ UNCHANGED <<lss, disk, returned>>

\* FilePVLastSignState.Save: an atomic replacement of the state file.
Save == /\ pc = "save"
        /\ disk' = lss
        /\ pc' = "return"
        /\ UNCHANGED <<lss, returned>>

\* signVote / signProposal returns the new signature.
Return == /\ pc = "return"
          /\ returned' = returned \cup {lss.signBytes}
          /\ pc' = "idle"
          /\ UNCHANGED <<lss, disk>>

\* The process stops at any point (Save panics when it cannot write) and
\* LoadFilePV reads the state file again.
CrashAndLoad == /\ lss' = disk
                /\ pc' = "idle"
                /\ UNCHANGED <<disk, returned>>

Next == \/ \E m \in Requests : SignNew(m) \/ SignAgain(m)
        \/ Save
        \/ Return
        \/ CrashAndLoad

Spec == Init /\ [][Next]_vars
-------------------------------------------------------------------------------
\* signVote / signProposal: whatever the crashes and the retries, two
\* signatures returned for one height, round and step are the same signature,
\* timestamp included.
NoConflictingSignatures ==
  \A s, t \in returned : PV!SameHRS(s, t) => s = t

\* saveSigned precedes the return: a signature some caller holds is already
\* covered by the state file, so no reload can forget it.
ReturnedIsDurable ==
  \A s \in returned : \/ PV!HRSBefore(s, disk)
                      \/ PV!SameHRS(s, disk) /\ disk.signBytes = s

\* FilePV implements the PrivValidator the consensus code expects: signatures
\* are handed out in strictly increasing order of height, round and step.
ImplementsPrivValidator == PV!Spec
===============================================================================
