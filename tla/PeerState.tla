----------------------------- MODULE PeerState -----------------------------
(* What a node knows of one of its peers (internal/consensus/peer_state.go):   *)
(* the height, round and step the peer announced, which parts of the proposed  *)
(* block and which votes it has. A bit array is the set of its true indices,   *)
(* or None for a nil pointer. CatchupCommit and Precommits may be one array:   *)
(* the flag shared says that the two pointers are equal, so that setting a bit *)
(* of one sets it in the other. Every operator maps a PeerRoundState to the    *)
(* one that the method of the same name leaves behind, under ps.mtx.           *)
EXTENDS Integers, FiniteSets

CONSTANTS None

NewPeerState ==
  [height |-> 0, round |-> -1, step |-> 0, proposal |-> FALSE,
   header |-> None, parts |-> None, polRound |-> -1, pol |-> None,
   prevotes |-> None, precommits |-> None, lastRound |-> -1, last |-> None,
   catchupRound |-> -1, catchup |-> None, shared |-> FALSE]

\* p is a proposal: height h, round r, block b and POL round pol.
SetHasProposal(prs, p) ==
  IF prs.height # p.h \/ prs.round # p.r \/ prs.proposal THEN prs
  ELSE IF prs.parts # None THEN [prs EXCEPT !.proposal = TRUE]
  ELSE [prs EXCEPT !.proposal = TRUE, !.header = p.b, !.parts = {},
                   !.polRound = p.pol, !.pol = None]

InitProposalBlockParts(prs, b) ==
  IF prs.parts # None THEN prs ELSE [prs EXCEPT !.header = b, !.parts = {}]

SetHasProposalBlockPart(prs, h, r, i) ==
  IF prs.height # h \/ prs.round # r \/ prs.parts = None THEN prs
  ELSE [prs EXCEPT !.parts = @ \cup {i}]

\* The field that getVoteBitArray returns for the votes of type t.
getVoteBitArray(prs, h, r, t) ==
  CASE prs.height = h /\ prs.round = r ->
         IF t = "prevote" THEN "prevotes" ELSE "precommits"
    [] prs.height = h /\ prs.round # r /\ prs.catchupRound = r ->
         IF t = "prevote" THEN "none" ELSE "catchup"
    [] prs.height = h /\ prs.round # r /\ prs.catchupRound # r /\ prs.polRound = r ->
         IF t = "prevote" THEN "pol" ELSE "none"
    [] prs.height = h + 1 /\ prs.lastRound = r ->
         IF t = "prevote" THEN "none" ELSE "last"
    [] OTHER -> "none"

Bits(prs, h, r, t) ==
  LET f == getVoteBitArray(prs, h, r, t) IN IF f = "none" THEN None ELSE prs[f]

\* Writes the array behind a field, and so also the field that shares it.
SetBits(prs, f, bits) ==
  IF prs.shared /\ f \in {"precommits", "catchup"}
  THEN [prs EXCEPT !.precommits = bits, !.catchup = bits]
  ELSE [prs EXCEPT ![f] = bits]

setHasVote(prs, v) ==
  IF Bits(prs, v.h, v.r, v.t) = None THEN prs
  ELSE SetBits(prs, getVoteBitArray(prs, v.h, v.r, v.t),
               Bits(prs, v.h, v.r, v.t) \cup {v.i})

ensureVoteBitArrays(prs, h) ==
  LET Made(bits) == IF bits = None THEN {} ELSE bits IN
  CASE prs.height = h ->
         [prs EXCEPT !.prevotes = Made(@), !.precommits = Made(@),
                     !.catchup = Made(@), !.pol = Made(@)]
    [] prs.height = h + 1 -> [prs EXCEPT !.last = Made(@)]
    [] OTHER -> prs

ensureCatchupCommitRound(prs, h, r) ==
  IF prs.height # h \/ prs.catchupRound = r THEN prs
  ELSE IF r = prs.round
       THEN [prs EXCEPT !.catchupRound = r, !.catchup = prs.precommits,
                        !.shared = prs.precommits # None]
       ELSE [prs EXCEPT !.catchupRound = r, !.catchup = {}, !.shared = FALSE]

\* PickVoteToSend up to its choice: votes has height h, round r, type t, the
\* indices that voted, its size, and whether it is a commit. Returns the peer
\* state and the indices one of which is picked.
PickVoteToSend(prs, votes) ==
  LET prs1 == IF votes.commit THEN ensureCatchupCommitRound(prs, votes.h, votes.r)
              ELSE prs
      prs2 == ensureVoteBitArrays(prs1, votes.h)
      has  == Bits(prs2, votes.h, votes.r, votes.t)
  IN  IF votes.size = 0 THEN [prs |-> prs, picks |-> {}]
      ELSE [prs |-> prs2, picks |-> IF has = None THEN {} ELSE votes.voted \ has]

\* Mutant: the votes of the old round are kept as those of the new one.
ApplyNewRoundStepKeepVotes(prs, m) ==
  IF m.h < prs.height \/ (m.h = prs.height /\ m.r < prs.round) THEN prs
  ELSE [prs EXCEPT !.height = m.h, !.round = m.r, !.step = m.s,
                   !.lastRound = m.last]

\* The shift of Precommits to LastCommit comes after the Precommits are reset.
ApplyNewRoundStepMessage(prs, m) ==
  LET later  == \/ m.h > prs.height
                \/ m.h = prs.height /\ m.r > prs.round
                \/ m.h = prs.height /\ m.r = prs.round /\ m.s > prs.step
      moved  == [prs EXCEPT !.height = m.h, !.round = m.r, !.step = m.s]
      newRd  == IF prs.height = m.h /\ prs.round = m.r THEN moved
                ELSE [moved EXCEPT !.proposal = FALSE, !.header = None,
                        !.parts = None, !.polRound = -1, !.pol = None,
                        !.prevotes = None, !.precommits = None, !.shared = FALSE]
      caught == IF prs.height = m.h /\ prs.round # m.r /\ m.r = prs.catchupRound
                THEN [newRd EXCEPT !.precommits = prs.catchup,
                                   !.shared = prs.catchup # None]
                ELSE newRd
      shift  == prs.height + 1 = m.h /\ prs.round = m.last
  IN  IF ~later THEN prs
      ELSE IF prs.height = m.h THEN caught
      ELSE [caught EXCEPT !.lastRound = m.last,
                          !.last = IF shift THEN caught.precommits ELSE None,
                          !.catchupRound = -1, !.catchup = None]

ApplyNewValidBlockMessage(prs, m) ==
  IF prs.height # m.h \/ (prs.round # m.r /\ ~m.isCommit) THEN prs
  ELSE [prs EXCEPT !.header = m.b, !.parts = m.parts]

ApplyProposalPOLMessage(prs, m) ==
  IF prs.height # m.h \/ prs.polRound # m.pol THEN prs
  ELSE [prs EXCEPT !.pol = m.votes]

ApplyHasVoteMessage(prs, v) == IF prs.height # v.h THEN prs ELSE setHasVote(prs, v)

\* Mutant: what the peer does not have stays marked.
ApplyVoteSetBitsOr(prs, m, ours) ==
  LET bits == Bits(prs, m.h, m.r, m.t) IN
  IF bits = None \/ m.votes = None THEN prs
  ELSE SetBits(prs, getVoteBitArray(prs, m.h, m.r, m.t), bits \cup m.votes)

\* m.votes is None for the empty bit array that stands for a nil one on the
\* wire; Update copies no word of it. ours is None for a nil bit array.
ApplyVoteSetBitsMessage(prs, m, ours) ==
  LET f     == getVoteBitArray(prs, m.h, m.r, m.t)
      bits  == Bits(prs, m.h, m.r, m.t)
      theirs == IF m.votes = None THEN {} ELSE m.votes
  IN  IF bits = None \/ (ours = None /\ m.votes = None) THEN prs
      ELSE SetBits(prs, f, IF ours = None THEN theirs
                           ELSE (bits \ ours) \cup theirs)
=============================================================================
