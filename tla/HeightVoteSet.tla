----------------------------- MODULE HeightVoteSet -----------------------------
(***************************************************************************)
(* internal/consensus/types/height_vote_set.go: the rounds of one height   *)
(* that votes are kept for, as State uses it.  enterNewRound(r) calls      *)
(* SetRound(r + 1); a vote of a round that is not tracked opens a catchup  *)
(* round on the account of the peer that sent it.  The votes themselves    *)
(* are VoteSet's; here a round has or has not a majority of prevotes.      *)
(***************************************************************************)
EXTENDS Integers, Sequences

CONSTANTS
  Peers,      \* the node itself is one, with the empty ID
  MaxRound    \* bound on the rounds explored

ASSUME MaxRoundAssumption == MaxRound \in Nat

VoteRounds == 0..MaxRound

VARIABLES
  csRound,            \* State's round, -1 before enterNewRound of the height
  round,              \* max tracked round
  roundVoteSets,      \* the rounds that have vote sets
  peerCatchupRounds,  \* per peer
  majorities,         \* the rounds with a majority of prevotes
  panicked

hvsVars == <<csRound, round, roundVoteSets, peerCatchupRounds, majorities, panicked>>

\* The tracked round is at most one ahead of the round State is in, and no round
\* further than that has vote sets without a catchup.
HVSTypeOK ==
  /\ csRound \in VoteRounds \cup {-1}
  /\ round \in 0..MaxRound + 1
  /\ roundVoteSets \subseteq -1..MaxRound + 1
  /\ peerCatchupRounds \in [Peers -> Seq(VoteRounds)]
  /\ majorities \subseteq VoteRounds
  /\ panicked \in BOOLEAN

\* Reset
HVSInit ==
  /\ csRound = -1
  /\ round = 0
  /\ roundVoteSets = {0}
  /\ peerCatchupRounds = [p \in Peers |-> <<>>]
  /\ majorities = {}
  /\ panicked = FALSE
-------------------------------------------------------------------------------
\* Mutant: only the new round itself is added.
SetRound_Gap(r) ==
  /\ panicked' = panicked
  /\ roundVoteSets' = roundVoteSets \cup {r}
  /\ round' = r

\* Rounds from round - 1 up are added, the ones that exist are skipped.
SetRound(r) ==
  /\ panicked' = (panicked \/ (round # 0 /\ r < round - 1))
  /\ roundVoteSets' = roundVoteSets \cup (round - 1)..r
  /\ round' = r

\* State.enterNewRound: a later round, or the first of the height.
EnterNewRound(r) ==
  /\ ~panicked
  /\ r > csRound
  /\ csRound' = r
  /\ SetRound(r + 1)
  /\ UNCHANGED <<peerCatchupRounds, majorities>>

catchup(p) == Len(peerCatchupRounds[p]) < 2

\* AddVote of a vote of round r from peer p; polka: it completes a majority.
AddVote(p, r, polka) ==
  /\ ~panicked
  /\ \/ r \in roundVoteSets /\ UNCHANGED <<roundVoteSets, peerCatchupRounds>>
     \/ /\ r \notin roundVoteSets
        /\ catchup(p)
        /\ roundVoteSets' = roundVoteSets \cup {r}
        /\ peerCatchupRounds' = [peerCatchupRounds EXCEPT ![p] = Append(@, r)]
  /\ majorities' = IF polka THEN majorities \cup {r} ELSE majorities
  /\ UNCHANGED <<csRound, round, panicked>>

HVSNext ==
  \/ \E r \in VoteRounds : EnterNewRound(r)
  \/ \E p \in Peers, r \in VoteRounds, polka \in BOOLEAN : AddVote(p, r, polka)

HVSSpec == HVSInit /\ [][HVSNext]_hvsVars

\* The rounds POLInfo finds a majority in; it returns the last.
POLInfo == {r \in majorities : 0 <= r /\ r <= round}
-------------------------------------------------------------------------------
\* SetRound is never called with a round it panics on.
NoRoundPanic == ~panicked

\* Every round up to the tracked one has vote sets: String and MarshalJSON read
\* them without a check, and the votes of the round entered and of the next one
\* are not charged to the peer that sends them.
RoundsTracked ==
  /\ 0..round \subseteq roundVoteSets
  /\ csRound >= 0 => {csRound, csRound + 1} \subseteq roundVoteSets

\* The rounds kept beyond the tracked one are bounded: each is a catchup round
\* of a peer, at most two of each, and no round is charged twice.
CatchupBounded ==
  /\ \A p \in Peers : Len(peerCatchupRounds[p]) <= 2
  /\ \A r \in roundVoteSets : r > round =>
       \E p \in Peers : \E i \in 1..Len(peerCatchupRounds[p]) : peerCatchupRounds[p][i] = r
  /\ \A p, q \in Peers :
       \A i \in 1..Len(peerCatchupRounds[p]), j \in 1..Len(peerCatchupRounds[q]) :
         peerCatchupRounds[p][i] = peerCatchupRounds[q][j] => p = q /\ i = j

\* enterPrecommit's check "this POLRound should be" its round cannot fail: a
\* majority in the round State is in is one that POLInfo sees.
POLSeen == csRound \in majorities => csRound \in POLInfo

\* What State relies on: no panic, its rounds are tracked, memory is bounded, and
\* POLInfo sees what enterPrecommit saw.
RoundsKept == NoRoundPanic /\ RoundsTracked /\ CatchupBounded /\ POLSeen
===============================================================================
