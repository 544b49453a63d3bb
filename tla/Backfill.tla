------------------------------- MODULE Backfill -------------------------------
(***************************************************************************)
(* Backfilling light blocks after a state sync: the block queue            *)
(* (block_queue.go), the dispatcher of requests and the list of peers      *)
(* (dispatcher.go), and the workers and the verifier of backfill()         *)
(* (reactor.go).                                                           *)
(*                                                                         *)
(* Blocks are fetched by several workers, from StartHeight downwards, and  *)
(* verified by one routine in that order.  The queue, the dispatcher and   *)
(* the list of peers have a mutex each, an action is one critical section  *)
(* (or some that nothing can come between).  A block is "good", or is      *)
(* another one that passes ValidateBasic, with a time at its sender's      *)
(* choice: "young" or "old", where old is before stopTime.                 *)
(***************************************************************************)
EXTENDS Integers, Sequences

CONSTANTS Workers,        \* the goroutines that fetch
          Nodes,          \* the peers at the start
          PeerList,       \* and their order in the list
          Reliable,       \* those that stay and only send blocks of the chain
          StartHeight, StopHeight, InitialHeight,
          OldHeight,      \* blocks of the chain up to here have a time before stopTime
          ValidatorsAt,   \* the validators of each height
          MaxRetries,     \* maxLightBlockRequestRetries
          Answers,        \* what the others answer, of {"good", "young", "old", "nil"}
          MayCancel,      \* whether the context of the sync may be cancelled
          Nil

\* Heights are positive, a retry is allowed, and a nil pointer is neither a height, a
\* block nor a set of validators.
ASSUME BackfillAssumption ==
  /\ InitialHeight \in Nat \ {0} /\ StartHeight \in Nat /\ InitialHeight <= StartHeight
  /\ StopHeight \in Nat /\ OldHeight \in Nat
  /\ MaxRetries \in Nat \ {0}
  /\ PeerList \in Seq(Nodes)
  /\ Nil \notin InitialHeight .. StartHeight
  /\ Nil \notin [height : InitialHeight .. StartHeight, block : {"good"} \cup Answers, peer : Nodes]
  /\ \A h \in InitialHeight .. StartHeight : ValidatorsAt[h] # Nil

VARIABLES bf,         \* queue, workers, verifier and peer list
          calls,      \* dispatcher: peer -> the buffered answer
          lbReqs,     \* light block requests not answered
          responding, \* Respond is blocked on a full channel, with the mutex
          up,         \* peers connected
          valsSaved,  \* stateStore: height -> validators
          bfResult    \* what backfill returned

bfVars == <<bf, calls, lbReqs, responding, up, valsSaved, bfResult>>
BfHeights == InitialHeight .. StartHeight
Old(block, h) == block = "old" \/ (block = "good" /\ h <= OldHeight)

Worker(st, h, peer) == [st |-> st, height |-> h, peer |-> peer]
IdleWorker == Worker("idle", Nil, Nil)

\* The backfill, started or not.
BackfillStart(on) ==
  /\ bf = [fetchHeight |-> StartHeight, verifyHeight |-> StartHeight, terminal |-> Nil,
           failed |-> {}, retries |-> 0, pending |-> <<>>, waiters |-> <<>>, closed |-> 0,
           workers |-> [w \in Workers |-> IdleWorker],
           peers |-> PeerList, waiting |-> <<>>,
           verifying |-> Nil,
           lastValidatorSet |-> Nil, lastChangeHeight |-> StartHeight, headers |-> {}]
  /\ calls = <<>>
  /\ lbReqs = {}
  /\ responding = Nil
  /\ up = Nodes
  /\ valsSaved = [h \in BfHeights |-> Nil]
  /\ bfResult = IF on THEN "running" ELSE "cancelled"

BackfillInit == BackfillStart(TRUE)

\* Closing doneCh a second time is a panic, which ends the node.
Running == bfResult = "running" /\ bf.closed < 2
\* Once the queue is closed what the workers do has no effect on it.
Working == Running /\ bf.closed = 0

-----------------------------------------------------------------------------
(* The block queue, as operators on bf. *)

\* Mutant: a block at the terminal height is not retried either.
retryAboveTerminal(s, h) ==
  IF s.closed > 0 \/ (s.terminal # Nil /\ h <= s.terminal) THEN s
  ELSE IF s.retries + 1 >= MaxRetries THEN [s EXCEPT !.retries = @ + 1, !.closed = @ + 1]
  ELSE IF s.waiters # <<>>
  THEN [s EXCEPT !.retries = @ + 1, !.waiters = Tail(@),
                 !.workers[Head(s.waiters)] = Worker("pop", h, Nil)]
  ELSE [s EXCEPT !.retries = @ + 1, !.failed = @ \cup {h}]

retry(s, h) ==
  IF s.closed > 0 \/ (s.terminal # Nil /\ h < s.terminal) THEN s
  ELSE IF s.retries + 1 >= MaxRetries THEN [s EXCEPT !.retries = @ + 1, !.closed = @ + 1]
  ELSE IF s.waiters # <<>>
  THEN [s EXCEPT !.retries = @ + 1, !.waiters = Tail(@),
                 !.workers[Head(s.waiters)] = Worker("pop", h, Nil)]
  ELSE [s EXCEPT !.retries = @ + 1, !.failed = @ \cup {h}]

\* A block waits for the verifier; one that the verifier waits for is taken from
\* there at once.
add(s, r) ==
  IF s.closed > 0 \/ (s.terminal # Nil /\ r.height < s.terminal) THEN s
  ELSE [s EXCEPT !.pending = [h \in DOMAIN @ \cup {r.height} |-> IF h = r.height THEN r ELSE @[h]],
                 !.terminal = IF \/ r.height <= StopHeight /\ Old(r.block, r.height)
                                 \/ r.height = InitialHeight
                              THEN r.height ELSE @]

\* Mutant: the block after the terminal one is verified too.
successBelow(s) ==
  [s EXCEPT !.closed = IF s.terminal # Nil /\ s.verifyHeight < s.terminal THEN @ + 1 ELSE @,
            !.verifyHeight = @ - 1]

success(s) ==
  [s EXCEPT !.closed = IF s.verifyHeight = s.terminal THEN @ + 1 ELSE @,
            !.verifyHeight = @ - 1]

-----------------------------------------------------------------------------
(* The list of peers. *)

appendPeer(s, p) ==
  IF s.waiting # <<>>
  THEN [s EXCEPT !.waiting = Tail(@), !.workers[Head(s.waiting)].st = "ready",
                 !.workers[Head(s.waiting)].peer = p]
  ELSE [s EXCEPT !.peers = Append(@, p)]

\* A peer is in the list at most once.
removePeer(s, p) ==
  IF \E i \in 1 .. Len(s.peers) : s.peers[i] = p
  THEN LET k == CHOOSE i \in 1 .. Len(s.peers) : s.peers[i] = p IN
       [s EXCEPT !.peers = SubSeq(@, 1, k - 1) \o SubSeq(@, k + 1, Len(@))]
  ELSE s

\* processPeerUpdate of a peer that goes down.  One that a worker holds comes back.
processPeerUpdate(p) ==
  /\ Working
  /\ p \in up \ Reliable
  /\ up' = up \ {p}
  /\ bf' = removePeer(bf, p)
  /\ lbReqs' = {r \in lbReqs : r.peer # p}
  /\ UNCHANGED <<calls, responding, valsSaved, bfResult>>

-----------------------------------------------------------------------------
(* The workers. *)

\* failed is a heap with the smallest height on top.
Smallest(S) == CHOOSE h \in S : \A k \in S : h <= k

\* nextHeight
NextHeight(w) ==
  /\ Working
  /\ bf.workers[w].st = "idle"
  /\ bf' = IF bf.failed # {}
           THEN [bf EXCEPT !.failed = @ \ {Smallest(bf.failed)},
                           !.workers[w] = Worker("pop", Smallest(bf.failed), Nil)]
           ELSE IF bf.terminal = Nil /\ bf.fetchHeight >= InitialHeight
           THEN [bf EXCEPT !.fetchHeight = @ - 1,
                           !.workers[w] = Worker("pop", bf.fetchHeight, Nil)]
           ELSE [bf EXCEPT !.waiters = Append(@, w), !.workers[w].st = "waiting"]
  /\ UNCHANGED <<calls, lbReqs, responding, up, valsSaved, bfResult>>

\* Pop, and dispatch of the request to the peer.  One that is busy with another
\* worker's call counts as a failure.
Dispatch(w, p, s) ==
  LET h == s.workers[w].height IN
  /\ responding = Nil
  /\ IF p \in DOMAIN calls
     THEN /\ bf' = retry([appendPeer(s, p) EXCEPT !.workers[w] = IdleWorker], h)
          /\ UNCHANGED <<calls, lbReqs>>
     ELSE /\ bf' = [s EXCEPT !.workers[w] = Worker("call", h, p)]
          /\ calls' = [q \in DOMAIN calls \cup {p} |-> IF q = p THEN Nil ELSE calls[q]]
          /\ lbReqs' = IF p \in up THEN lbReqs \cup {[peer |-> p, height |-> h]} ELSE lbReqs

Pop(w) ==
  /\ Working
  /\ bf.workers[w].st = "pop"
  /\ IF bf.peers # <<>> THEN Dispatch(w, Head(bf.peers), [bf EXCEPT !.peers = Tail(@)])
     ELSE /\ bf' = [bf EXCEPT !.waiting = Append(@, w), !.workers[w].st = "popwait"]
          /\ UNCHANGED <<calls, lbReqs>>
  /\ UNCHANGED <<responding, up, valsSaved, bfResult>>

\* A peer was appended while the worker waited for one.
Popped(w) ==
  /\ Working
  /\ bf.workers[w].st = "ready"
  /\ Dispatch(w, bf.workers[w].peer, bf)
  /\ UNCHANGED <<responding, up, valsSaved, bfResult>>

Response(h, block) == [height |-> h, block |-> block]

\* Respond: an answer goes to whatever call its peer has now.
Respond(r, block) ==
  /\ Working
  /\ r \in lbReqs
  /\ responding = Nil
  /\ lbReqs' = lbReqs \ {r}
  /\ IF r.peer \notin DOMAIN calls THEN UNCHANGED <<calls, responding>>
     ELSE IF calls[r.peer] = Nil
     THEN calls' = [calls EXCEPT ![r.peer] = Response(r.height, block)] /\ UNCHANGED responding
     ELSE responding' = [peer |-> r.peer, resp |-> Response(r.height, block)] /\ UNCHANGED calls
  /\ UNCHANGED <<bf, up, valsSaved, bfResult>>

\* What a worker makes of the answer, once the call is cleaned up: the peer goes back
\* to the list, and its answer to the queue.
Handle(w, resp) ==
  LET p == bf.workers[w].peer
      h == bf.workers[w].height
      s == [appendPeer(bf, p) EXCEPT !.workers[w] = IdleWorker] IN
  /\ calls' = [q \in DOMAIN calls \ {p} |-> calls[q]]
  /\ bf' = CASE resp = Nil -> retry(s, h)
             [] resp # Nil /\ resp.block = "nil" -> removePeer(retry(s, h), p)
             [] resp # Nil /\ resp.block # "nil" /\ resp.height # h -> retry(s, h)
             [] OTHER -> add(s, [height |-> h, block |-> resp.block, peer |-> p])

\* LightBlock returns with the answer; a Respond blocked behind it goes on.
Receive(w) ==
  /\ Working
  /\ bf.workers[w].st = "call"
  /\ calls[bf.workers[w].peer] # Nil
  /\ Handle(w, calls[bf.workers[w].peer])
  /\ responding' = IF responding # Nil /\ responding.peer = bf.workers[w].peer THEN Nil ELSE responding
  /\ UNCHANGED <<lbReqs, up, valsSaved, bfResult>>

\* Or by its timeout, even if an answer has just come.
Timeout(w) ==
  /\ Working
  /\ bf.workers[w].st = "call"
  /\ bf' = [bf EXCEPT !.workers[w].st = "cleanup"]
  /\ UNCHANGED <<calls, lbReqs, responding, up, valsSaved, bfResult>>

\* The deferred cleanup of a call that timed out needs the dispatcher's mutex.
Cleanup(w) ==
  /\ Working
  /\ bf.workers[w].st = "cleanup"
  /\ responding = Nil
  /\ Handle(w, Nil)
  /\ UNCHANGED <<lbReqs, responding, up, valsSaved, bfResult>>

-----------------------------------------------------------------------------
(* The verifier. *)

verifyNext ==
  /\ Running
  /\ bf.verifying = Nil
  /\ bf.closed = 0
  /\ bf.verifyHeight \in DOMAIN bf.pending
  /\ bf' = [bf EXCEPT !.verifying = bf.pending[bf.verifyHeight],
                      !.pending = [h \in DOMAIN @ \ {bf.verifyHeight} |-> @[h]]]
  /\ UNCHANGED <<calls, lbReqs, responding, up, valsSaved, bfResult>>

\* SaveValidatorSets
SaveValidatorSets(lower, upper, vals) ==
  [h \in BfHeights |-> IF h \in lower .. upper THEN vals ELSE valsSaved[h]]

\* The header's hash is checked against the block above it, the validators are saved
\* when they change, and the block is a success.
Verify ==
  LET h == bf.verifying.height
      changed == bf.lastValidatorSet # Nil /\ ValidatorsAt[h] # ValidatorsAt[h + 1]
      s == [bf EXCEPT !.verifying = Nil] IN
  /\ Running
  /\ bf.verifying # Nil
  /\ IF bf.verifying.block # "good"
     THEN bf' = retry(s, h) /\ UNCHANGED valsSaved
     ELSE /\ valsSaved' = IF changed THEN SaveValidatorSets(h + 1, bf.lastChangeHeight, bf.lastValidatorSet)
                          ELSE valsSaved
          /\ bf' = success([s EXCEPT !.headers = @ \cup {h}, !.lastValidatorSet = ValidatorsAt[h],
                                     !.lastChangeHeight = IF changed THEN h ELSE @])
  /\ UNCHANGED <<calls, lbReqs, responding, up, bfResult>>

\* queue.done()
Done ==
  /\ Running
  /\ bf.verifying = Nil
  /\ bf.closed > 0
  /\ IF bf.retries >= MaxRetries THEN bfResult' = "error" /\ UNCHANGED valsSaved
     ELSE /\ valsSaved' = SaveValidatorSets(bf.terminal, bf.lastChangeHeight, bf.lastValidatorSet)
          /\ bfResult' = "ok"
  /\ UNCHANGED <<bf, calls, lbReqs, responding, up>>

\* The context is done, and select may prefer it to queue.done(): queue.close().
Cancel ==
  /\ Running
  /\ MayCancel
  /\ bf.verifying = Nil
  /\ bf' = [bf EXCEPT !.closed = @ + 1]
  /\ bfResult' = "cancelled"
  /\ UNCHANGED <<calls, lbReqs, responding, up, valsSaved>>

BackfillNext ==
  \/ \E w \in Workers : \/ NextHeight(w) \/ Pop(w) \/ Popped(w)
                        \/ Receive(w) \/ Timeout(w) \/ Cleanup(w)
  \/ \E r \in lbReqs : \E block \in (IF r.peer \in Reliable THEN {"good"} ELSE Answers) : Respond(r, block)
  \/ \E p \in Nodes : processPeerUpdate(p)
  \/ verifyNext \/ Verify \/ Done \/ Cancel

\* The workers and the verifier run, timeouts expire, reliable peers answer.
BackfillFairness ==
  /\ \A w \in Workers : /\ WF_bfVars(NextHeight(w) \/ Pop(w) \/ Popped(w) \/ Cleanup(w))
                        /\ WF_bfVars(Receive(w) \/ Timeout(w))
  /\ WF_bfVars(verifyNext \/ Verify \/ Done)

BackfillSpec == BackfillInit /\ [][BackfillNext]_bfVars /\ BackfillFairness

-----------------------------------------------------------------------------
BackfillTypeOK ==
  /\ bf.fetchHeight \in InitialHeight - 1 .. StartHeight
  /\ bf.verifyHeight \in InitialHeight - 1 .. StartHeight
  /\ bf.terminal \in BfHeights \cup {Nil}
  /\ bf.failed \subseteq BfHeights /\ DOMAIN bf.pending \subseteq BfHeights
  /\ bf.retries \in 0 .. MaxRetries
  /\ bf.peers \in Seq(Nodes)
  /\ \A w \in Workers : bf.workers[w].st \in {"idle", "waiting", "pop", "popwait", "ready", "call",
                                              "cleanup", "exit"}
  /\ bfResult \in {"running", "ok", "error", "cancelled"}

\* Where height h is: with workers, failed, pending, or at the verifier.
Places(h) ==
  {<<"worker", w>> : w \in {v \in Workers : bf.workers[v].height = h}}
  \cup (IF h \in bf.failed THEN {<<"failed", h>>} ELSE {})
  \cup (IF h \in DOMAIN bf.pending THEN {<<"pending", h>>} ELSE {})
  \cup (IF bf.verifying # Nil /\ bf.verifying.height = h THEN {<<"verifier", h>>} ELSE {})
InOne(h) == \E p \in Places(h) : Places(h) = {p}

\* Every height that was allocated and not verified yet is in exactly one place, so
\* it is neither forgotten nor fetched twice, whatever times out or fails; only those
\* below the terminal block may be dropped.
HeightAccounted ==
  bf.closed = 0 =>
    /\ \A h \in BfHeights : h \in bf.fetchHeight + 1 .. bf.verifyHeight =>
         InOne(h) \/ (bf.terminal # Nil /\ h < bf.terminal /\ Places(h) = {})
    /\ \A h \in BfHeights : h > bf.verifyHeight => Places(h) = {}

\* If backfill succeeds then the headers of all heights down to the terminal block are
\* stored, and so are the validators of each of these heights, the right ones.
SucceedsComplete ==
  bfResult = "ok" =>
    /\ bf.headers = bf.terminal .. StartHeight
    /\ \A h \in bf.terminal .. StartHeight : valsSaved[h] = ValidatorsAt[h]

\* Backfill: every height is pending, with a worker, to be retried or verified, and a
\* backfill that ends well has stored every height it should.
BackfillComplete == BackfillTypeOK /\ HeightAccounted /\ SucceedsComplete

\* Backfill ends: it succeeds, or runs out of retries.
BackfillEnds == <>(bfResult # "running" \/ bf.closed > 1 \/ responding # Nil)
=============================================================================
