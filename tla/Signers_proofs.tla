---------------------------- MODULE Signers_proofs ----------------------------
(***************************************************************************)
(* The two private validators.  FilePV never returns two signatures for    *)
(* one height, round and step, for any set of requests and any pattern of  *)
(* crashes, and so implements PrivValidator.  A remote signer's answer to  *)
(* a request is never taken for the answer to another, for any number of   *)
(* connections, requests and restarts.                                     *)
(***************************************************************************)
EXTENDS FilePV, RemoteSigner, TLAPS

\* The file is never ahead of the memory; before the save is done it is
\* strictly behind, and when it is not behind the two are equal.
MemoryAheadOfDisk == /\ pc = "save" => PV!HRSBefore(disk, lss)
                     /\ pc # "save" => disk = lss

\* The bytes recorded are those of the recorded height, round and step.
Recorded(b) == b.signBytes # NoBytes => PV!SameHRS(b.signBytes, b)

FileIInv ==
  /\ TypeOK
  /\ pc # "idle" => lss.signBytes # NoBytes
  /\ Recorded(lss) /\ Recorded(disk)
  /\ MemoryAheadOfDisk
  /\ NoConflictingSignatures
  /\ ReturnedIsDurable

\* NewFilePV starts with an empty state, in memory and on disk.
LEMMA FileInitIInv == Init => FileIInv
BY FilePVAssumption DEF Init, FileIInv, TypeOK, LastSignStates, EmptyState, Recorded,
   MemoryAheadOfDisk, NoConflictingSignatures, ReturnedIsDurable, PV!stepNone

\* Every signable record has integer height, round and step.
LEMMA SignBytesHRS ==
  ASSUME NEW m \in PV!SignBytes
  PROVE  m.height \in Int /\ m.round \in Int /\ m.step \in 0..3 /\ m # NoBytes
<1>1. m # NoBytes
  BY FilePVAssumption
<1>2. m.height \in Heights /\ m.round \in Rounds /\ m.step \in 1..3
  BY DEF PV!SignBytes, PV!stepPropose, PV!stepPrevote, PV!stepPrecommit
<1>3. \A h \in Heights : h \in Int
  BY FilePVAssumption
<1>4. \A r \in Rounds : r \in Int
  BY FilePVAssumption
<1>5. m.step \in 0..3
  BY <1>2
<1> QED BY <1>1, <1>2, <1>3, <1>4, <1>5

\* Every step of FilePV, crashes included, keeps the invariant.
LEMMA FileNextIInv == FileIInv /\ [Next]_vars => FileIInv'
<1> SUFFICES ASSUME FileIInv, [Next]_vars PROVE FileIInv'
  BY Zenon
<1> USE DEF FileIInv, Recorded, MemoryAheadOfDisk, NoConflictingSignatures,
        ReturnedIsDurable, PV!HRSBefore, PV!SameHRS
<1>1. ASSUME NEW m \in Requests, SignNew(m) PROVE FileIInv'
  <2>1. m \in PV!SignBytes
    BY FilePVAssumption, Zenon
  <2>2. /\ lss' = [height |-> m.height, round |-> m.round, step |-> m.step,
                   signBytes |-> m]
        /\ pc' = "save" /\ disk' = disk /\ returned' = returned
        /\ PV!HRSBefore(lss, m) /\ disk = lss
    BY <1>1, Zenon DEF SignNew, NewHRS, saveSigned
  <2>3. TypeOK'
    BY <2>1, <2>2, SignBytesHRS, Zenon DEF TypeOK, LastSignStates
  <2>4. lss'.signBytes # NoBytes
    BY <2>1, <2>2, SignBytesHRS, Zenon
  <2> QED BY <2>2, <2>3, <2>4, Zenon
<1>2. ASSUME NEW m \in Requests, SignAgain(m) PROVE FileIInv'
  BY <1>2 DEF SignAgain, Signed, TypeOK, LastSignStates
<1>3. CASE Save
  <2>1. disk' = lss /\ lss' = lss /\ pc' = "return" /\ returned' = returned
        /\ pc = "save"
    BY <1>3, Zenon DEF Save
  <2>2. ASSUME NEW s \in returned PROVE PV!HRSBefore(s, lss)
    <3>1. s.height \in Int /\ s.round \in Int /\ s.step \in Int
      BY SignBytesHRS DEF TypeOK
    <3>2. /\ disk.height \in Int /\ disk.round \in Int /\ disk.step \in Int
          /\ lss.height \in Int /\ lss.round \in Int /\ lss.step \in Int
      BY DEF TypeOK, LastSignStates
    <3> QED BY <2>1, <3>1, <3>2
  <2> QED BY <2>1, <2>2, Zenon DEF TypeOK
<1>4. CASE Return
  BY <1>4 DEF Return, TypeOK, LastSignStates
<1>5. CASE CrashAndLoad
  BY <1>5, Zenon DEF CrashAndLoad, TypeOK
<1>6. CASE UNCHANGED vars
  BY <1>6 DEF vars, TypeOK
<1> QED BY <1>1, <1>2, <1>3, <1>4, <1>5, <1>6, Zenon DEF Next

\* The inductive invariant of FilePV holds in every reachable state.
THEOREM Invariance == Spec => []FileIInv
BY FileInitIInv, FileNextIInv, PTL DEF Spec

\* For every set of requests and every pattern of crashes, the private
\* validator returns at most one signature for a height, round and step.
THEOREM NoDoubleSign == Spec => []NoConflictingSignatures
<1>1. FileIInv => NoConflictingSignatures
  BY DEF FileIInv
<1> QED BY <1>1, Invariance, PTL

\* FilePV implements the PrivValidator the consensus code expects: signatures
\* are handed out in strictly increasing order of height, round and step.
THEOREM Refinement == Spec => ImplementsPrivValidator
<1>1. Init => PV!Init
  BY DEF Init, PV!Init
<1>2. FileIInv /\ [Next]_vars => [PV!Next]_returned
  <2> SUFFICES ASSUME FileIInv, [Next]_vars, returned' # returned
               PROVE  \E m \in PV!SignBytes : PV!Sign(m)
    BY DEF PV!Next
  <2>1. returned' = returned \cup {lss.signBytes} /\ pc # "save"
        /\ lss.signBytes # NoBytes
    BY DEF Next, SignNew, SignAgain, Signed, Save, Return, CrashAndLoad, vars, FileIInv
  <2>2. lss.signBytes \in PV!SignBytes
    BY <2>1 DEF FileIInv, TypeOK, LastSignStates
  <2>3. ASSUME NEW s \in returned PROVE PV!HRSBefore(s, lss.signBytes)
    BY <2>1 DEF FileIInv, MemoryAheadOfDisk, ReturnedIsDurable, Recorded,
       PV!HRSBefore, PV!SameHRS
  <2> QED BY <2>1, <2>2, <2>3 DEF PV!Sign
<1> QED BY <1>1, <1>2, Invariance, PTL DEF Spec, PV!Spec, ImplementsPrivValidator
--------------------------------------------------------------------------------
\* What is used of sequences: their elements, a part, and one more element.
LEMMA SeqElement ==
  ASSUME NEW S, NEW s \in Seq(S)
  PROVE  Len(s) \in Nat /\ s \in [1 .. Len(s) -> S] /\ DOMAIN s = 1 .. Len(s)
OBVIOUS

\* The rest of a sequence.
LEMMA SeqTail ==
  ASSUME NEW S, NEW s \in Seq(S), s # <<>>
  PROVE  /\ Head(s) \in S /\ Tail(s) \in Seq(S) /\ Len(s) \in Nat \ {0}
         /\ Len(Tail(s)) = Len(s) - 1 /\ \A i \in 1 .. Len(s) - 1 : Tail(s)[i] = s[i + 1]
OBVIOUS

\* One element more.
LEMMA SeqAppend ==
  ASSUME NEW S, NEW s \in Seq(S), NEW e \in S
  PROVE  /\ Append(s, e) \in Seq(S) /\ Len(Append(s, e)) = Len(s) + 1
         /\ Append(s, e)[Len(s) + 1] = e /\ \A i \in 1 .. Len(s) : Append(s, e)[i] = s[i]
OBVIOUS
--------------------------------------------------------------------------------
(* The remote signer. *)
Messages == Nat \cup {None}
ConnTypes == [node : BOOLEAN, signer : BOOLEAN, req : Messages, resp : Messages, reset : BOOLEAN]
NodeTypes == [conn : Conns \cup {None}, loop : {"idle", "accept", "offer"},
              offered : Conns \cup {None}, mtx : Callers \cup {None},
              pc : {"none", "wait", "write", "sent", "read"}, next : Nat, reconnect : BOOLEAN]

TypeInv ==
    /\ node \in NodeTypes
    /\ signer \in [conn : Conns \cup {None}, req : Messages]
    /\ conns \in [Conns -> ConnTypes]
    /\ backlog \in Seq(Conns)

\* What is under way on connection c: nothing, or at most one message, the request r or
\* its answer.
Empty(c) == conns[c].req = None /\ conns[c].resp = None /\ (signer.conn = c => signer.req = None)
AtMost(c, r) ==
    /\ conns[c].req \in {None, r} /\ conns[c].resp \in {None, r}
    /\ signer.conn = c => signer.req \in {None, r}
    /\ conns[c].req # None => conns[c].resp = None
    /\ signer.conn = c /\ signer.req # None => conns[c].req = None /\ conns[c].resp = None

\* The signer's end is open for the connection it uses; a closed end takes no request.
SignerEnd ==
    /\ \A c \in Conns : conns[c].signer <=> signer.conn = c
    /\ \A c \in Conns : ~conns[c].signer => conns[c].req = None
    /\ signer.conn = None => signer.req = None

\* Connections that were dialed and are not in use yet.
Fresh(c) == conns[c].node = TRUE /\ Empty(c) /\ c # node.conn
Waiting ==
    /\ node.offered # None => Fresh(node.offered)
    /\ \A i \in 1..Len(backlog) : Fresh(backlog[i]) /\ backlog[i] # node.offered
    /\ \A i, j \in 1..Len(backlog) : backlog[i] = backlog[j] => i = j

\* The connection in use has at most the request of the caller that has instanceMtx.
InUse ==
    /\ node.mtx = None <=> node.pc = "none"
    /\ node.pc = "read" => node.conn # None
    /\ node.conn # None =>
         /\ conns[node.conn].node = TRUE
         /\ IF node.pc \in {"sent", "read"} THEN AtMost(node.conn, Request) ELSE Empty(node.conn)

SignerIInv == TypeInv /\ SignerEnd /\ Waiting /\ InUse /\ AnswerMatches
-----------------------------------------------------------------------------
\* What a failed request and a dropped connection do to the listener.
LEMMA NodeUpdates ==
  ASSUME NEW n \in NodeTypes
  PROVE  /\ Failed(n) \in NodeTypes /\ Failed(n).conn = n.conn /\ Failed(n).offered = n.offered
         /\ Failed(n).pc = "none" /\ Failed(n).mtx = None
         /\ Drop(n) \in NodeTypes /\ Drop(n).conn = None /\ Drop(n).offered = n.offered
         /\ Drop(n).pc = n.pc /\ Drop(n).mtx = n.mtx
BY Zenon DEF NodeTypes, Failed, Drop

\* A connection that is not used is of its type.
LEMMA UnusedConn ==
  /\ Unused \in ConnTypes
  /\ Unused.node = FALSE /\ Unused.signer = FALSE /\ Unused.req = None /\ Unused.resp = None
BY Zenon DEF Unused, ConnTypes, Messages

\* The node's end is closed; the signer's stays as it is.
LEMMA ClosedConn ==
  ASSUME TypeInv, NEW c \in Conns \cup {None}
  PROVE  /\ Closed(conns, c) \in [Conns -> ConnTypes]
         /\ \A d \in Conns : /\ d # c => Closed(conns, c)[d] = conns[d]
                             /\ Closed(conns, c)[d].signer = conns[d].signer
                             /\ Closed(conns, c)[d].req \in {None, conns[d].req}
<1>1. CASE c \notin Conns
  BY <1>1 DEF Closed, TypeInv
<1>2. CASE c \in Conns
  <2> DEFINE r == IF conns[c].signer
                  THEN [conns[c] EXCEPT !.node = FALSE, !.reset = conns[c].reset \/ conns[c].resp # None]
                  ELSE Unused
  <2>1. conns[c] \in ConnTypes /\ c # None
    BY <1>2, SignerAssumption DEF TypeInv, Conns
  <2>2. r \in ConnTypes /\ r.signer = conns[c].signer /\ r.req \in {None, conns[c].req}
    <3>1. CASE conns[c].signer = TRUE
      BY <2>1, <3>1, Zenon DEF ConnTypes
    <3>2. CASE conns[c].signer = FALSE
      BY <2>1, <3>2, UnusedConn DEF ConnTypes
    <3> QED BY <2>1, <3>1, <3>2, Zenon DEF ConnTypes
  <2>3. Closed(conns, c) = [conns EXCEPT ![c] = r]
    BY <2>1 DEF Closed
  <2> HIDE DEF r
  <2> QED BY <1>2, <2>2, <2>3 DEF TypeInv
<1> QED BY <1>1, <1>2

\* The signer's end is closed; an answer on its way can still be read.
LEMMA SignerDropConn ==
  ASSUME TypeInv, NEW c \in Conns
  PROVE  /\ SignerDrop(c) \in [Conns -> ConnTypes]
         /\ \A d \in Conns \ {c} : SignerDrop(c)[d] = conns[d]
         /\ SignerDrop(c)[c].signer = FALSE /\ SignerDrop(c)[c].req = None
         /\ SignerDrop(c)[c].node = conns[c].node
         /\ SignerDrop(c)[c].resp \in {None, conns[c].resp}
<1> DEFINE r == IF conns[c].node THEN [conns[c] EXCEPT !.signer = FALSE, !.req = None] ELSE Unused
<1>1. conns[c] \in ConnTypes
  BY DEF TypeInv
<1>2. /\ r \in ConnTypes /\ r.signer = FALSE /\ r.req = None /\ r.node = conns[c].node
      /\ r.resp \in {None, conns[c].resp}
  <2>1. CASE conns[c].node = TRUE
    BY <1>1, <2>1, Zenon DEF ConnTypes, Messages
  <2>2. CASE conns[c].node = FALSE
    BY <1>1, <2>2, UnusedConn DEF ConnTypes
  <2> QED BY <1>1, <2>1, <2>2, Zenon DEF ConnTypes
<1>3. SignerDrop(c) = [conns EXCEPT ![c] = r]
  BY DEF SignerDrop
<1> HIDE DEF r
<1> QED BY <1>2, <1>3 DEF TypeInv

\* The request under way.
LEMMA RequestType ==
  ASSUME TypeInv
  PROVE  Request \in Nat /\ Request # None
BY SignerAssumption DEF TypeInv, NodeTypes, Request

\* Who waits in the listener's queue is left alone by what happens elsewhere.
LEMMA WaitingKept ==
  ASSUME SignerIInv, node'.offered = node.offered, node'.conn \in {node.conn, None}, backlog' = backlog,
         \A d \in Conns : Fresh(d) => conns'[d].node = TRUE /\ Empty(d)'
  PROVE  Waiting'
<1>1. \A d \in Conns : Fresh(d) => d # None
  BY SignerAssumption DEF Conns
<1>2. node.offered # None => node.offered \in Conns
  BY DEF SignerIInv, TypeInv, NodeTypes
<1>3. \A i \in 1..Len(backlog) : backlog[i] \in Conns
  BY SeqElement DEF SignerIInv, TypeInv, NodeTypes
<1>4. \A d \in Conns : Fresh(d) => Fresh(d)'
  BY <1>1 DEF Fresh
<1> QED BY <1>2, <1>3, <1>4 DEF SignerIInv, Waiting

\* Before the first connection.
LEMMA SignerInitIInv ==
  ASSUME SignerInit
  PROVE  SignerIInv
<1>1. conns = [c \in Conns |-> Unused] /\ backlog = <<>> /\ answered = <<None, None>>
  BY DEF SignerInit, SignerStart
<1>2. node = NewListener(1) /\ signer = [conn |-> None, req |-> None]
  BY DEF SignerInit, SignerStart
<1>3. TypeInv
  BY <1>1, <1>2, UnusedConn, SignerAssumption DEF TypeInv, NodeTypes, NewListener, Messages
<1> QED
  BY <1>1, <1>2, <1>3, UnusedConn, SignerAssumption
  DEF SignerIInv, SignerEnd, Waiting, InUse, AnswerMatches, NewListener, Conns

\* SendRequest takes instanceMtx.
LEMMA SendRequestIInv ==
  ASSUME SignerIInv, NEW p \in Callers, SendRequest(p)
  PROVE  SignerIInv'
<1>1. TypeInv'
  BY SignerAssumption, Zenon DEF SignerIInv, TypeInv, NodeTypes, SendRequest, ensureConnection, triggerConnect, Callers
<1>2. SignerEnd' /\ AnswerMatches'
  BY DEF SignerIInv, SignerEnd, AnswerMatches, SendRequest
<1>3. Waiting'
  BY SignerAssumption
  DEF SignerIInv, TypeInv, NodeTypes, Waiting, Fresh, Empty, SendRequest, ensureConnection, triggerConnect, Callers, Conns
<1>4. InUse'
  BY SignerAssumption
  DEF SignerIInv, TypeInv, NodeTypes, InUse, Waiting, Fresh, Empty, SendRequest, ensureConnection, triggerConnect,
      Callers, Conns
<1> QED BY <1>1, <1>2, <1>3, <1>4 DEF SignerIInv

\* WaitConnection, and its timeout.
LEMMA WaitConnectionIInv ==
  ASSUME SignerIInv, WaitConnection
  PROVE  SignerIInv'
<1>1. TypeInv'
  BY Zenon DEF SignerIInv, TypeInv, NodeTypes, WaitConnection, Failed
<1>2. SignerEnd' /\ AnswerMatches'
  BY DEF SignerIInv, SignerEnd, AnswerMatches, WaitConnection
<1>3. signer' = signer /\ conns' = conns /\ backlog' = backlog /\ node.pc = "wait"
  BY DEF WaitConnection
<1>4. CASE /\ node.offered # None
           /\ node' = [node EXCEPT !.pc = "write", !.conn = node.offered, !.offered = None, !.loop = "idle"]
  <2>1. /\ node'.conn = node.offered /\ node'.offered = None /\ node'.pc = "write"
        /\ node'.mtx = node.mtx
    BY <1>4 DEF SignerIInv, TypeInv, NodeTypes
  <2>2. Waiting'
    BY <1>3, <1>4, <2>1, SeqElement, SignerAssumption
    DEF SignerIInv, TypeInv, NodeTypes, Waiting, Fresh, Empty, Conns
  <2>3. InUse'
    BY <1>3, <1>4, <2>1 DEF SignerIInv, Waiting, Fresh, InUse, Empty
  <2> QED BY <1>1, <1>2, <2>2, <2>3 DEF SignerIInv
<1>5. CASE node' = Failed(node)
  <2>1. /\ node'.conn = node.conn /\ node'.offered = node.offered /\ node'.pc = "none"
        /\ node'.mtx = None
    BY <1>5 DEF SignerIInv, TypeInv, NodeTypes, Failed
  <2>2. Waiting'
    BY <1>3, <2>1 DEF SignerIInv, Waiting, Fresh, Empty
  <2>3. InUse'
    BY <1>3, <2>1 DEF SignerIInv, InUse, Empty
  <2> QED BY <1>1, <1>2, <2>2, <2>3 DEF SignerIInv
<1> QED BY <1>4, <1>5 DEF WaitConnection

\* A request that fails leaves the connection as it was, closed or given up.
LEMMA FailedIInv ==
  ASSUME SignerIInv, signer' = signer, backlog' = backlog, answered' = answered,
         \/ node' = Failed(node) /\ conns' = conns /\ (node.conn # None => Empty(node.conn))
         \/ node' = Drop(Failed(node)) /\ conns' = Closed(conns, node.conn)
  PROVE  SignerIInv'
<1>0. /\ node' \in NodeTypes /\ node'.offered = node.offered /\ node'.pc = "none" /\ node'.mtx = None
      /\ \/ node'.conn = None
         \/ node'.conn = node.conn /\ conns' = conns /\ (node.conn # None => Empty(node.conn))
  <2>1. node \in NodeTypes
    BY DEF SignerIInv, TypeInv, NodeTypes
  <2>2. Failed(node) \in NodeTypes
    BY <2>1, NodeUpdates
  <2> QED BY <2>1, <2>2, NodeUpdates
<1>1. TypeInv'
  <2>1. conns' \in [Conns -> ConnTypes]
    <3>1. TypeInv /\ node.conn \in Conns \cup {None}
      BY DEF SignerIInv, TypeInv, NodeTypes
    <3> QED BY <3>1, ClosedConn DEF TypeInv
  <2> QED BY <2>1, <1>0 DEF SignerIInv, TypeInv, NodeTypes
<1>2. AnswerMatches'
  BY DEF SignerIInv, AnswerMatches
<1>3. /\ \A d \in Conns : d # node.conn => conns'[d] = conns[d]
      /\ \A d \in Conns : /\ conns'[d].signer = conns[d].signer
                          /\ conns'[d].req \in {None, conns[d].req}
  <2>1. node.conn \in Conns \cup {None} /\ TypeInv
    BY DEF SignerIInv, TypeInv, NodeTypes
  <2> QED BY <2>1, ClosedConn
<1>4. SignerEnd'
  BY <1>3 DEF SignerIInv, SignerEnd
<1>5. Waiting'
  <2>1. \A d \in Conns : Fresh(d) => conns'[d].node = TRUE /\ Empty(d)'
    BY <1>3 DEF Fresh, Empty
  <2> QED BY <1>0, <2>1, WaitingKept, Zenon
<1>6. InUse'
  BY <1>0, Zenon DEF SignerIInv, InUse, Empty
<1> QED BY <1>1, <1>2, <1>4, <1>5, <1>6 DEF SignerIInv

\* WriteMessage, and its failure.
LEMMA WriteMessageIInv ==
  ASSUME SignerIInv, WriteMessage
  PROVE  SignerIInv'
<1> DEFINE c == node.conn
<1>1. node.pc = "write" /\ signer' = signer /\ backlog' = backlog /\ answered' = answered
  BY DEF WriteMessage
<1>2. c # None => c \in Conns /\ conns[c].node = TRUE /\ Empty(c)
  BY <1>1 DEF SignerIInv, TypeInv, NodeTypes, InUse
<1>3. CASE c = None /\ node' = Failed(node) /\ UNCHANGED conns
  BY <1>1, <1>3, FailedIInv
<1>4. CASE c # None /\ node' = Drop(Failed(node)) /\ conns' = Closed(conns, c)
  BY <1>1, <1>4, FailedIInv
<1>5. CASE /\ c # None /\ node' = [node EXCEPT !.pc = "sent"]
           /\ \/ conns[c].signer /\ conns' = [conns EXCEPT ![c].req = Request]
              \/ conns' = conns
  <2>1. /\ conns' \in [Conns -> ConnTypes]
        /\ \A d \in Conns : /\ d # c => conns'[d] = conns[d]
                            /\ conns'[d].signer = conns[d].signer
        /\ conns'[c].node = TRUE /\ conns'[c].resp = None /\ conns'[c].req \in {None, Request}
        /\ conns'[c].req # None => conns[c].signer
    <3>1. TypeInv /\ c \in Conns /\ Request \in Messages
      BY <1>2, <1>5, RequestType DEF SignerIInv, Messages
    <3> HIDE DEF c
    <3>2. CASE conns' = conns
      BY <1>2, <1>5, <3>1, <3>2 DEF TypeInv, Empty
    <3>3. CASE conns' = [conns EXCEPT ![c].req = Request]
      <4> DEFINE r == Request
      <4>1. /\ conns' = [conns EXCEPT ![c].req = r] /\ r \in Messages
        BY <3>1, <3>3
      <4> HIDE DEF r
      <4>2. /\ conns' \in [Conns -> ConnTypes] /\ \A d \in Conns \ {c} : conns'[d] = conns[d]
            /\ conns'[c].req = r /\ conns'[c].resp = conns[c].resp
            /\ conns'[c].node = conns[c].node /\ conns'[c].signer = conns[c].signer
        BY <3>1, <4>1 DEF TypeInv, ConnTypes
      <4> QED BY <1>2, <1>5, <4>2 DEF Empty, r
    <3> QED BY <1>5, <3>2, <3>3, Zenon
  <2>2. /\ node'.conn = c /\ node'.offered = node.offered /\ node'.pc = "sent"
        /\ node'.mtx = node.mtx /\ node'.next = node.next
    BY <1>5 DEF SignerIInv, TypeInv, NodeTypes
  <2>3. TypeInv'
    BY <1>1, <1>5, <2>1, Zenon DEF SignerIInv, TypeInv, NodeTypes
  <2>4. SignerEnd' /\ AnswerMatches'
    BY <1>1, <2>1 DEF SignerIInv, SignerEnd, AnswerMatches
  <2>5. Waiting'
    <3>1. \A d \in Conns : Fresh(d) => conns'[d].node = TRUE /\ Empty(d)'
      BY <1>1, <2>1 DEF Fresh, Empty
    <3> QED BY <1>1, <2>2, <3>1, WaitingKept, Zenon
  <2>6. AtMost(c, Request)'
    BY <1>1, <1>2, <1>5, <2>1, <2>2 DEF AtMost, Empty, Request
  <2>7. InUse'
    BY <1>1, <2>1, <2>2, <2>6 DEF SignerIInv, InUse
  <2> QED BY <2>3, <2>4, <2>5, <2>7 DEF SignerIInv
<1> QED BY <1>3, <1>4, <1>5 DEF WriteMessage

\* ReadMessage begins.
LEMMA BeginReadIInv ==
  ASSUME SignerIInv, BeginRead
  PROVE  SignerIInv'
<1>1. CASE node.conn = None
  BY <1>1, FailedIInv DEF BeginRead
<1>2. CASE node.conn # None
  <2>1. /\ node' = [node EXCEPT !.pc = "read"] /\ node.pc = "sent" /\ signer' = signer
        /\ conns' = conns /\ backlog' = backlog /\ answered' = answered
    BY <1>2 DEF BeginRead
  <2>2. /\ node'.conn = node.conn /\ node'.offered = node.offered /\ node'.pc = "read"
        /\ node'.mtx = node.mtx /\ node'.next = node.next
    BY <2>1 DEF SignerIInv, TypeInv, NodeTypes
  <2>3. TypeInv' /\ SignerEnd' /\ AnswerMatches'
    BY <2>1 DEF SignerIInv, TypeInv, NodeTypes, SignerEnd, AnswerMatches
  <2>4. Waiting'
    BY <2>1, <2>2 DEF SignerIInv, Waiting, Fresh, Empty
  <2>5. InUse'
    BY <1>2, <2>1, <2>2 DEF SignerIInv, InUse, AtMost, Request
  <2> QED BY <2>3, <2>4, <2>5 DEF SignerIInv
<1> QED BY <1>1, <1>2

\* An answer is read: it is the one to the request.
LEMMA ReadAnswerIInv ==
  ASSUME SignerIInv, ReadAnswer
  PROVE  SignerIInv'
<1>1. PICK c \in Conns : c = node.conn
  BY DEF SignerIInv, TypeInv, NodeTypes, InUse, ReadAnswer
<1>2. /\ node.pc = "read" /\ conns[c].resp # None /\ answered' = <<Request, conns[c].resp>>
      /\ conns' = [conns EXCEPT ![c].resp = None] /\ signer' = signer /\ backlog' = backlog
      /\ AtMost(c, Request) /\ conns[c].node = TRUE /\ node.conn # None
  BY <1>1 DEF SignerIInv, InUse, ReadAnswer
<1>3. /\ node' \in NodeTypes /\ node'.conn = c /\ node'.offered = node.offered
      /\ node'.pc = "none" /\ node'.mtx = None
  <2> DEFINE k == IF node.mtx = "sign" THEN node.next + 1 ELSE node.next
  <2>1. node' = [node EXCEPT !.mtx = None, !.pc = "none", !.next = k]
    BY DEF ReadAnswer, SignerIInv, TypeInv, NodeTypes
  <2>2. k \in Nat
    BY DEF SignerIInv, TypeInv, NodeTypes
  <2> HIDE DEF k
  <2> QED BY <1>1, <2>1, <2>2, Zenon DEF SignerIInv, TypeInv, NodeTypes
<1>4. /\ conns' \in [Conns -> ConnTypes] /\ \A d \in Conns \ {c} : conns'[d] = conns[d]
      /\ conns'[c].resp = None /\ conns'[c].req = conns[c].req
      /\ conns'[c].node = conns[c].node /\ conns'[c].signer = conns[c].signer
  <2>1. conns \in [Conns -> ConnTypes]
    BY Zenon DEF SignerIInv, TypeInv
  <2>2. conns' = [conns EXCEPT ![c] = [conns[c] EXCEPT !.resp = None]]
    BY <1>2, <2>1
  <2>3. PICK k \in ConnTypes : k = conns[c]
    BY <1>1, <2>1, Zenon
  <2>4. /\ [k EXCEPT !.resp = None] \in ConnTypes /\ [k EXCEPT !.resp = None].resp = None
        /\ [k EXCEPT !.resp = None].req = k.req /\ [k EXCEPT !.resp = None].node = k.node
        /\ [k EXCEPT !.resp = None].signer = k.signer
    BY DEF ConnTypes, Messages
  <2>5. PICK n \in ConnTypes : n = [k EXCEPT !.resp = None]
    BY <2>4, Zenon
  <2>6. conns' = [conns EXCEPT ![c] = n]
    BY <2>2, <2>3, <2>5, Zenon
  <2>7. /\ conns' \in [Conns -> ConnTypes] /\ \A d \in Conns \ {c} : conns'[d] = conns[d]
        /\ conns'[c] = n
    BY <2>1, <2>6
  <2> QED BY <2>3, <2>4, <2>5, <2>7, Zenon
<1>5. TypeInv'
  BY <1>2, <1>3, <1>4 DEF SignerIInv, TypeInv
<1>6. SignerEnd'
  BY <1>1, <1>2, <1>4 DEF SignerIInv, SignerEnd
<1>7. AnswerMatches'
  BY <1>1, <1>2 DEF AtMost, AnswerMatches
<1>8. Empty(c)'
  BY <1>1, <1>2, <1>4 DEF AtMost, Empty
<1>9. Waiting'
  <2>1. \A d \in Conns : Fresh(d) => conns'[d].node = TRUE /\ Empty(d)'
    BY <1>1, <1>2, <1>4 DEF Fresh, Empty
  <2> QED BY <1>1, <1>2, <1>3, <2>1, WaitingKept, Zenon
<1>10. InUse'
  BY <1>2, <1>3, <1>4, <1>8 DEF InUse
<1> QED BY <1>5, <1>6, <1>7, <1>9, <1>10 DEF SignerIInv

\* ReadMessage times out, and the connection is dropped.
LEMMA ReadTimeoutIInv ==
  ASSUME SignerIInv, ReadTimeout
  PROVE  SignerIInv'
BY FailedIInv DEF ReadTimeout

\* The signer took no request before it closed, or its answer was read.
LEMMA ReadEOFIInv ==
  ASSUME SignerIInv, ReadEOF
  PROVE  SignerIInv'
<1>1. node.conn \in Conns /\ ~conns[node.conn].signer /\ conns[node.conn].resp = None
  BY DEF SignerIInv, TypeInv, NodeTypes, InUse, ReadEOF
<1>2. Empty(node.conn)
  BY <1>1 DEF SignerIInv, SignerEnd, Empty
<1> QED BY <1>2, FailedIInv DEF ReadEOF

\* The connection is dropped and a new one asked for.
LEMMA ReconnectIInv ==
  ASSUME SignerIInv, triggerReconnect
  PROVE  SignerIInv'
<1>1. /\ signer' = signer /\ backlog' = backlog /\ answered' = answered
      /\ conns' = Closed(conns, node.conn)
  BY DEF triggerReconnect
<1>2. /\ node' \in NodeTypes /\ node'.conn = None /\ node'.offered = node.offered
      /\ node'.pc = node.pc /\ node'.mtx = node.mtx /\ node.pc # "read"
  <2>1. Drop(node) \in NodeTypes /\ node \in NodeTypes
    BY NodeUpdates DEF SignerIInv, TypeInv
  <2> DEFINE n == [Drop(node) EXCEPT !.reconnect = FALSE]
  <2>2. /\ n \in NodeTypes /\ n.conn = None /\ n.offered = node.offered /\ n.pc = node.pc
        /\ n.mtx = node.mtx
    BY <2>1, Zenon DEF NodeTypes, Drop
  <2>3. node' = triggerConnect(n) /\ node.pc # "read"
    BY DEF triggerReconnect
  <2> HIDE DEF n
  <2> QED BY <2>2, <2>3 DEF triggerConnect, NodeTypes
<1>3. /\ conns' \in [Conns -> ConnTypes]
      /\ \A d \in Conns : d # node.conn => conns'[d] = conns[d]
      /\ \A d \in Conns : /\ conns'[d].signer = conns[d].signer
                          /\ conns'[d].req \in {None, conns[d].req}
  <2>1. node.conn \in Conns \cup {None} /\ TypeInv
    BY DEF SignerIInv, TypeInv, NodeTypes
  <2> QED BY <1>1, <2>1, ClosedConn, Zenon
<1>4. TypeInv' /\ AnswerMatches'
  BY <1>1, <1>2, <1>3, Zenon DEF SignerIInv, TypeInv, AnswerMatches
<1>5. SignerEnd'
  BY <1>1, <1>3 DEF SignerIInv, SignerEnd
<1>6. Waiting'
  <2>1. \A d \in Conns : Fresh(d) => conns'[d].node = TRUE /\ Empty(d)'
    BY <1>1, <1>3 DEF Fresh, Empty
  <2> QED BY <1>1, <1>2, <2>1, WaitingKept, Zenon
<1>7. InUse'
  BY <1>2 DEF SignerIInv, InUse
<1> QED BY <1>4, <1>5, <1>6, <1>7 DEF SignerIInv

\* serviceLoop accepts a connection and offers it.
LEMMA ServiceLoopIInv ==
  ASSUME SignerIInv, serviceLoop
  PROVE  SignerIInv'
<1>1. /\ backlog # <<>> /\ backlog' = Tail(backlog) /\ signer' = signer /\ conns' = conns
      /\ answered' = answered /\ node' = [node EXCEPT !.loop = "offer", !.offered = Head(backlog)]
  BY DEF serviceLoop
<1>2. /\ backlog' \in Seq(Conns) /\ Len(backlog) \in Nat /\ Len(backlog') = Len(backlog) - 1
      /\ Head(backlog) = backlog[1] /\ Head(backlog) \in Conns /\ Len(backlog) > 0
      /\ \A i \in 1..Len(backlog') : backlog'[i] = backlog[i + 1]
  BY <1>1, SeqTail, SeqElement DEF SignerIInv, TypeInv
<1>3. /\ node' \in NodeTypes /\ node'.conn = node.conn /\ node'.offered = backlog[1]
      /\ node'.pc = node.pc /\ node'.mtx = node.mtx /\ node'.next = node.next
  BY <1>1, <1>2, Zenon DEF SignerIInv, TypeInv, NodeTypes
<1>4. TypeInv' /\ SignerEnd' /\ AnswerMatches'
  BY <1>1, <1>2, <1>3 DEF SignerIInv, TypeInv, SignerEnd, AnswerMatches
<1>5. \A d \in Conns : Fresh(d) => Fresh(d)'
  BY <1>1, <1>3 DEF Fresh, Empty
<1>6. Waiting'
  <2>1. PICK b \in Conns : b = backlog[1] /\ Fresh(b)'
    <3>1. PICK b \in Conns : b = backlog[1]
      BY <1>2
    <3>2. Fresh(b)
      BY <1>2, <3>1 DEF SignerIInv, Waiting
    <3> QED BY <1>5, <3>1, <3>2
  <2>2. ASSUME NEW i \in 1..Len(backlog')
        PROVE  Fresh(backlog[i])' /\ backlog'[i] # node'.offered
    <3>1. i + 1 \in 1..Len(backlog) /\ 1 \in 1..Len(backlog) /\ i + 1 # 1
      BY <1>2
    <3>2. PICK c \in Conns : c = backlog[i + 1]
      BY <3>1, SeqElement DEF SignerIInv, TypeInv
    <3>3. Fresh(c) /\ c # backlog[1]
      BY <3>1, <3>2 DEF SignerIInv, Waiting
    <3>4. Fresh(c)' /\ backlog'[i] = c
      BY <1>2, <1>5, <3>2, <3>3
    <3> QED BY <1>3, <3>3, <3>4
  <2>3. ASSUME NEW i \in 1..Len(backlog'), NEW j \in 1..Len(backlog'), backlog'[i] = backlog'[j]
        PROVE  i = j
    <3>1. i + 1 \in 1..Len(backlog) /\ j + 1 \in 1..Len(backlog) /\ backlog[i + 1] = backlog[j + 1]
      BY <1>2, <2>3
    <3>2. i + 1 = j + 1
      BY <3>1 DEF SignerIInv, Waiting
    <3> QED BY <3>2, <1>2
  <2>4. node'.offered = b
    BY <1>3, <2>1
  <2>5. Fresh(node.offered)'
    BY <2>1, <2>4, Zenon
  <2> QED BY <2>2, <2>3, <2>5 DEF Waiting
<1>7. InUse'
  BY <1>1, <1>3 DEF SignerIInv, InUse, AtMost, Empty, Request
<1> QED BY <1>4, <1>6, <1>7 DEF SignerIInv

\* The node is restarted, and its connections with it.
LEMMA RestartNodeIInv ==
  ASSUME SignerIInv, RestartNode
  PROVE  SignerIInv'
<1>1. /\ node' = NewListener(node.next) /\ backlog' = <<>> /\ signer' = signer /\ answered' = answered
  BY Zenon DEF RestartNode
<1>2. /\ node' \in NodeTypes /\ node'.conn = None /\ node'.offered = None /\ node'.pc = "none"
      /\ node'.mtx = None
  BY <1>1 DEF SignerIInv, TypeInv, NodeTypes, NewListener
<1>3. /\ conns' \in [Conns -> ConnTypes]
      /\ \A d \in Conns : /\ conns'[d].signer = conns[d].signer
                          /\ conns'[d].req \in {None, conns[d].req}
  <2> DEFINE Reset(d) == IF conns[d].signer THEN [conns[d] EXCEPT !.node = FALSE, !.reset = TRUE]
                         ELSE Unused
             New(d) == IF d = node.conn \/ d = node.offered THEN Closed(conns, d)[d]
                       ELSE IF d \in {backlog[i] : i \in DOMAIN backlog} THEN Reset(d)
                       ELSE conns[d]
  <2>1. ASSUME NEW d \in Conns
        PROVE  /\ New(d) \in ConnTypes /\ New(d).signer = conns[d].signer
               /\ New(d).req \in {None, conns[d].req}
    <3>1. /\ Closed(conns, d)[d] \in ConnTypes /\ Closed(conns, d)[d].signer = conns[d].signer
          /\ Closed(conns, d)[d].req \in {None, conns[d].req}
      BY ClosedConn DEF SignerIInv
    <3>2. conns[d] \in ConnTypes
      BY DEF SignerIInv, TypeInv
    <3>3. /\ Reset(d) \in ConnTypes /\ Reset(d).signer = conns[d].signer
          /\ Reset(d).req \in {None, conns[d].req}
      <4>1. CASE conns[d].signer = TRUE
        BY <3>2, <4>1, Zenon DEF ConnTypes
      <4>2. CASE conns[d].signer = FALSE
        BY <3>2, <4>2, UnusedConn DEF ConnTypes
      <4> QED BY <3>2, <4>1, <4>2, Zenon DEF ConnTypes
    <3> HIDE DEF Reset
    <3> QED BY <3>1, <3>2, <3>3
  <2>2. conns' = [d \in Conns |-> New(d)]
    BY Zenon DEF RestartNode
  <2> HIDE DEF New
  <2> QED BY <2>1, <2>2, Zenon
<1>4. TypeInv' /\ AnswerMatches'
  BY <1>1, <1>2, <1>3 DEF SignerIInv, TypeInv, AnswerMatches
<1>5. SignerEnd'
  BY <1>1, <1>3 DEF SignerIInv, SignerEnd
<1>6. Waiting' /\ InUse'
  BY <1>1, <1>2 DEF Waiting, InUse
<1> QED BY <1>4, <1>5, <1>6 DEF SignerIInv

\* A connection in use is not dialed again: the node's end of it is open.
LEMMA DialIInv ==
  ASSUME SignerIInv, Dial
  PROVE  SignerIInv'
<1>1. PICK c \in Conns : /\ conns[c] = Unused
                         /\ conns' = [conns EXCEPT ![c].node = TRUE, ![c].signer = TRUE]
                         /\ signer' = [signer EXCEPT !.conn = c] /\ backlog' = Append(backlog, c)
  BY Zenon DEF Dial
<1>2. /\ signer.conn = None /\ signer.req = None /\ node' = node /\ answered' = answered
  BY DEF Dial, SignerIInv, SignerEnd
<1>3. /\ conns' \in [Conns -> ConnTypes] /\ \A d \in Conns \ {c} : conns'[d] = conns[d]
      /\ conns'[c].node = TRUE /\ conns'[c].signer = TRUE
      /\ conns'[c].req = None /\ conns'[c].resp = None
  BY <1>1 DEF SignerIInv, TypeInv, ConnTypes, Unused, Messages
<1>4. signer' \in [conn : Conns \cup {None}, req : Messages] /\ signer'.conn = c /\ signer'.req = None
  BY <1>1, <1>2, Zenon DEF SignerIInv, TypeInv
<1>5. /\ backlog' \in Seq(Conns) /\ Len(backlog) \in Nat /\ Len(backlog') = Len(backlog) + 1
      /\ \A i \in 1..Len(backlog) : backlog'[i] = backlog[i]
      /\ backlog'[Len(backlog) + 1] = c
  BY <1>1, SeqAppend, SeqElement DEF SignerIInv, TypeInv
<1>6. TypeInv' /\ AnswerMatches'
  BY <1>2, <1>3, <1>4, <1>5 DEF SignerIInv, TypeInv, AnswerMatches
<1>7. SignerEnd'
  BY <1>2, <1>3, <1>4, SignerAssumption DEF SignerIInv, SignerEnd, Conns
<1>8. conns[c].node = FALSE
  BY <1>1, UnusedConn
<1>9. \A d \in Conns : Fresh(d) => Fresh(d)' /\ d # c
  BY <1>2, <1>3, <1>4, <1>8, Zenon DEF Fresh, Empty
<1>10. Fresh(c)'
  <2>1. c # node.conn
    BY <1>8, SignerAssumption DEF SignerIInv, InUse, Conns
  <2> QED BY <1>2, <1>3, <1>4, <2>1 DEF Fresh, Empty
<1>11. Waiting'
  <2>1. node.offered \in Conns \cup {None}
    BY DEF SignerIInv, TypeInv, NodeTypes
  <2>2. node'.offered # None => Fresh(node.offered)' /\ node.offered # c
    BY <1>2, <1>9, <2>1 DEF SignerIInv, Waiting
  <2>3. ASSUME NEW i \in 1..Len(backlog)
        PROVE  /\ backlog[i] \in Conns /\ backlog[i] # c /\ backlog[i] # node.offered
               /\ \A d \in Conns : d = backlog[i] => Fresh(d)'
    BY <1>9, SeqElement DEF SignerIInv, TypeInv, Waiting
  <2>4. ASSUME NEW i \in 1..Len(backlog')
        PROVE  Fresh(backlog[i])' /\ backlog'[i] # node'.offered
    <3>1. CASE i \in 1..Len(backlog)
      BY <1>2, <1>5, <2>3, <3>1
    <3>2. CASE i = Len(backlog) + 1
      BY <1>2, <1>5, <1>10, <2>2, <3>2, SignerAssumption DEF Conns
    <3> QED BY <1>5, <3>1, <3>2
  <2>5. ASSUME NEW i \in 1..Len(backlog'), NEW j \in 1..Len(backlog'), backlog'[i] = backlog'[j]
        PROVE  i = j
    <3>1. \A k \in 1..Len(backlog') : k \in 1..Len(backlog) \/ k = Len(backlog) + 1
      BY <1>5
    <3>2. \A k \in 1..Len(backlog) : backlog'[k] # c /\ backlog'[k] = backlog[k]
      BY <1>5, <2>3, Zenon
    <3> QED BY <1>5, <2>5, <3>1, <3>2 DEF SignerIInv, Waiting
  <2> QED BY <2>2, <2>4, <2>5 DEF Waiting
<1>12. InUse'
  <2>1. node.conn # None => node.conn \in Conns /\ node.conn # c
    BY <1>8 DEF SignerIInv, TypeInv, NodeTypes, InUse
  <2> QED BY <1>2, <1>3, <1>4, <2>1 DEF SignerIInv, InUse, AtMost, Empty, Request
<1> QED BY <1>6, <1>7, <1>11, <1>12 DEF SignerIInv

\* The signer reads a request, or finds its connection closed.
LEMMA SignerReadIInv ==
  ASSUME SignerIInv, SignerRead
  PROVE  SignerIInv'
<1>1. PICK c \in Conns : c = signer.conn
  BY DEF SignerIInv, TypeInv, SignerRead
<1>2. /\ signer.req = None /\ node' = node /\ backlog' = backlog /\ answered' = answered
  BY DEF SignerRead
<1>3. CASE /\ conns[c].req # None /\ signer' = [signer EXCEPT !.req = conns[c].req]
           /\ conns' = [conns EXCEPT ![c].req = None]
  <2>1. /\ conns' \in [Conns -> ConnTypes] /\ \A d \in Conns \ {c} : conns'[d] = conns[d]
        /\ conns'[c].req = None /\ conns'[c].resp = conns[c].resp
        /\ conns'[c].node = conns[c].node /\ conns'[c].signer = conns[c].signer
    BY <1>3, Zenon DEF SignerIInv, TypeInv, ConnTypes, Messages
  <2>2. /\ signer' \in [conn : Conns \cup {None}, req : Messages]
        /\ signer'.conn = c /\ signer'.req = conns[c].req
    BY <1>1, <1>3, Zenon DEF SignerIInv, TypeInv, ConnTypes
  <2>3. TypeInv' /\ AnswerMatches'
    BY <1>2, <2>1, <2>2 DEF SignerIInv, TypeInv, AnswerMatches
  <2>4. SignerEnd'
    BY <1>1, <2>1, <2>2, SignerAssumption DEF SignerIInv, SignerEnd, Conns
  <2>5. Waiting'
    <3>1. \A d \in Conns : Fresh(d) => conns'[d].node = TRUE /\ Empty(d)'
      BY <1>3, <2>1, <2>2 DEF Fresh, Empty
    <3> QED BY <1>2, <3>1, WaitingKept, Zenon
  <2>6. InUse'
    <3>1. CASE node.conn = c
      <4>1. node.pc \in {"sent", "read"} /\ AtMost(c, Request) /\ conns[c].node = TRUE
        BY <1>3, <3>1, SignerAssumption DEF SignerIInv, InUse, Empty, Conns
      <4>2. AtMost(node.conn, Request)'
        BY <1>1, <1>2, <1>3, <2>1, <2>2, <3>1, <4>1, Zenon DEF AtMost, Request
      <4> QED BY <1>2, <2>1, <3>1, <4>1, <4>2, Zenon DEF SignerIInv, InUse
    <3>2. CASE node.conn # c
      <4>1. node.conn # None => node.conn \in Conns
        BY DEF SignerIInv, TypeInv, NodeTypes
      <4> QED BY <1>1, <1>2, <2>1, <2>2, <3>2, <4>1 DEF SignerIInv, InUse, AtMost, Empty, Request
    <3> QED BY <3>1, <3>2
  <2> QED BY <2>3, <2>4, <2>5, <2>6 DEF SignerIInv
<1>4. CASE signer' = [signer EXCEPT !.conn = None] /\ conns' = SignerDrop(c)
  <2>1. /\ conns' \in [Conns -> ConnTypes] /\ \A d \in Conns \ {c} : conns'[d] = conns[d]
        /\ conns'[c].signer = FALSE /\ conns'[c].req = None /\ conns'[c].node = conns[c].node
        /\ conns'[c].resp \in {None, conns[c].resp}
    BY <1>4, SignerDropConn, Zenon DEF SignerIInv
  <2>2. /\ signer' \in [conn : Conns \cup {None}, req : Messages]
        /\ signer'.conn = None /\ signer'.req = None
    BY <1>2, <1>4 DEF SignerIInv, TypeInv
  <2>3. TypeInv' /\ AnswerMatches'
    BY <1>2, <2>1, <2>2 DEF SignerIInv, TypeInv, AnswerMatches
  <2>4. SignerEnd'
    BY <1>1, <2>1, <2>2, SignerAssumption DEF SignerIInv, SignerEnd, Conns
  <2>5. Waiting'
    <3>1. \A d \in Conns : Fresh(d) => conns'[d].node = TRUE /\ Empty(d)'
      BY <2>1, <2>2, SignerAssumption DEF Fresh, Empty, Conns
    <3> QED BY <1>2, <3>1, WaitingKept, Zenon
  <2>6. InUse'
    <3>1. node.conn # None => node.conn \in Conns
      BY DEF SignerIInv, TypeInv, NodeTypes
    <3>2. node.conn # None /\ AtMost(node.conn, Request) => AtMost(node.conn, Request)'
      BY <1>2, <2>1, <2>2, <3>1 DEF AtMost, Request
    <3>3. node.conn # None /\ Empty(node.conn) => Empty(node.conn)'
      BY <1>2, <2>1, <2>2, <3>1 DEF Empty
    <3>4. node.conn # None => conns'[node.conn].node = conns[node.conn].node
      BY <2>1, <3>1
    <3> QED BY <1>2, <3>2, <3>3, <3>4, Zenon DEF SignerIInv, InUse
  <2> QED BY <2>3, <2>4, <2>5, <2>6 DEF SignerIInv
<1> QED BY <1>1, <1>3, <1>4 DEF SignerRead

\* The answer goes to the connection its request came from.
LEMMA ReplyIInv ==
  ASSUME SignerIInv, Reply
  PROVE  SignerIInv'
<1>1. signer.req # None /\ node' = node /\ backlog' = backlog /\ answered' = answered
  BY DEF Reply
<1>2. PICK c \in Conns : c = signer.conn
  BY <1>1 DEF SignerIInv, TypeInv, SignerEnd
<1>3. /\ conns[c].node \in BOOLEAN /\ \A d \in Conns : Fresh(d) => d # c
  BY <1>1, <1>2 DEF SignerIInv, TypeInv, ConnTypes, Fresh, Empty
<1>4. node.conn # None => node.conn \in Conns
  BY DEF SignerIInv, TypeInv, NodeTypes
<1>5. CASE conns[c].node = TRUE
  <2>1. /\ conns' = [conns EXCEPT ![c].resp = signer.req]
        /\ signer' = [signer EXCEPT !.req = None]
    BY <1>2, <1>5 DEF Reply
  <2>2. /\ conns' \in [Conns -> ConnTypes] /\ \A d \in Conns \ {c} : conns'[d] = conns[d]
        /\ conns'[c].resp = signer.req /\ conns'[c].req = conns[c].req
        /\ conns'[c].node = conns[c].node /\ conns'[c].signer = conns[c].signer
    BY <2>1 DEF SignerIInv, TypeInv, ConnTypes
  <2>3. /\ signer' \in [conn : Conns \cup {None}, req : Messages]
        /\ signer'.conn = c /\ signer'.req = None
    BY <1>2, <2>1 DEF SignerIInv, TypeInv, Messages
  <2>4. TypeInv' /\ AnswerMatches'
    BY <1>1, <2>2, <2>3 DEF SignerIInv, TypeInv, AnswerMatches
  <2>5. SignerEnd'
    BY <1>2, <2>2, <2>3 DEF SignerIInv, SignerEnd
  <2>6. Waiting'
    <3>1. \A d \in Conns : Fresh(d) => conns'[d].node = TRUE /\ Empty(d)'
      BY <1>3, <2>2, <2>3 DEF Fresh, Empty
    <3> QED BY <1>1, <3>1, WaitingKept, Zenon
  <2>7. InUse'
    <3>1. CASE node.conn = c
      <4>1. node.pc \in {"sent", "read"} /\ AtMost(c, Request)
        BY <1>1, <1>2, <3>1, SignerAssumption DEF SignerIInv, InUse, Empty, Conns
      <4>2. AtMost(node.conn, Request)'
        BY <1>1, <1>2, <2>2, <2>3, <3>1, <4>1 DEF AtMost, Request
      <4> QED BY <1>1, <1>5, <2>2, <3>1, <4>1, <4>2 DEF SignerIInv, InUse
    <3>2. CASE node.conn # c
      BY <1>1, <1>2, <1>4, <2>2, <2>3, <3>2 DEF SignerIInv, InUse, AtMost, Empty, Request
    <3> QED BY <3>1, <3>2
  <2> QED BY <2>4, <2>5, <2>6, <2>7 DEF SignerIInv
<1>6. CASE conns[c].node = FALSE
  <2>1. signer' = [conn |-> None, req |-> None] /\ conns' = SignerDrop(c)
    BY <1>2, <1>6, Zenon DEF Reply
  <2>2. /\ conns' \in [Conns -> ConnTypes] /\ \A d \in Conns \ {c} : conns'[d] = conns[d]
        /\ conns'[c].signer = FALSE /\ conns'[c].req = None
    BY <2>1, SignerDropConn, Zenon DEF SignerIInv
  <2>3. TypeInv' /\ AnswerMatches'
    BY <1>1, <2>1, <2>2 DEF SignerIInv, TypeInv, AnswerMatches, Messages
  <2>4. SignerEnd'
    BY <1>2, <2>1, <2>2, SignerAssumption DEF SignerIInv, SignerEnd, Conns
  <2>5. Waiting'
    <3>1. \A d \in Conns : Fresh(d) => conns'[d].node = TRUE /\ Empty(d)'
      BY <1>3, <2>1, <2>2, SignerAssumption, Zenon DEF Fresh, Empty, Conns
    <3> QED BY <1>1, <3>1, WaitingKept, Zenon
  <2>6. InUse'
    <3>1. node.conn # c
      BY <1>6, SignerAssumption DEF SignerIInv, InUse, Conns
    <3> QED BY <1>1, <1>2, <1>4, <2>1, <2>2, <3>1 DEF SignerIInv, InUse, AtMost, Empty, Request
  <2> QED BY <2>3, <2>4, <2>5, <2>6 DEF SignerIInv
<1> QED BY <1>3, <1>5, <1>6, Zenon

\* Every step keeps the invariant.
LEMMA SignerNextIInv ==
  ASSUME SignerIInv, [SignerNext]_rsVars
  PROVE  SignerIInv'
<1>1. CASE UNCHANGED rsVars
  BY <1>1, Zenon
  DEF rsVars, SignerIInv, TypeInv, SignerEnd, Waiting, Fresh, InUse, AtMost, Empty, Request, AnswerMatches
<1> QED
  BY <1>1, SendRequestIInv, WaitConnectionIInv, WriteMessageIInv, BeginReadIInv, ReadAnswerIInv,
     ReadTimeoutIInv, ReadEOFIInv, ReconnectIInv, ServiceLoopIInv, RestartNodeIInv, DialIInv,
     SignerReadIInv, ReplyIInv, Zenon
  DEF SignerNext

\* SendRequest never returns the answer to an earlier request or to a ping: an answer
\* that comes after the read timed out stays on a connection that was dropped, whoever
\* drops and redials connections meanwhile, for any number of connections, requests and
\* restarts of the node.
THEOREM AnswerMatchesHolds == SignerSpec => []AnswerMatches
<1>1. SignerInit => SignerIInv
  BY SignerInitIInv
<1>2. SignerIInv /\ [SignerNext]_rsVars => SignerIInv'
  BY SignerNextIInv
<1>3. SignerIInv => AnswerMatches
  BY DEF SignerIInv
<1> QED BY <1>1, <1>2, <1>3, PTL DEF SignerSpec
================================================================================
