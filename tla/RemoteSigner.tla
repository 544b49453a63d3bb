---------------------------- MODULE RemoteSigner ----------------------------
(* The connection between a node and a remote signer: SignerListenerEndpoint   *)
(* with its serviceLoop and pingLoop on the node's side (two callers of        *)
(* SendRequest: the pings and the consensus state, which retries), the dialer   *)
(* endpoint and SignerServer on the other.  A connection is a pair of streams;  *)
(* reading one that the other side closed gives EOF, and a reset if data of     *)
(* ours met the closed side.  Only a timeout or a reset drops the connection,   *)
(* EOF does not (signerEndpoint.ReadMessage).                                   *)
EXTENDS Integers, Sequences

CONSTANTS
    MaxConns,       \* connections at a time
    MaxSigns,       \* requests of consensus
    MaxNodeStarts,  \* restarts of the node
    None

Conns == 1..MaxConns
Callers == {"ping", "sign"}

ASSUME SignerAssumption ==
    MaxConns \in Nat /\ MaxSigns \in Nat /\ None \notin Nat /\ None \notin Callers

VARIABLES
    node,       \* the listener endpoint, its loops and the caller that has instanceMtx
    signer,     \* the dialer endpoint and the request being handled
    conns,      \* the connections
    backlog,    \* dialed and not yet accepted
    answered,   \* the last request answered, and with what
    starts

rsVars == <<node, signer, conns, backlog, answered, starts>>

Unused == [node |-> FALSE, signer |-> FALSE, req |-> None, resp |-> None, reset |-> FALSE]

\* After OnStart: serviceLoop accepts.
NewListener(next) ==
    [conn |-> None, loop |-> "accept", offered |-> None, mtx |-> None, pc |-> "none",
     next |-> next, reconnect |-> FALSE]

SignerStart(on) ==
    /\ node = NewListener(IF on THEN 1 ELSE MaxSigns + 1)
    /\ signer = [conn |-> None, req |-> None] /\ conns = [c \in Conns |-> Unused]
    /\ backlog = <<>> /\ answered = <<None, None>> /\ starts = (IF on THEN 0 ELSE -1)
SignerInit == SignerStart(TRUE)
Live == starts >= 0

Request == IF node.mtx = "ping" THEN 0 ELSE node.next

----------------------------------------------------------------------------
(* The node.                                                                 *)

\* Closing with an answer unread resets the connection.
Closed(cs, c) ==
    IF c = None THEN cs
    ELSE [cs EXCEPT ![c] = IF cs[c].signer
                           THEN [cs[c] EXCEPT !.node = FALSE, !.reset = cs[c].reset \/ cs[c].resp # None]
                           ELSE Unused]

triggerConnect(n) == IF n.loop = "idle" THEN [n EXCEPT !.loop = "accept"] ELSE n

\* ensureConnection: the one there is, one that is offered, or wait for one.
ensureConnection(n) ==
    CASE n.conn # None -> [n EXCEPT !.pc = "write"]
      [] n.conn = None /\ n.offered # None ->
            [n EXCEPT !.pc = "write", !.conn = n.offered, !.offered = None, !.loop = "idle"]
      [] OTHER -> [triggerConnect(n) EXCEPT !.pc = "wait"]

SendRequest(p) ==
    /\ Live /\ node.mtx = None
    /\ IF p = "ping" THEN ~node.reconnect ELSE node.next <= MaxSigns
    /\ node' = ensureConnection([node EXCEPT !.mtx = p])
    /\ UNCHANGED <<signer, conns, backlog, answered, starts>>

\* Mutant: a failed ping is only logged.
FailedLogged(n) == [n EXCEPT !.mtx = None, !.pc = "none"]

\* SendRequest returns an error; pingLoop will reconnect, consensus will retry.
Failed(n) == [n EXCEPT !.mtx = None, !.pc = "none", !.reconnect = n.reconnect \/ n.mtx = "ping"]

Drop(n) == [n EXCEPT !.conn = None]

WaitConnection ==
    /\ node.pc = "wait"
    /\ \/ /\ node.offered # None
          /\ node' = [node EXCEPT !.pc = "write", !.conn = node.offered, !.offered = None, !.loop = "idle"]
       \/ node.offered = None /\ node' = Failed(node)
    /\ UNCHANGED <<signer, conns, backlog, answered, starts>>

\* Nothing tells the writer that the other side has closed, or only a reset does.
WriteMessage ==
    LET c == node.conn
    IN  /\ node.pc = "write"
        /\ \/ c = None /\ node' = Failed(node) /\ UNCHANGED conns
           \/ /\ c # None /\ conns[c].signer
              /\ node' = [node EXCEPT !.pc = "sent"]
              /\ conns' = [conns EXCEPT ![c].req = Request]
           \/ /\ c # None /\ ~conns[c].signer
              /\ \/ node' = [node EXCEPT !.pc = "sent"] /\ UNCHANGED conns
                 \/ node' = Drop(Failed(node)) /\ conns' = Closed(conns, c)
        /\ UNCHANGED <<signer, backlog, answered, starts>>

\* ReadMessage takes connMtx; the connection may have been dropped before.
BeginRead ==
    /\ node.pc = "sent"
    /\ node' = IF node.conn = None THEN Failed(node) ELSE [node EXCEPT !.pc = "read"]
    /\ UNCHANGED <<signer, conns, backlog, answered, starts>>

ReadAnswer ==
    /\ node.pc = "read" /\ conns[node.conn].resp # None
    /\ answered' = <<Request, conns[node.conn].resp>>
    /\ conns' = [conns EXCEPT ![node.conn].resp = None]
    /\ node' = [node EXCEPT !.mtx = None, !.pc = "none",
                            !.next = IF node.mtx = "sign" THEN @ + 1 ELSE @]
    /\ UNCHANGED <<signer, backlog, starts>>

\* Mutant: the connection is kept after a timeout.
ReadTimeoutKept ==
    /\ node.pc = "read" /\ conns[node.conn].signer /\ conns[node.conn].resp = None
    /\ node' = Failed(node)
    /\ UNCHANGED <<signer, conns, backlog, answered, starts>>

\* timeoutReadWrite passes: the connection is dropped.
ReadTimeout ==
    /\ node.pc = "read" /\ conns[node.conn].signer /\ conns[node.conn].resp = None
    /\ node' = Drop(Failed(node)) /\ conns' = Closed(conns, node.conn)
    /\ UNCHANGED <<signer, backlog, answered, starts>>

\* The signer has closed: EOF keeps the connection, a reset drops it.
ReadEOF ==
    /\ node.pc = "read" /\ ~conns[node.conn].signer /\ conns[node.conn].resp = None
    /\ \/ node' = Failed(node) /\ UNCHANGED conns
       \/ node' = Drop(Failed(node)) /\ conns' = Closed(conns, node.conn)
    /\ UNCHANGED <<signer, backlog, answered, starts>>

\* After a failed ping, without instanceMtx but with connMtx, which a caller that
\* waits for a connection or for an answer has.
triggerReconnect ==
    /\ node.reconnect /\ node.pc \notin {"wait", "read"}
    /\ node' = triggerConnect([Drop(node) EXCEPT !.reconnect = FALSE])
    /\ conns' = Closed(conns, node.conn)
    /\ UNCHANGED <<signer, backlog, answered, starts>>

\* serviceLoop accepts a connection and offers it to whoever needs one.
serviceLoop ==
    /\ node.loop = "accept" /\ backlog # <<>>
    /\ node' = [node EXCEPT !.loop = "offer", !.offered = Head(backlog)]
    /\ backlog' = Tail(backlog)
    /\ UNCHANGED <<signer, conns, answered, starts>>

\* OnStop and a new start; what was not accepted is reset with the listener.
RestartNode ==
    /\ Live /\ starts < MaxNodeStarts /\ starts' = starts + 1
    /\ node' = NewListener(node.next) /\ backlog' = <<>>
    /\ conns' = [c \in Conns |->
                    IF c = node.conn \/ c = node.offered THEN Closed(conns, c)[c]
                    ELSE IF c \in {backlog[i] : i \in DOMAIN backlog}
                    THEN (IF conns[c].signer THEN [conns[c] EXCEPT !.node = FALSE, !.reset = TRUE]
                          ELSE Unused)
                    ELSE conns[c]]
    /\ UNCHANGED <<signer, answered>>

----------------------------------------------------------------------------
(* The signer: serviceLoop, ensureConnection and servicePendingRequest.      *)

SignerDrop(c) == [conns EXCEPT ![c] = IF @.node THEN [@ EXCEPT !.signer = FALSE, !.req = None]
                                      ELSE Unused]

Dial ==
    /\ Live /\ signer.conn = None
    /\ \E c \in Conns :
          /\ conns[c] = Unused
          /\ conns' = [conns EXCEPT ![c].node = TRUE, ![c].signer = TRUE]
          /\ signer' = [signer EXCEPT !.conn = c] /\ backlog' = Append(backlog, c)
    /\ UNCHANGED <<node, answered, starts>>

\* A request, a reset, or nothing for the whole timeout; EOF changes nothing.
SignerRead ==
    LET c == signer.conn
    IN  /\ c # None /\ signer.req = None
        /\ \/ /\ conns[c].req # None /\ ~conns[c].reset
              /\ signer' = [signer EXCEPT !.req = conns[c].req]
              /\ conns' = [conns EXCEPT ![c].req = None]
           \/ /\ conns[c].reset \/ (conns[c].node /\ conns[c].req = None)
              /\ signer' = [signer EXCEPT !.conn = None] /\ conns' = SignerDrop(c)
        /\ UNCHANGED <<node, backlog, answered, starts>>

\* Signing and the answer.
Reply ==
    LET c == signer.conn
    IN  /\ signer.req # None
        /\ IF conns[c].node
           THEN /\ conns' = [conns EXCEPT ![c].resp = signer.req]
                /\ signer' = [signer EXCEPT !.req = None]
           ELSE signer' = [conn |-> None, req |-> None] /\ conns' = SignerDrop(c)
        /\ UNCHANGED <<node, backlog, answered, starts>>

SignerNext ==
    \/ \E p \in Callers : SendRequest(p)
    \/ WaitConnection \/ WriteMessage \/ BeginRead \/ ReadAnswer \/ ReadTimeout \/ ReadEOF
    \/ triggerReconnect \/ serviceLoop \/ RestartNode
    \/ Dial \/ SignerRead \/ Reply

\* Goroutines run; a Go mutex does not starve the ping loop.
Calls == WaitConnection \/ WriteMessage \/ BeginRead \/ ReadAnswer \/ ReadTimeout \/ ReadEOF
SignerGoesOn == Dial \/ SignerRead \/ Reply

SignerFairness ==
    /\ SF_rsVars(SendRequest("ping"))
    /\ WF_rsVars(Calls)
    /\ SF_rsVars(triggerReconnect) /\ WF_rsVars(serviceLoop)
    /\ WF_rsVars(SignerGoesOn)

SignerSpec == SignerInit /\ [][SignerNext]_rsVars /\ SignerFairness

----------------------------------------------------------------------------
SignerTypeOK ==
    /\ node.conn \in Conns \cup {None} /\ node.offered \in Conns \cup {None}
    /\ node.mtx \in Callers \cup {None} /\ signer.conn \in Conns \cup {None}
    /\ node.loop \in {"idle", "accept", "offer"} /\ (node.loop = "offer") = (node.offered # None)

\* The answer a caller gets is the answer to its own request: one that comes
\* after a timeout is never taken for the next (SignVote copies it unchecked).
AnswerMatches == answered[1] = answered[2]

Dead == node.conn # None /\ ~conns[node.conn].signer

\* The node gives up a connection that the signer has closed, through its pings.
DeadDropped == Dead ~> ~Dead
=============================================================================
