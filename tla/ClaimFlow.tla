----------------------------- MODULE ClaimFlow -----------------------------
(***************************************************************************)
(* Calls of createClaimOnWitness (create-claim/create-claim-on-witness.js) *)
(* that run together: the connection they share through the pool           *)
(* (witness-pool.js, client/index.js), the RPC tunnel and the TLS session  *)
(* of each attempt (tunnels/), the claim, and the retries                  *)
(* (utils/retries.js).  The witness and the network answer in any order,   *)
(* end a session or a tunnel at any moment, or refuse what they are asked. *)
(*                                                                         *)
(* A call that fails starts again with a new tunnel identifier: nothing of *)
(* the earlier attempt reaches it, so only the current attempt has a state.*)
(***************************************************************************)
EXTENDS Integers, FiniteSets

CONSTANTS
  Call,        \* the calls, all for the same witness
  MaxRetries,  \* maxRetries of executeWithRetries
  MaxClients,  \* connections the model may make
  None         \* no connection

Client == 1 .. MaxClients

ASSUME ClaimAssumption ==
  /\ MaxRetries \in Nat \ {0}
  /\ MaxClients \in Nat \ {0}
  /\ None \notin Client

VARIABLES
  given,  \* the application passes a client of its own, number 1
  pool,   \* POOL[url]
  conn,   \* the WitnessClients
  call    \* the current attempt of each call

vars == <<given, pool, conn, call>>

\* "alert" is a BAD_REQUEST that came with the end of the connection, "none" an
\* undefined error; "tls" and "internal" are no WitnessErrors; "network" stands
\* for every code that is retried.
Error == {"network", "badRequest", "alert", "invalidClaim", "tls", "internal",
          "none"}

\* What may become of a proof: the fetch of a key fails with a WitnessError,
\* everything else with an error of another class.
ProofError == {"network", "internal"}

\* "doomed" is the error for which the witness rejects the connection;
\* "awaited" that somebody listens to waitForInitPromise.
Connection ==
  [ws : {"none", "connecting", "open", "closing", "closed"},
   init : {"pending", "ok", "rejected"}, awaited : BOOLEAN,
   doomed : {"no", "network", "badRequest", "told"}]

\* "srv" is the tunnel of the witness, "closed" that of the RPC tunnel,
\* "ended" says that the TLS session has called onClose.
Attempt ==
  [pc : {"start", "creating", "handshaking", "writing", "waiting",
         "disconnecting", "proving", "claiming", "claimed", "failed"},
   attempt : 0 .. MaxRetries, client : Client \cup {None}, created : BOOLEAN,
   sent : BOOLEAN, srv : {"none", "open", "closed"}, closed : BOOLEAN,
   ended : BOOLEAN, complete : BOOLEAN,
   allData : {"none", "pending", "resolved", "rejected"}, err : Error \cup {"unset"}]

Fresh(n) == [pc |-> "start", attempt |-> n, client |-> None, created |-> FALSE,
             sent |-> FALSE, srv |-> "none", closed |-> FALSE, ended |-> FALSE,
             complete |-> FALSE, allData |-> "none", err |-> "unset"]

isOpen(c) == conn[c].ws = "open"
isClosed(c) == conn[c].ws \in {"closing", "closed"}

Uses(k, c) == call[k].client = c

shouldRetry(err) == err = "network"

\* An attempt throws: executeWithRetries counts it and tries again or throws.
Failed(x, err) ==
  IF shouldRetry(err) /\ x.attempt + 1 < MaxRetries THEN Fresh(x.attempt + 1)
  ELSE [Fresh(x.attempt + 1) EXCEPT !.pc = "failed", !.err = err,
                                    !.created = x.created,
                                    !.client = x.client]

\* Mutant: a session that fails ends the wait like one that is over.
ConnectionClosedQuietly(x, err) ==
  CASE x.ended -> x
    [] ~x.ended /\ x.pc = "handshaking" -> Failed(x, err)
    [] OTHER -> [x EXCEPT !.ended = TRUE,
                          !.err = IF x.allData = "pending" THEN err ELSE @,
                          !.allData = IF @ = "pending" THEN "resolved" ELSE @]

\* onConnectionClose of the TLS tunnel, with onClose of the attempt: the
\* handshake, or else the wait for the response, ends.
ConnectionClosed(x, err) ==
  CASE x.ended -> x
    [] ~x.ended /\ x.pc = "handshaking" -> Failed(x, err)
    [] OTHER -> [x EXCEPT !.ended = TRUE,
                          !.err = IF x.allData = "pending" THEN err ELSE @,
                          !.allData = IF @ # "pending" THEN @
                                      ELSE IF err = "none" THEN "resolved"
                                                           ELSE "rejected"]

\* onErrorRecv of the RPC tunnel.
TunnelClosed(x, err) ==
  LET y == ConnectionClosed(x, err)
  IN  IF y.pc = x.pc THEN [y EXCEPT !.closed = TRUE, !.srv = "closed"] ELSE y

\* Mutant: waitForResponse does not listen for the end of the connection.
TerminatedTunnel(x, err) ==
  IF x.pc \in {"handshaking", "writing", "waiting"} /\ ~x.closed
  THEN TunnelClosed(x, err) ELSE x

\* The listeners of 'connection-terminated' of an attempt: that of its RPC
\* tunnel, and that of the response it waits for.
Terminated(x, err) ==
  CASE x.pc \in {"creating", "claiming"} -> Failed(x, err)
    [] x.pc \in {"handshaking", "writing", "waiting"} /\ ~x.closed ->
         TunnelClosed(x, err)
    [] x.pc = "disconnecting" ->
         [x EXCEPT !.pc = "proving", !.srv = "closed"]
    [] OTHER -> x

-----------------------------------------------------------------------------
(* The connections.                                                         *)

\* waitForInitPromise of a connection that is being made.
NewConnection(awaited) ==
  [ws |-> "connecting", init |-> "pending", awaited |-> awaited,
   doomed |-> "no"]

NoConnection == [NewConnection(FALSE) EXCEPT !.ws = "none"]

Init ==
  /\ given \in BOOLEAN
  /\ pool = None
  /\ conn = [c \in Client |-> IF given /\ c = 1 THEN NewConnection(TRUE)
                                                ELSE NoConnection]
  /\ call = [k \in Call |-> Fresh(0)]

\* 'connection-terminated' is dispatched on c, whose socket is then in state ws.
Terminate(c, err, ws) ==
  /\ call' = [k \in Call |-> IF Uses(k, c) THEN Terminated(call[k], err)
                                           ELSE call[k]]
  /\ conn' = [conn EXCEPT ![c].ws = ws,
                          ![c].init = IF @ = "pending" THEN "rejected" ELSE @]
  /\ UNCHANGED <<given, pool>>

Opened(c) ==
  /\ conn[c].ws = "connecting"
  /\ conn' = [conn EXCEPT ![c].ws = "open"]
  /\ UNCHANGED <<given, pool, call>>

\* The socket fails: it is closing when the error is dispatched.
Errored(c) ==
  /\ conn[c].ws \in {"connecting", "open"}
  /\ Terminate(c, "network", "closing")

\* The close handshake begins, and nobody is told yet.
Closing(c) ==
  /\ isOpen(c)
  /\ conn' = [conn EXCEPT ![c].ws = "closing"]
  /\ UNCHANGED <<given, pool, call>>

Closed(c) ==
  /\ conn[c].ws = "closing"
  /\ Terminate(c, "network", "closed")

\* The witness accepts the init request: who waits for it sends its messages.
InitAccepted(c) ==
  /\ isOpen(c)
  /\ conn[c].init = "pending"
  /\ conn' = [conn EXCEPT ![c].init = "ok"]
  /\ call' = [k \in Call |-> IF Uses(k, c) /\ call[k].pc = "creating"
                             THEN [call[k] EXCEPT !.sent = TRUE] ELSE call[k]]
  /\ UNCHANGED <<given, pool>>

\* It does not: the rest of the query is lost and the connection rejected.
InitRefused(c) ==
  /\ isOpen(c)
  /\ conn[c].init = "pending"
  /\ conn' = [conn EXCEPT ![c].init = "rejected", ![c].doomed = "badRequest"]
  /\ UNCHANGED <<given, pool, call>>

\* The alert of a connection whose initial messages failed.
Alert(c) ==
  /\ isOpen(c)
  /\ conn[c].doomed \in {"network", "badRequest"}
  /\ LET err == IF conn[c].doomed = "network" THEN "network" ELSE "alert"
     IN  call' = [k \in Call |-> IF Uses(k, c) THEN Terminated(call[k], err)
                                               ELSE call[k]]
  /\ conn' = [conn EXCEPT ![c].doomed = "told"]
  /\ UNCHANGED <<given, pool>>

-----------------------------------------------------------------------------
(* A call.                                                                  *)

Set(k, x) == call' = [call EXCEPT ![k] = x]

At(k, pc) == call[k].pc = pc
Online(k, pc) == At(k, pc) /\ isOpen(call[k].client)

\* The client that an attempt takes up: the application's, or the one of the
\* pool unless it is closed.
Reusable == IF given THEN {1}
            ELSE {c \in Client : c = pool /\ ~isClosed(c)}

Unused == {c \in Client : conn[c].ws = "none"}

\* connect() with an existing client: waitForInit throws, or the messages are
\* sent after it.
ConnectExisting(k) ==
  /\ At(k, "start")
  /\ \E c \in Reusable :
       IF isClosed(c)
       THEN Set(k, Failed(call[k], "network")) /\ UNCHANGED conn
       ELSE /\ Set(k, [call[k] EXCEPT !.pc = "creating", !.client = c,
                                      !.sent = conn[c].init = "ok"])
            /\ conn' = [conn EXCEPT ![c].awaited = @ \/ conn[c].init = "pending"]
  /\ UNCHANGED <<given, pool>>

\* Mutant: a connection that is not open yet is replaced.
ConnectUnlessOpen(k) ==
  /\ At(k, "start")
  /\ ~given
  /\ \A c \in Reusable : ~isOpen(c)
  /\ \E c \in Unused :
       /\ \A b \in Unused : c <= b
       /\ conn' = [conn EXCEPT ![c] = NewConnection(FALSE)]
       /\ pool' = c
       /\ Set(k, [call[k] EXCEPT !.pc = "creating", !.client = c,
                                 !.created = TRUE, !.sent = TRUE])
  /\ UNCHANGED given

\* connect() with a new client, which has the messages in its query.
ConnectNew(k) ==
  /\ At(k, "start")
  /\ Reusable = {}
  /\ \E c \in Unused :
       /\ \A b \in Unused : c <= b
       /\ conn' = [conn EXCEPT ![c] = NewConnection(FALSE)]
       /\ pool' = c
       /\ Set(k, [call[k] EXCEPT !.pc = "creating", !.client = c,
                                 !.created = TRUE, !.sent = TRUE])
  /\ UNCHANGED given

\* The response to createTunnel.
TunnelCreated(k) ==
  /\ Online(k, "creating")
  /\ call[k].sent /\ conn[call[k].client].init = "ok"
  /\ Set(k, [call[k] EXCEPT !.pc = "handshaking", !.srv = "open"])
  /\ UNCHANGED <<given, pool, conn>>

\* It is refused; in the query this rejects the connection too.
TunnelRefused(k) ==
  /\ Online(k, "creating")
  /\ call[k].sent /\ conn[call[k].client].init = "ok"
  /\ \E err \in {"network", "badRequest"} :
       /\ Set(k, Failed(call[k], err))
       /\ conn' = IF call[k].created
                  THEN [conn EXCEPT ![call[k].client].doomed = err] ELSE conn
  /\ UNCHANGED <<given, pool>>

\* onHandshake: the attempt goes on to the request and its waitForAllData, or
\* createRequest throws, which leaves the tunnel open at the witness.
Handshake(k) ==
  /\ Online(k, "handshaking")
  /\ \/ Set(k, [call[k] EXCEPT !.pc = "writing", !.allData = "pending"])
     \/ Set(k, Failed(call[k], "internal"))
  /\ UNCHANGED <<given, pool, conn>>

\* The request is written, or that fails, which is caught.
Written(k) ==
  /\ At(k, "writing")
  /\ Set(k, [call[k] EXCEPT !.pc = "waiting"])
  /\ UNCHANGED <<given, pool, conn>>

\* The last byte of the HTTP response.
ResponseComplete(k) ==
  /\ Online(k, "writing") \/ Online(k, "waiting")
  /\ ~call[k].ended /\ ~call[k].closed /\ ~call[k].complete
  /\ Set(k, [call[k] EXCEPT !.complete = TRUE])
  /\ UNCHANGED <<given, pool, conn>>

\* 100 ms later.
ResponseTimer(k) ==
  /\ At(k, "writing") \/ At(k, "waiting")
  /\ call[k].complete
  /\ call[k].allData = "pending"
  /\ Set(k, [call[k] EXCEPT !.allData = "resolved"])
  /\ UNCHANGED <<given, pool, conn>>

\* The TLS session ends, by a close_notify ("none") or a failure.
TlsEnd(k) ==
  /\ \E pc \in {"handshaking", "writing", "waiting"} : Online(k, pc)
  /\ ~call[k].ended
  /\ \E err \in {"none", "tls"} : Set(k, ConnectionClosed(call[k], err))
  /\ UNCHANGED <<given, pool, conn>>

\* The tunnelDisconnectEvent of a socket that failed.
DisconnectEvent(k) ==
  /\ \E pc \in {"handshaking", "writing", "waiting"} : Online(k, pc)
  /\ ~call[k].closed
  /\ Set(k, TunnelClosed(call[k], "network"))
  /\ UNCHANGED <<given, pool, conn>>

\* waitForAllData is over: the attempt fails, or closes its tunnel and waits
\* for that unless the tunnel or the connection is closed already.
AllData(k) ==
  /\ At(k, "waiting")
  /\ CASE call[k].allData = "rejected" ->
            Set(k, Failed(call[k], call[k].err))
       [] call[k].allData = "resolved" ->
            LET waits == ~call[k].closed /\ isOpen(call[k].client)
            IN  Set(k, [call[k] EXCEPT !.ended = TRUE, !.closed = TRUE,
                                       !.pc = IF waits THEN "disconnecting"
                                                       ELSE "proving"])
       [] OTHER -> FALSE
  /\ UNCHANGED <<given, pool, conn>>

\* The response to disconnectTunnel.
Disconnected(k) ==
  /\ Online(k, "disconnecting")
  /\ Set(k, [call[k] EXCEPT !.pc = "proving", !.srv = "closed"])
  /\ UNCHANGED <<given, pool, conn>>

\* The transcript is proved and signed, and the claim is sent.
Proved(k) ==
  /\ At(k, "proving")
  /\ Set(k, IF isOpen(call[k].client)
            THEN [call[k] EXCEPT !.pc = "claiming"]
            ELSE Failed(call[k], "network"))
  /\ UNCHANGED <<given, pool, conn>>

\* The response is not what the provider expects, or a proof fails.
NotProvedFor(k, err) ==
  /\ At(k, "proving")
  /\ Set(k, Failed(call[k], err))
  /\ UNCHANGED <<given, pool, conn>>

NotProved(k) == \E err \in ProofError : NotProvedFor(k, err)

Claimed(k) ==
  /\ Online(k, "claiming")
  /\ Set(k, [call[k] EXCEPT !.pc = "claimed"])
  /\ UNCHANGED <<given, pool, conn>>

ClaimRefused(k) ==
  /\ Online(k, "claiming")
  /\ \E err \in {"invalidClaim", "badRequest", "network"} :
       Set(k, Failed(call[k], err))
  /\ UNCHANGED <<given, pool, conn>>

Connect(k) == ConnectExisting(k) \/ ConnectNew(k)

\* What the code does by itself: its promise jobs and its timer.
Local(k) == Connect(k) \/ Written(k) \/ ResponseTimer(k) \/ AllData(k)

\* What it does when the witness or the host answers.
Remote(k) ==
  \/ TunnelCreated(k) \/ TunnelRefused(k) \/ Handshake(k)
  \/ ResponseComplete(k) \/ TlsEnd(k) \/ DisconnectEvent(k)
  \/ Disconnected(k) \/ Claimed(k) \/ ClaimRefused(k)

Progress(k) == Local(k) \/ Remote(k) \/ Proved(k) \/ NotProved(k)

Answered(c) == Opened(c) \/ InitAccepted(c) \/ InitRefused(c) \/ Alert(c)

Next ==
  \/ \E k \in Call : Progress(k)
  \/ \E c \in Client : Answered(c) \/ Errored(c) \/ Closing(c) \/ Closed(c)

Spec == Init /\ [][Next]_vars

-----------------------------------------------------------------------------
TypeOK ==
  /\ given \in BOOLEAN
  /\ pool \in Client \cup {None}
  /\ conn \in [Client -> Connection]
  /\ call \in [Call -> Attempt]

\* A claim is made of a response that was complete or of a TLS session that
\* the host closed, never of one that was cut off; and its tunnel is closed at
\* the witness before, so that what is claimed cannot grow any more.
ClaimsWholeResponse ==
  \A k \in Call :
    /\ call[k].pc \in {"disconnecting", "proving", "claiming", "claimed"}
         => call[k].complete \/ call[k].err = "none"
    /\ call[k].pc \in {"claiming", "claimed"} => call[k].srv # "open"

\* However many calls find the pool empty or its client closed, one connection
\* to the witness is in use.
OneConnectionInUse ==
  \A b, c \in Client :
    conn[b].ws \in {"connecting", "open"} /\ conn[c].ws \in {"connecting", "open"}
      => b = c

\* What a call is to its caller.
Outcome(k) == CASE call[k].pc = "claimed" -> "resolved"
                [] call[k].pc = "failed" -> "rejected"
                [] OTHER -> "pending"

(* What the repository says of this code and the code does not do.          *)

\* create-claim-on-witness.js:133: an error in the middle of a write waits for
\* the end of the stream, which is reported by waitForAllData.
StreamEndIsAwaited ==
  \A k \in Call : ~(At(k, "writing") /\ call[k].allData = "rejected")

\* client/index.js:54: if the connection was terminated, the error is a network
\* error, which is retried; another call's error is not.
OtherCallsErrorIsRetried ==
  \A k \in Call :
    At(k, "failed") /\ call[k].err = "alert"
      => call[k].created \/ conn[call[k].client].init = "rejected"

\* utils/retries.js:5: a failure is retried; here one is thrown to nobody.
InitFailureIsHandled ==
  \A c \in Client : conn[c].init = "rejected" => conn[c].awaited
=============================================================================
