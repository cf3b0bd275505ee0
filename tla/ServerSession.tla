--------------------------- MODULE ServerSession ---------------------------
(***************************************************************************)
(* One WebSocket session of the witness server: the session object         *)
(* (server/socket.js), the handling of the packets it receives             *)
(* (client/message-handler.js), the RPC handlers (server/handlers) and the *)
(* TCP tunnels they open (server/tunnels/make-tcp-tunnel.js).              *)
(*                                                                         *)
(* A packet is a sequence of messages.  The messages of one packet are     *)
(* handled one after the other, each RPC being awaited; the packets of a   *)
(* session interleave at every await.  Packet 0 holds the messages that    *)
(* come in the query string of the connection request.                     *)
(*                                                                         *)
(* A TCP connection is named by the request that asked for it, <<p, n>>,   *)
(* the n-th message of packet p.                                           *)
(***************************************************************************)
EXTENDS Integers, Sequences, SequencesExt

CONSTANTS
  TunnelId,     \* the identifiers a client may give its tunnels
  Data,         \* what one tunnelMessage can carry
  None,         \* no tunnel
  LastPacket,   \* packets 1..LastPacket follow the query
  MaxLen,       \* messages in a packet
  Packets,      \* the packets a client may send
  MaxChunks     \* chunks a remote host sends on one connection

MsgType == {"init", "createTunnel", "disconnectTunnel", "claimTunnel",
            "tunnelMessage", "alert", "other"}

\* "valid" is FALSE in an init with an unsupported version or signature, and
\* in a claim whose host, port or location is not that of the tunnel.
Message == [type : MsgType, id : TunnelId, valid : BOOLEAN,
            data : Data, sends : Seq(Data), recvs : Seq(Nat)]

Packet == 0 .. LastPacket
Request == Packet \X (1 .. MaxLen)

ASSUME SessionAssumption ==
  /\ LastPacket \in Nat
  /\ MaxLen \in Nat
  /\ MaxChunks \in Nat
  /\ Packets \subseteq {s \in Seq(Message) : Len(s) <= MaxLen}
  /\ None \notin Request

VARIABLES
  ws,             \* readyState of the WebSocket; "broken" is open, but no
                  \* write succeeds any more
  isInitialised,
  packet,         \* the messages of each packet received
  phase,          \* how far each packet is
  pos,            \* the message of the packet that is handled next
  replies,        \* what was sent in response to each request
  tunnels,        \* client.tunnels
  conn            \* the TCP connections and the closures around them

vars == <<ws, isInitialised, packet, phase, pos, replies, tunnels, conn>>

-----------------------------------------------------------------------------
(* What makeTcpTunnel keeps of a connection.  "sent" and "recvd" are the    *)
(* two halves of the transcript, "fwd" the chunks forwarded to the client,  *)
(* "wrote" what the operating system was given to send, "disconnects" the   *)
(* tunnelDisconnectEvents sent to the client.                               *)

TcpState == {"none", "connecting", "failed", "open", "ended", "destroyed"}

Connection == [tcp : TcpState, readableEnded : BOOLEAN, onClose : BOOLEAN,
               sent : Seq(Data), wrote : Seq(Data), recvd : Seq(Nat),
               fwd : Seq(Nat), disconnects : Nat]

NoConnection == [tcp |-> "none", readableEnded |-> FALSE, onClose |-> FALSE,
                 sent |-> <<>>, wrote |-> <<>>, recvd |-> <<>>, fwd |-> <<>>,
                 disconnects |-> 0]

\* Mutant: onClose is not cleared.
ClosedKeepingOnClose(c, open) ==
  IF c.readableEnded THEN c
  ELSE [c EXCEPT !.tcp = IF @ = "open" THEN "ended" ELSE @,
                 !.disconnects = IF c.onClose /\ open THEN @ + 1 ELSE @]

\* close(error) of a tunnel while the session's socket is open or not.
Closed(c, open) ==
  IF c.readableEnded THEN c
  ELSE [c EXCEPT !.tcp = IF @ = "open" THEN "ended" ELSE @,
                 !.disconnects = IF c.onClose /\ open THEN @ + 1 ELSE @,
                 !.onClose = FALSE]

\* write(data): the transcript grows whether or not the socket takes the data;
\* a write after end() destroys the socket.
Written(c, data) ==
  [c EXCEPT !.sent = Append(@, data),
            !.wrote = IF c.tcp = "open" THEN Append(@, data) ELSE @,
            !.tcp = IF @ = "ended" THEN "destroyed" ELSE @]

\* Mutant: nothing is forwarded once the tunnel was closed.
ReceivedUntilClose(c, chunk, open) ==
  [c EXCEPT !.fwd = IF open /\ c.onClose THEN Append(@, chunk) ELSE @,
            !.recvd = Append(@, chunk)]

\* The 'data' handler: onMessage, then the transcript.
Received(c, chunk, open) ==
  [c EXCEPT !.fwd = IF open THEN Append(@, chunk) ELSE @,
            !.recvd = Append(@, chunk)]

\* The 'end' event: readableEnded is already set when it is emitted.  The
\* write side is ended by the socket itself (allowHalfOpen is FALSE).
Ended(c, open) ==
  Closed([c EXCEPT !.readableEnded = TRUE,
                   !.tcp = IF @ = "open" THEN "ended" ELSE @], open)

\* The 'error' event of a socket, which is destroyed.
Errored(c, open) == [Closed(c, open) EXCEPT !.tcp = "destroyed"]

isOpen == ws \in {"open", "broken"}

Registered(r) == \E t \in TunnelId : tunnels[t] = r

\* Mutant: only while the client can still be told.
CloseTunnelsWhileOpen(open) ==
  [r \in Request |-> IF open /\ Registered(r) THEN Closed(conn[r], open)
                                              ELSE conn[r]]

\* The listener of 'connection-terminated': close every tunnel.
CloseTunnels(open) ==
  [r \in Request |-> IF Registered(r) THEN Closed(conn[r], open) ELSE conn[r]]

-----------------------------------------------------------------------------
(* Handling of the messages of a packet, in wsMessageHandler and            *)
(* acceptConnection.                                                        *)

Current(p) == packet[p][pos[p]]
Ref(p) == <<p, pos[p]>>

Started(messages) == IF messages = <<>> THEN "done" ELSE "running"

\* Packet p handles its next message; the first messages of two packets are
\* handled in the order of arrival.
Handles(p, type) ==
  /\ phase[p] = "running"
  /\ \A q \in Packet : q < p => ~(phase[q] = "running" /\ pos[q] = 1)
  /\ Current(p).type = type

\* An RPC other than init.
Serves(p, type) == isInitialised /\ Handles(p, type)

\* The event loop has no promise job left.  Until then no socket, timer or
\* worker reports anything; frames that came together are still delivered.
Quiet ==
  /\ \A p \in Packet : phase[p] # "running"
  /\ ~(phase[0] = "failed" /\ isOpen)

Advance(p) ==
  /\ pos' = [pos EXCEPT ![p] = @ + 1]
  /\ phase' = [phase EXCEPT
                 ![p] = IF pos[p] < Len(packet[p]) THEN "running" ELSE "done"]

\* The promise of handleMessage is rejected: the rest of the packet is lost.
Drop(p) ==
  /\ phase' = [phase EXCEPT ![p] = "failed"]
  /\ UNCHANGED pos

Wait(p) ==
  /\ phase' = [phase EXCEPT ![p] = "waiting"]
  /\ UNCHANGED <<pos, replies>>

\* sendMessage throws unless the socket is open, and its write fails if the
\* connection is broken.
Send(p, kind) ==
  replies' = IF ws = "open" THEN [replies EXCEPT ![Ref(p)] = Append(@, kind)]
                            ELSE replies

\* Mutants: the "catch" answers too; the promise is not rejected with the
\* failure; nor when the socket is closed.
RespondTwice(p, kind) ==
  /\ replies' = [replies EXCEPT ![Ref(p)] = @ \o <<kind, "error">>]
  /\ Drop(p)

RespondWithoutReject(p, kind) ==
  /\ Send(p, kind)
  /\ IF isOpen THEN Advance(p) ELSE Drop(p)

RespondIfOpen(p, kind) ==
  /\ Send(p, kind)
  /\ IF ~isOpen THEN UNCHANGED <<phase, pos>>
     ELSE IF kind # "error" THEN Advance(p) ELSE Drop(p)

\* respond(res) of handleMessage: the promise of the message is settled, then
\* the reply is sent.  If that fails, the "catch" of handleRpcRequest calls
\* respond again, whose reply is lost like the first one.
Respond(p, kind) ==
  /\ Send(p, kind)
  /\ IF isOpen /\ kind # "error" THEN Advance(p) ELSE Drop(p)

Init ==
  /\ ws = "open"
  /\ isInitialised = FALSE
  /\ \E query \in Packets :
       /\ packet = [p \in Packet |-> IF p = 0 THEN query ELSE <<>>]
       /\ phase = [p \in Packet |-> IF p = 0 THEN Started(query) ELSE "unsent"]
  /\ pos = [p \in Packet |-> 1]
  /\ replies = [r \in Request |-> <<>>]
  /\ tunnels = [t \in TunnelId |-> None]
  /\ conn = [r \in Request |-> NoConnection]

Receive(p) ==
  /\ ws # "closed"
  /\ phase[p] = "unsent"
  /\ \A q \in Packet : q < p => phase[q] # "unsent"
  /\ \E messages \in Packets :
       /\ packet' = [packet EXCEPT ![p] = messages]
       /\ phase' = [phase EXCEPT ![p] = Started(messages)]
  /\ UNCHANGED <<ws, isInitialised, pos, replies, tunnels, conn>>

\* A termination alert of the client; the socket stays as it is.
HandleAlert(p) ==
  /\ Handles(p, "alert")
  /\ conn' = CloseTunnels(isOpen)
  /\ Advance(p)
  /\ UNCHANGED <<ws, isInitialised, packet, replies, tunnels>>

\* Responses and tunnelDisconnectEvents: nobody listens on the server.
HandleOther(p) ==
  /\ Handles(p, "other")
  /\ Advance(p)
  /\ UNCHANGED <<ws, isInitialised, packet, replies, tunnels, conn>>

\* A request before init is refused, and the packet goes on.  The refusal is
\* sent by a sendMessage that is not awaited.
RefuseUninitialised(p) ==
  /\ ~isInitialised
  /\ \E type \in {"createTunnel", "disconnectTunnel", "claimTunnel"} :
       Handles(p, type)
  /\ Send(p, "refused")
  /\ Advance(p)
  /\ UNCHANGED <<ws, isInitialised, packet, tunnels, conn>>

HandleInit(p) ==
  /\ Handles(p, "init")
  /\ LET accepted == ~isInitialised /\ Current(p).valid
     IN  /\ isInitialised' = (isInitialised \/ accepted)
         /\ Respond(p, IF accepted THEN "ok" ELSE "error")
  /\ UNCHANGED <<ws, packet, tunnels, conn>>

-----------------------------------------------------------------------------
(* The handler of createTunnel: checks, awaits the connection, registers.   *)

CreateTunnel(p) ==
  /\ Serves(p, "createTunnel")
  /\ IF tunnels[Current(p).id] # None
     THEN Respond(p, "error") /\ UNCHANGED conn
     ELSE /\ conn' = [conn EXCEPT ![Ref(p)].tcp = "connecting"]
          /\ Wait(p)
  /\ UNCHANGED <<ws, isInitialised, packet, tunnels>>

Awaits(p, type) ==
  /\ Quiet
  /\ phase[p] = "waiting"
  /\ Current(p).type = type

\* Mutant: only for a client that is there.
RegisterIfOpen(p) ==
  tunnels' = IF isOpen THEN [tunnels EXCEPT ![Current(p).id] = Ref(p)]
                       ELSE tunnels

Register(p) == tunnels' = [tunnels EXCEPT ![Current(p).id] = Ref(p)]

TunnelConnected(p) ==
  /\ Awaits(p, "createTunnel")
  /\ conn' = [conn EXCEPT ![Ref(p)].tcp = "open", ![Ref(p)].onClose = TRUE]
  /\ Register(p)
  /\ Respond(p, "ok")
  /\ UNCHANGED <<ws, isInitialised, packet>>

TunnelRefused(p) ==
  /\ Awaits(p, "createTunnel")
  /\ conn' = [conn EXCEPT ![Ref(p)].tcp = "failed"]
  /\ Respond(p, "error")
  /\ UNCHANGED <<ws, isInitialised, packet, tunnels>>

\* Mutant: the identifier is free again.
DisconnectAndForget(p) ==
  /\ Serves(p, "disconnectTunnel")
  /\ LET r == tunnels[Current(p).id]
     IN  IF r = None
         THEN Respond(p, "error") /\ UNCHANGED <<conn, tunnels>>
         ELSE /\ conn' = [conn EXCEPT ![r] = Closed(@, isOpen)]
              /\ tunnels' = [tunnels EXCEPT ![Current(p).id] = None]
              /\ Respond(p, "ok")
  /\ UNCHANGED <<ws, isInitialised, packet>>

DisconnectTunnel(p) ==
  /\ Serves(p, "disconnectTunnel")
  /\ LET r == tunnels[Current(p).id]
     IN  IF r = None
         THEN Respond(p, "error") /\ UNCHANGED conn
         ELSE /\ conn' = [conn EXCEPT ![r] = Closed(@, isOpen)]
              /\ Respond(p, "ok")
  /\ UNCHANGED <<ws, isInitialised, packet, tunnels>>

\* Mutant: the prefix is taken of the client's transcript.
ClaimExtends(m, c) ==
  /\ m.valid
  /\ m.sends = c.sent
  /\ IsPrefix(c.recvd, m.recvs)

\* assertTranscriptsMatch and the comparison of the tunnel's request.
ClaimMatches(m, c) ==
  /\ m.valid
  /\ m.sends = c.sent
  /\ IsPrefix(m.recvs, c.recvd)

ClaimTunnel(p) ==
  /\ Serves(p, "claimTunnel")
  /\ LET r == tunnels[Current(p).id]
     IN  IF r # None /\ ClaimMatches(Current(p), conn[r])
         THEN Wait(p)
         ELSE Respond(p, "error")
  /\ UNCHANGED <<ws, isInitialised, packet, tunnels, conn>>

\* The claim is verified and the response is signed, valid or not.
ClaimVerified(p) ==
  /\ Awaits(p, "claimTunnel")
  /\ \E kind \in {"ok", "invalid"} : Respond(p, kind)
  /\ UNCHANGED <<ws, isInitialised, packet, tunnels, conn>>

\* A message for a tunnel that is not there is logged and lost.
TunnelMessage(p) ==
  /\ Handles(p, "tunnelMessage")
  /\ LET m == Current(p)
         r == tunnels[m.id]
     IN  conn' = IF r = None THEN conn
                 ELSE [conn EXCEPT ![r] = Written(@, m.data)]
  /\ Advance(p)
  /\ UNCHANGED <<ws, isInitialised, packet, replies, tunnels>>

Work(p) ==
  \/ HandleAlert(p) \/ HandleOther(p) \/ RefuseUninitialised(p)
  \/ HandleInit(p)
  \/ CreateTunnel(p) \/ TunnelConnected(p) \/ TunnelRefused(p)
  \/ DisconnectTunnel(p)
  \/ ClaimTunnel(p) \/ ClaimVerified(p)
  \/ TunnelMessage(p)

-----------------------------------------------------------------------------
(* The sockets.                                                             *)

Live(r) ==
  /\ Quiet
  /\ conn[r].tcp \in {"open", "ended"}
  /\ ~conn[r].readableEnded

TcpData(r) ==
  /\ Live(r)
  /\ Len(conn[r].recvd) < MaxChunks
  /\ conn' = [conn EXCEPT ![r] = Received(@, Len(@.recvd) + 1, isOpen)]
  /\ UNCHANGED <<ws, isInitialised, packet, phase, pos, replies, tunnels>>

TcpEnd(r) ==
  /\ Live(r)
  /\ conn' = [conn EXCEPT ![r] = Ended(@, isOpen)]
  /\ UNCHANGED <<ws, isInitialised, packet, phase, pos, replies, tunnels>>

TcpError(r) ==
  /\ Quiet
  /\ conn[r].tcp \in {"open", "ended"}
  /\ conn' = [conn EXCEPT ![r] = Errored(@, isOpen)]
  /\ UNCHANGED <<ws, isInitialised, packet, phase, pos, replies, tunnels>>

\* The connection below the WebSocket breaks; the 'error' event comes later.
WsBreaks ==
  /\ Quiet
  /\ ws = "open"
  /\ ws' = "broken"
  /\ UNCHANGED <<isInitialised, packet, phase, pos, replies, tunnels, conn>>

\* The close handshake begins, by the client or by the keep-alive.
WsClosing ==
  /\ Quiet
  /\ isOpen
  /\ ws' = "closing"
  /\ UNCHANGED <<isInitialised, packet, phase, pos, replies, tunnels, conn>>

\* An 'error' event of the WebSocket, which is no longer open.
WsError ==
  /\ Quiet
  /\ isOpen
  /\ ws' = "closing"
  /\ conn' = CloseTunnels(FALSE)
  /\ UNCHANGED <<isInitialised, packet, phase, pos, replies, tunnels>>

WsClosed ==
  /\ Quiet
  /\ ws # "closed"
  /\ ws' = "closed"
  /\ conn' = CloseTunnels(FALSE)
  /\ UNCHANGED <<isInitialised, packet, phase, pos, replies, tunnels>>

\* terminateConnection of acceptConnection, up to the await of the alert ...
TerminateRejected ==
  /\ phase[0] = "failed"
  /\ isOpen
  /\ phase' = [phase EXCEPT ![0] = "rejected"]
  /\ conn' = CloseTunnels(TRUE)
  /\ UNCHANGED <<ws, isInitialised, packet, pos, replies, tunnels>>

\* ... and its "finally".
CloseRejected ==
  /\ Quiet
  /\ phase[0] = "rejected"
  /\ isOpen
  /\ ws' = "closing"
  /\ UNCHANGED <<isInitialised, packet, phase, pos, replies, tunnels, conn>>

Next ==
  \/ \E p \in Packet : Receive(p) \/ Work(p)
  \/ \E r \in Request : TcpData(r) \/ TcpEnd(r) \/ TcpError(r)
  \/ WsBreaks \/ WsClosing \/ WsError \/ WsClosed
  \/ TerminateRejected \/ CloseRejected

\* A handler that can go on does: the event loop is fair, connectTcp has a
\* timeout.  Nothing is assumed of the client, the remote hosts or the network.
Fairness ==
  /\ \A p \in Packet : WF_vars(Work(p))
  /\ WF_vars(TerminateRejected) /\ WF_vars(CloseRejected)

Spec == Init /\ [][Next]_vars
FairSpec == Spec /\ Fairness

-----------------------------------------------------------------------------
(* Properties.                                                              *)

TypeOK ==
  /\ ws \in {"open", "broken", "closing", "closed"}
  /\ isInitialised \in BOOLEAN
  /\ packet \in [Packet -> Packets \cup {<<>>}]
  /\ phase \in [Packet -> {"unsent", "running", "waiting", "done", "failed",
                           "rejected"}]
  /\ pos \in [Packet -> Nat \ {0}]
  /\ replies \in [Request -> Seq({"ok", "error", "refused", "invalid"})]
  /\ tunnels \in [TunnelId -> Request \cup {None}]
  /\ conn \in [Request -> Connection]

\* The message that request r names.
Has(r, type) == r[2] <= Len(packet[r[1]]) /\ packet[r[1]][r[2]].type = type
MessageAt(r) == packet[r[1]][r[2]]
Answered(r, kind) == \E i \in 1 .. Len(replies[r]) : replies[r][i] = kind

\* Request r asks for a tunnel with the identifier id.
Creates(r, id) == Has(r, "createTunnel") /\ MessageAt(r).id = id

\* The sockets that were established.
Connected == {"open", "ended", "destroyed"}

\* No identifier is used for two tunnels.  The SDK draws identifiers at random.
UniqueIds ==
  \A r, s \in Request :
    /\ Has(r, "createTunnel")
    /\ Has(s, "createTunnel")
    /\ MessageAt(r).id = MessageAt(s).id
    => r = s

\* A request gets at most one reply, and one reply only: respond() is called
\* once by the handler, or once by the "catch" around it, never by both.
OneReply == \A r \in Request : Len(replies[r]) <= 1

\* The messages of a packet after one whose RPC failed have no effect: they
\* are not answered and open no connection (wsMessageHandler awaits each).
FailureEndsPacket ==
  \A p \in Packet : \A n, k \in 1 .. MaxLen :
    n < k /\ Answered(<<p, n>>, "error")
      => replies[<<p, k>>] = <<>> /\ conn[<<p, k>>] = NoConnection

\* The client is told of the end of a tunnel at most once, whichever of the
\* error event, disconnectTunnel, the alert and the end of the session come
\* together, and never while the socket is still open to writes.
DisconnectEventOnce ==
  \A r \in Request :
    /\ conn[r].disconnects <= 1
    /\ conn[r].disconnects = 1 => conn[r].tcp # "open"

\* What the client receives of a tunnel is a prefix of what the transcript
\* says the remote host sent, and all of it while the session is open: an
\* honest client's claim is not refused for what it received.
ClientSeesTranscript ==
  \A r \in Request :
    /\ IsPrefix(conn[r].fwd, conn[r].recvd)
    /\ isOpen => conn[r].fwd = conn[r].recvd

\* No connection is attempted for a client that is not initialised, whatever
\* the packets that run together with the one that carries init.
NothingBeforeInit ==
  ~isInitialised => \A r \in Request : conn[r] = NoConnection

\* A tunnel whose creation was confirmed to the client does not outlive the
\* session, unless another tunnel took its identifier.
ConfirmedTunnelsClose ==
  ws = "closed" =>
    \A r \in Request :
      Registered(r) /\ Answered(r, "ok") => conn[r].tcp # "open"

\* Two tunnels of one identifier may both connect, and the socket of the first
\* is then lost to client.tunnels, open.  It is never lost otherwise: a creation
\* of another packet holds the identifier, for those of one packet are awaited
\* one by one; and no answer that fails, no disconnectTunnel and no end of the
\* session takes out of client.tunnels what is still open.
OrphansAreOvertaken ==
  \A r \in Request :
    conn[r].tcp = "open" /\ ~Registered(r) =>
      LET tunnel == tunnels[MessageAt(r).id]
      IN  tunnel # None /\ tunnel[1] # r[1]

\* When disconnectTunnel is confirmed, the tunnel that has the identifier takes
\* no data any more, and from then on no connection begins under it, whatever
\* createTunnel comes later: only those already being made can still open.
DisconnectIsFinal ==
  [][\A r \in Request : Has(r, "disconnectTunnel") =>
       LET id == MessageAt(r).id
       IN  /\ ~Answered(r, "ok") /\ Answered(r, "ok")' =>
                 tunnels[id] # None /\ conn'[tunnels[id]].tcp # "open"
           /\ Answered(r, "ok") =>
                 \A s \in Request :
                   Creates(s, id) /\ conn[s].tcp \notin {"connecting", "open"}
                     => conn'[s].tcp \notin {"connecting", "open"}]_vars

\* A claim that was signed agrees with the transcript of one tunnel of its
\* identifier, though both directions went on, and another tunnel may have
\* taken the identifier, while the claim was verified.
ClaimsAreBacked ==
  \A r \in Request :
    Has(r, "claimTunnel") /\ Answered(r, "ok") =>
      \E s \in Request :
        /\ Creates(s, MessageAt(r).id)
        /\ conn[s].tcp \in Connected
        /\ IsPrefix(MessageAt(r).recvs, conn[s].recvd)
        /\ IsPrefix(MessageAt(r).sends, conn[s].sent)

\* Transcripts are append-only, and with distinct identifiers a registered
\* tunnel is never replaced: what was checked once stays true.
TranscriptsGrow ==
  [][/\ \A r \in Request : /\ IsPrefix(conn[r].sent, conn'[r].sent)
                           /\ IsPrefix(conn[r].recvd, conn'[r].recvd)
     /\ UniqueIds => \A t \in TunnelId :
                       tunnels[t] # None => tunnels'[t] = tunnels[t]]_vars

\* A packet that was received is handled to its end or fails: no RPC waits
\* for ever, and a packet never waits for another one.
PacketsFinish ==
  \A p \in Packet : phase[p] = "running" ~> phase[p] \notin {"running", "waiting"}

\* A connection whose initial messages fail is closed.
RejectedConnectionCloses == phase[0] = "failed" ~> ~isOpen

(* What the repository says of this code and the code does not do.          *)

\* server/socket.js:20: all tunnels are closed when the connection terminates.
NoTunnelOutlivesSession ==
  ws = "closed" => \A r \in Request : Registered(r) => conn[r].tcp # "open"

\* createTunnel.js:12: a tunnel whose id is taken is not created.
OneTunnelPerId ==
  \A r, s \in Request :
    conn[r].tcp = "open" /\ conn[s].tcp = "open"
      /\ MessageAt(r).id = MessageAt(s).id => r = s

\* make-tcp-tunnel.js:28: at the end of the remote stream the tunnel is closed,
\* and the client is told.
RemoteEndIsReported ==
  \A r \in Request :
    conn[r].readableEnded ~> (conn[r].disconnects = 1 \/ ~isOpen)

\* make-tcp-tunnel.js:22: the transcript holds the messages sent.
TranscriptIsWhatWasSent == \A r \in Request : conn[r].sent = conn[r].wrote
=============================================================================
