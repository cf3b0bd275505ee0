------------------------ MODULE ServerSession_proofs ------------------------
(* What holds of ServerSession for every set of tunnels and of packets.      *)
EXTENDS ServerSession, TLAPS

-----------------------------------------------------------------------------
(* Connections: what each operation does to each field.                     *)

LEMMA ConnectionFields ==
  ASSUME NEW c \in Connection
  PROVE  /\ c.tcp \in TcpState /\ c.readableEnded \in BOOLEAN
         /\ c.onClose \in BOOLEAN /\ c.disconnects \in Nat
         /\ c.sent \in Seq(Data) /\ c.wrote \in Seq(Data)
         /\ c.recvd \in Seq(Nat) /\ c.fwd \in Seq(Nat)
BY DEF Connection

LEMMA NoConnectionType == NoConnection \in Connection
BY DEF NoConnection, Connection, TcpState

LEMMA OpeningConnection ==
  ASSUME NEW c \in Connection, NEW tcp \in TcpState
  PROVE  /\ [c EXCEPT !.tcp = tcp] \in Connection
         /\ [c EXCEPT !.tcp = tcp, !.onClose = TRUE] \in Connection
BY DEF Connection

LEMMA ClosedConnection ==
  ASSUME NEW c \in Connection, NEW open \in BOOLEAN
  PROVE  LET d == Closed(c, open)
         IN  /\ d \in Connection
             /\ d.sent = c.sent /\ d.wrote = c.wrote
             /\ d.recvd = c.recvd /\ d.fwd = c.fwd
             /\ d.readableEnded = c.readableEnded
             /\ c.readableEnded => d = c
             /\ ~c.readableEnded =>
                  /\ d.tcp = IF c.tcp = "open" THEN "ended" ELSE c.tcp
                  /\ d.onClose = FALSE
                  /\ d.disconnects = IF c.onClose /\ open
                                     THEN c.disconnects + 1
                                     ELSE c.disconnects
<1> DEFINE tcp == IF c.tcp = "open" THEN "ended" ELSE c.tcp
           events == IF c.onClose /\ open THEN c.disconnects + 1
                                          ELSE c.disconnects
           d == [c EXCEPT !.tcp = tcp, !.disconnects = events,
                          !.onClose = FALSE]
<1>1. Closed(c, open) = IF c.readableEnded THEN c ELSE d
  BY DEF Closed
<1>2. tcp \in TcpState /\ events \in Nat
  BY ConnectionFields DEF TcpState
<1> HIDE DEF tcp, events
<1>3. /\ d \in Connection
      /\ d.sent = c.sent /\ d.wrote = c.wrote
      /\ d.recvd = c.recvd /\ d.fwd = c.fwd
      /\ d.readableEnded = c.readableEnded
      /\ d.tcp = tcp /\ d.onClose = FALSE /\ d.disconnects = events
  BY <1>2 DEF Connection
<1> HIDE DEF d
<1> QED  BY <1>1, <1>3 DEF tcp, events

LEMMA WrittenConnection ==
  ASSUME NEW c \in Connection, NEW data \in Data
  PROVE  LET d == Written(c, data)
         IN  /\ d \in Connection
             /\ d.sent = Append(c.sent, data)
             /\ d.recvd = c.recvd /\ d.fwd = c.fwd
             /\ d.readableEnded = c.readableEnded
             /\ d.onClose = c.onClose /\ d.disconnects = c.disconnects
             /\ d.tcp = IF c.tcp = "ended" THEN "destroyed" ELSE c.tcp
<1> DEFINE sent == Append(c.sent, data)
           wrote == IF c.tcp = "open" THEN Append(c.wrote, data) ELSE c.wrote
           tcp == IF c.tcp = "ended" THEN "destroyed" ELSE c.tcp
           d == [c EXCEPT !.sent = sent, !.wrote = wrote, !.tcp = tcp]
<1>1. Written(c, data) = d
  BY DEF Written
<1>2. sent \in Seq(Data) /\ wrote \in Seq(Data) /\ tcp \in TcpState
  BY ConnectionFields DEF TcpState
<1> HIDE DEF sent, wrote, tcp
<1>3. /\ d \in Connection
      /\ d.recvd = c.recvd /\ d.fwd = c.fwd
      /\ d.readableEnded = c.readableEnded
      /\ d.onClose = c.onClose /\ d.disconnects = c.disconnects
      /\ d.sent = sent /\ d.tcp = tcp
  BY <1>2 DEF Connection
<1> HIDE DEF d
<1> QED  BY <1>1, <1>3 DEF sent, tcp

LEMMA ReceivedConnection ==
  ASSUME NEW c \in Connection, NEW chunk \in Nat, NEW open \in BOOLEAN
  PROVE  LET d == Received(c, chunk, open)
         IN  /\ d \in Connection
             /\ d.recvd = Append(c.recvd, chunk)
             /\ d.fwd = IF open THEN Append(c.fwd, chunk) ELSE c.fwd
             /\ d.tcp = c.tcp /\ d.sent = c.sent
             /\ d.readableEnded = c.readableEnded
             /\ d.onClose = c.onClose /\ d.disconnects = c.disconnects
<1> DEFINE recvd == Append(c.recvd, chunk)
           fwd == IF open THEN Append(c.fwd, chunk) ELSE c.fwd
           d == [c EXCEPT !.fwd = fwd, !.recvd = recvd]
<1>1. Received(c, chunk, open) = d
  BY DEF Received
<1>2. recvd \in Seq(Nat) /\ fwd \in Seq(Nat)
  BY ConnectionFields
<1> HIDE DEF recvd, fwd
<1>3. /\ d \in Connection
      /\ d.tcp = c.tcp /\ d.sent = c.sent
      /\ d.readableEnded = c.readableEnded
      /\ d.onClose = c.onClose /\ d.disconnects = c.disconnects
      /\ d.recvd = recvd /\ d.fwd = fwd
  BY <1>2 DEF Connection
<1> HIDE DEF d
<1> QED  BY <1>1, <1>3 DEF recvd, fwd

LEMMA EndedConnection ==
  ASSUME NEW c \in Connection, NEW open \in BOOLEAN
  PROVE  LET d == Ended(c, open)
         IN  /\ d \in Connection
             /\ d.tcp = IF c.tcp = "open" THEN "ended" ELSE c.tcp
             /\ d.recvd = c.recvd /\ d.fwd = c.fwd /\ d.sent = c.sent
             /\ d.onClose = c.onClose /\ d.disconnects = c.disconnects
<1> DEFINE tcp == IF c.tcp = "open" THEN "ended" ELSE c.tcp
           d == [c EXCEPT !.readableEnded = TRUE, !.tcp = tcp]
<1>1. tcp \in TcpState
  BY ConnectionFields DEF TcpState
<1>2. Ended(c, open) = Closed(d, open)
  BY DEF Ended
<1> HIDE DEF tcp
<1>3. /\ d \in Connection
      /\ d.tcp = tcp /\ d.readableEnded
      /\ d.recvd = c.recvd /\ d.fwd = c.fwd /\ d.sent = c.sent
      /\ d.onClose = c.onClose /\ d.disconnects = c.disconnects
  BY <1>1 DEF Connection
<1> HIDE DEF d
<1>4. Closed(d, open) = d
  BY <1>3 DEF Closed
<1> QED  BY <1>2, <1>3, <1>4 DEF tcp

LEMMA ErroredConnection ==
  ASSUME NEW c \in Connection, NEW open \in BOOLEAN
  PROVE  LET d == Errored(c, open)
         IN  /\ d \in Connection
             /\ d.tcp = "destroyed"
             /\ d.recvd = c.recvd /\ d.fwd = c.fwd /\ d.sent = c.sent
             /\ d.onClose = Closed(c, open).onClose
             /\ d.disconnects = Closed(c, open).disconnects
<1> DEFINE e == Closed(c, open)
<1>1. e \in Connection /\ e.recvd = c.recvd /\ e.fwd = c.fwd /\ e.sent = c.sent
  BY ClosedConnection
<1>2. Errored(c, open) = [e EXCEPT !.tcp = "destroyed"]
  BY DEF Errored
<1> HIDE DEF e
<1>3. LET d == [e EXCEPT !.tcp = "destroyed"]
      IN  /\ d \in Connection /\ d.tcp = "destroyed"
          /\ d.recvd = e.recvd /\ d.fwd = e.fwd /\ d.sent = e.sent
          /\ d.onClose = e.onClose /\ d.disconnects = e.disconnects
  BY <1>1 DEF Connection, TcpState
<1> QED  BY <1>1, <1>2, <1>3 DEF e

-----------------------------------------------------------------------------
(* Types.  A packet that is being handled has a message to handle, and a    *)
(* packet that has not come has none.                                       *)

Busy ==
  \A p \in Packet :
    phase[p] \in {"running", "waiting"} => pos[p] \in 1 .. Len(packet[p])

Unsent ==
  \A p \in Packet : phase[p] = "unsent" => packet[p] = <<>> /\ pos[p] = 1

TypeInv == TypeOK /\ Busy /\ Unsent

LEMMA PacketTypes ==
  ASSUME TypeOK, NEW p \in Packet
  PROVE  packet[p] \in Seq(Message) /\ Len(packet[p]) \in 0 .. MaxLen
<1>1. CASE packet[p] = <<>>
  BY <1>1, SessionAssumption
<1>2. CASE packet[p] \in Packets
  BY <1>2, SessionAssumption
<1> QED  BY <1>1, <1>2 DEF TypeOK

LEMMA CurrentMessage ==
  ASSUME TypeInv, NEW p \in Packet, phase[p] \in {"running", "waiting"}
  PROVE  /\ Current(p) \in Message
         /\ Ref(p) \in Request
         /\ pos[p] \in 1 .. Len(packet[p])
<1>1. pos[p] \in 1 .. Len(packet[p])
  BY DEF TypeInv, Busy
<1>2. packet[p] \in Seq(Message) /\ Len(packet[p]) \in 0 .. MaxLen
  BY PacketTypes DEF TypeInv
<1>3. Current(p) \in Message
  BY <1>1, <1>2 DEF Current
<1>4. Ref(p) \in Request
  BY <1>1, <1>2, SessionAssumption DEF Ref, Request
<1> QED  BY <1>1, <1>3, <1>4

LEMMA MessageTypes ==
  ASSUME NEW m \in Message
  PROVE  m.id \in TunnelId /\ m.data \in Data /\ m.valid \in BOOLEAN
BY DEF Message

LEMMA IsOpenType == isOpen \in BOOLEAN
BY DEF isOpen

\* The moves of one packet keep what is said of packets.
LEMMA PacketMoves ==
  ASSUME TypeInv, NEW p \in Packet, phase[p] \in {"running", "waiting"},
         packet' = packet,
         Advance(p) \/ Drop(p)
           \/ (phase' = [phase EXCEPT ![p] = "waiting"] /\ pos' = pos)
  PROVE  /\ phase' \in [Packet -> {"unsent", "running", "waiting", "done",
                                   "failed", "rejected"}]
         /\ pos' \in [Packet -> Nat \ {0}]
         /\ Busy' /\ Unsent'
<1>1. pos[p] \in 1 .. Len(packet[p]) /\ Len(packet[p]) \in Nat
  BY CurrentMessage, PacketTypes DEF TypeInv
<1>2. phase \in [Packet -> {"unsent", "running", "waiting", "done",
                            "failed", "rejected"}]
      /\ pos \in [Packet -> Nat \ {0}]
  BY DEF TypeInv, TypeOK
<1>3. CASE Advance(p)
  <2>1. phase' \in [Packet -> {"unsent", "running", "waiting", "done",
                               "failed", "rejected"}]
    BY <1>2, <1>3 DEF Advance
  <2>2. pos' \in [Packet -> Nat \ {0}]
    BY <1>2, <1>3 DEF Advance
  <2>3. Busy'
    BY <1>1, <1>2, <1>3 DEF Advance, TypeInv, Busy
  <2>4. Unsent'
    BY <1>2, <1>3 DEF Advance, TypeInv, Unsent
  <2> QED  BY <2>1, <2>2, <2>3, <2>4
<1>4. CASE Drop(p)
  BY <1>2, <1>4 DEF Drop, TypeInv, Busy, Unsent
<1>5. CASE phase' = [phase EXCEPT ![p] = "waiting"] /\ pos' = pos
  BY <1>1, <1>2, <1>5 DEF TypeInv, Busy, Unsent
<1> QED  BY <1>3, <1>4, <1>5

LEMMA SendType ==
  ASSUME TypeInv, NEW p \in Packet, phase[p] \in {"running", "waiting"},
         NEW kind \in {"ok", "error", "refused", "invalid"}, Send(p, kind)
  PROVE  replies' \in [Request -> Seq({"ok", "error", "refused", "invalid"})]
<1>1. replies \in [Request -> Seq({"ok", "error", "refused", "invalid"})]
  BY DEF TypeInv, TypeOK
<1>2. CASE ws = "open"
  <2>1. replies' = [replies EXCEPT ![Ref(p)] = Append(replies[Ref(p)], kind)]
    BY <1>2 DEF Send
  <2>2. Ref(p) \in Request
    BY CurrentMessage
  <2>3. Append(replies[Ref(p)], kind)
          \in Seq({"ok", "error", "refused", "invalid"})
    BY <1>1, <2>2
  <2> QED  BY <1>1, <2>1, <2>3
<1>3. CASE ws # "open"
  BY <1>1, <1>3 DEF Send
<1> QED  BY <1>2, <1>3

LEMMA CloseTunnelsType ==
  ASSUME conn \in [Request -> Connection], NEW open \in BOOLEAN
  PROVE  CloseTunnels(open) \in [Request -> Connection]
BY ClosedConnection DEF CloseTunnels

MovesTyped ==
  /\ phase' \in [Packet -> {"unsent", "running", "waiting", "done",
                            "failed", "rejected"}]
  /\ pos' \in [Packet -> Nat \ {0}]
  /\ Busy' /\ Unsent'
  /\ replies' \in [Request -> Seq({"ok", "error", "refused", "invalid"})]

LEMMA RespondMoves ==
  ASSUME TypeInv, NEW p \in Packet, phase[p] \in {"running", "waiting"},
         packet' = packet,
         NEW kind \in {"ok", "error", "invalid"}, Respond(p, kind)
  PROVE  MovesTyped
<1>1. Send(p, kind) /\ (Advance(p) \/ Drop(p))
  BY DEF Respond
<1>2. replies' \in [Request -> Seq({"ok", "error", "refused", "invalid"})]
  BY <1>1, SendType
<1> QED  BY <1>1, <1>2, PacketMoves DEF MovesTyped

LEMMA WaitMoves ==
  ASSUME TypeInv, NEW p \in Packet, phase[p] = "running",
         packet' = packet, Wait(p)
  PROVE  MovesTyped
<1>1. phase' = [phase EXCEPT ![p] = "waiting"] /\ pos' = pos
  BY DEF Wait
<1>2. replies' = replies
  BY DEF Wait
<1>3. replies \in [Request -> Seq({"ok", "error", "refused", "invalid"})]
  BY DEF TypeInv, TypeOK
<1> QED  BY <1>1, <1>2, <1>3, PacketMoves DEF MovesTyped

LEMMA AdvanceMoves ==
  ASSUME TypeInv, NEW p \in Packet, phase[p] = "running",
         packet' = packet, Advance(p), replies' = replies \/ Send(p, "refused")
  PROVE  MovesTyped
<1>1. replies \in [Request -> Seq({"ok", "error", "refused", "invalid"})]
  BY DEF TypeInv, TypeOK
<1>2. replies' \in [Request -> Seq({"ok", "error", "refused", "invalid"})]
  BY <1>1, SendType
<1> QED  BY <1>2, PacketMoves DEF MovesTyped

LEMMA TypeInit == Init => TypeInv
<1> SUFFICES ASSUME Init PROVE TypeInv
  OBVIOUS
<1> USE SessionAssumption
<1>1. PICK query \in Packets :
        /\ packet = [p \in Packet |-> IF p = 0 THEN query ELSE <<>>]
        /\ phase = [p \in Packet |-> IF p = 0 THEN Started(query) ELSE "unsent"]
  BY DEF Init
<1>2. query \in Seq(Message)
  BY <1>1
<1>3. query # <<>> => Len(query) \in Nat \ {0}
  BY <1>2
<1>4. TypeOK
  <2>1. packet \in [Packet -> Packets \cup {<<>>}]
    BY <1>1
  <2>2. phase \in [Packet -> {"unsent", "running", "waiting", "done", "failed",
                             "rejected"}]
    BY <1>1 DEF Started
  <2>3. pos \in [Packet -> Nat \ {0}]
    BY DEF Init
  <2>4. replies \in [Request -> Seq({"ok", "error", "refused", "invalid"})]
    BY DEF Init
  <2>5. conn \in [Request -> Connection]
    BY NoConnectionType DEF Init
  <2> QED
    BY <2>1, <2>2, <2>3, <2>4, <2>5 DEF Init, TypeOK
<1>5. Busy
  BY <1>1, <1>3 DEF Init, Busy, Started
<1>6. Unsent
  BY <1>1 DEF Init, Unsent, Started
<1> QED  BY <1>4, <1>5, <1>6 DEF TypeInv


\* Every step preserves the types; one case per action.
LEMMA TypeNext == TypeInv /\ [Next]_vars => TypeInv'
<1> SUFFICES ASSUME TypeInv, [Next]_vars PROVE TypeInv'
  OBVIOUS
<1> USE SessionAssumption, IsOpenType
<1>t. /\ conn \in [Request -> Connection]
      /\ tunnels \in [TunnelId -> Request \cup {None}]
  BY DEF TypeInv, TypeOK
<1>m. ASSUME NEW p \in Packet, phase[p] \in {"running", "waiting"}
      PROVE  /\ Ref(p) \in Request
             /\ Current(p).id \in TunnelId /\ Current(p).data \in Data
             /\ Current(p).valid \in BOOLEAN
  BY <1>m, CurrentMessage, MessageTypes
<1>r. ASSUME NEW p \in Packet, Receive(p)
      PROVE  TypeInv'
  <2>1. PICK messages \in Packets :
          /\ packet' = [packet EXCEPT ![p] = messages]
          /\ phase' = [phase EXCEPT ![p] = Started(messages)]
    BY <1>r DEF Receive
  <2>2. messages # <<>> => Len(messages) \in Nat \ {0}
    BY <2>1
  <2>3. phase[p] = "unsent" /\ pos' = pos
    BY <1>r DEF Receive
  <2>4. TypeOK'
    BY <1>r, <2>1 DEF Receive, Started, TypeInv, TypeOK
  <2>5. Unsent'
    BY <2>1, <2>3 DEF TypeInv, TypeOK, Unsent, Started
  <2>6. Busy'
    BY <2>1, <2>2, <2>3 DEF TypeInv, TypeOK, Busy, Unsent, Started
  <2> QED  BY <2>4, <2>5, <2>6 DEF TypeInv
<1>q. ASSUME MovesTyped, packet' = packet,
             ws' \in {"open", "broken", "closing", "closed"},
             isInitialised' \in BOOLEAN,
             tunnels' \in [TunnelId -> Request \cup {None}],
             conn' \in [Request -> Connection]
      PROVE  TypeInv'
  BY <1>q DEF TypeInv, TypeOK, MovesTyped
<1>o. /\ packet' = packet => packet' \in [Packet -> Packets \cup {<<>>}]
      /\ ws \in {"open", "broken", "closing", "closed"}
      /\ isInitialised \in BOOLEAN
  BY DEF TypeInv, TypeOK
<1>HandleAlert. ASSUME NEW p \in Packet, HandleAlert(p)
      PROVE  TypeInv'
  <2>1. MovesTyped
    BY <1>HandleAlert, AdvanceMoves DEF HandleAlert, Handles, Serves
  <2>2. conn' \in [Request -> Connection]
    BY <1>HandleAlert, <1>t, CloseTunnelsType DEF HandleAlert
  <2> QED  BY <1>HandleAlert, <1>q, <1>o, <1>t, <2>1, <2>2 DEF HandleAlert
<1>HandleOther. ASSUME NEW p \in Packet, HandleOther(p)
      PROVE  TypeInv'
  <2>1. MovesTyped
    BY <1>HandleOther, AdvanceMoves DEF HandleOther, Handles, Serves
  <2>2. conn' \in [Request -> Connection]
    BY <1>HandleOther, <1>t DEF HandleOther
  <2> QED  BY <1>HandleOther, <1>q, <1>o, <1>t, <2>1, <2>2 DEF HandleOther
<1>RefuseUninitialised. ASSUME NEW p \in Packet, RefuseUninitialised(p)
      PROVE  TypeInv'
  <2>1. MovesTyped
    BY <1>RefuseUninitialised, AdvanceMoves DEF RefuseUninitialised, Handles, Serves
  <2>2. conn' \in [Request -> Connection]
    BY <1>RefuseUninitialised, <1>t DEF RefuseUninitialised
  <2> QED  BY <1>RefuseUninitialised, <1>q, <1>o, <1>t, <2>1, <2>2 DEF RefuseUninitialised
<1>HandleInit. ASSUME NEW p \in Packet, HandleInit(p)
      PROVE  TypeInv'
  <2>1. MovesTyped
    BY <1>HandleInit, RespondMoves DEF HandleInit, Handles, Serves
  <2>2. conn' \in [Request -> Connection]
    BY <1>HandleInit, <1>t DEF HandleInit
  <2> QED  BY <1>HandleInit, <1>q, <1>o, <1>t, <2>1, <2>2 DEF HandleInit
<1>CreateTunnel. ASSUME NEW p \in Packet, CreateTunnel(p)
      PROVE  TypeInv'
  <2>1. MovesTyped
    BY <1>CreateTunnel, RespondMoves, WaitMoves DEF CreateTunnel, Handles, Serves
  <2>2. conn' \in [Request -> Connection]
    <3>1. Ref(p) \in Request
      BY <1>CreateTunnel, <1>m DEF CreateTunnel, Handles, Serves
    <3>2. [conn[Ref(p)] EXCEPT !.tcp = "connecting"] \in Connection
      BY <3>1, <1>t, OpeningConnection DEF TcpState
    <3> QED  BY <3>1, <3>2, <1>CreateTunnel, <1>t DEF CreateTunnel
  <2> QED  BY <1>CreateTunnel, <1>q, <1>o, <1>t, <2>1, <2>2 DEF CreateTunnel
<1>TunnelConnected. ASSUME NEW p \in Packet, TunnelConnected(p)
      PROVE  TypeInv'
  <2>1. MovesTyped
    BY <1>TunnelConnected, RespondMoves DEF TunnelConnected, Awaits
  <2>2. conn' \in [Request -> Connection]
    <3>1. Ref(p) \in Request
      BY <1>TunnelConnected, <1>m DEF TunnelConnected, Awaits
    <3>2. [conn[Ref(p)] EXCEPT !.tcp = "open", !.onClose = TRUE] \in Connection
      BY <3>1, <1>t, OpeningConnection DEF TcpState
    <3> QED  BY <3>1, <3>2, <1>TunnelConnected, <1>t DEF TunnelConnected
  <2>3. tunnels' \in [TunnelId -> Request \cup {None}]
    BY <1>TunnelConnected, <1>t, <1>m DEF TunnelConnected, Awaits, Register
  <2> QED
    BY <1>TunnelConnected, <1>q, <1>o, <2>1, <2>2, <2>3 DEF TunnelConnected
<1>TunnelRefused. ASSUME NEW p \in Packet, TunnelRefused(p)
      PROVE  TypeInv'
  <2>1. MovesTyped
    BY <1>TunnelRefused, RespondMoves DEF TunnelRefused, Awaits
  <2>2. conn' \in [Request -> Connection]
    <3>1. Ref(p) \in Request
      BY <1>TunnelRefused, <1>m DEF TunnelRefused, Awaits
    <3>2. [conn[Ref(p)] EXCEPT !.tcp = "failed"] \in Connection
      BY <3>1, <1>t, OpeningConnection DEF TcpState
    <3> QED  BY <3>1, <3>2, <1>TunnelRefused, <1>t DEF TunnelRefused
  <2> QED  BY <1>TunnelRefused, <1>q, <1>o, <1>t, <2>1, <2>2 DEF TunnelRefused
<1>DisconnectTunnel. ASSUME NEW p \in Packet, DisconnectTunnel(p)
      PROVE  TypeInv'
  <2>1. MovesTyped
    BY <1>DisconnectTunnel, RespondMoves DEF DisconnectTunnel, Handles, Serves
  <2>2. conn' \in [Request -> Connection]
    <3> DEFINE r == tunnels[Current(p).id]
    <3>1. r \in Request \cup {None}
      BY <1>DisconnectTunnel, <1>t, <1>m DEF DisconnectTunnel, Handles, Serves
    <3>2. \/ conn' = conn
          \/ /\ r \in Request
             /\ conn' = [conn EXCEPT ![r] = Closed(conn[r], isOpen)]
      BY <3>1, <1>DisconnectTunnel DEF DisconnectTunnel
    <3>3. r \in Request => Closed(conn[r], isOpen) \in Connection
      BY <1>t, ClosedConnection
    <3> HIDE DEF r
    <3> QED  BY <3>2, <3>3, <1>t
  <2> QED  BY <1>DisconnectTunnel, <1>q, <1>o, <1>t, <2>1, <2>2 DEF DisconnectTunnel
<1>ClaimTunnel. ASSUME NEW p \in Packet, ClaimTunnel(p)
      PROVE  TypeInv'
  <2>1. MovesTyped
    BY <1>ClaimTunnel, RespondMoves, WaitMoves DEF ClaimTunnel, Handles, Serves
  <2>2. conn' \in [Request -> Connection]
    BY <1>ClaimTunnel, <1>t DEF ClaimTunnel
  <2> QED  BY <1>ClaimTunnel, <1>q, <1>o, <1>t, <2>1, <2>2 DEF ClaimTunnel
<1>ClaimVerified. ASSUME NEW p \in Packet, ClaimVerified(p)
      PROVE  TypeInv'
  <2>1. MovesTyped
    BY <1>ClaimVerified, RespondMoves DEF ClaimVerified, Awaits
  <2>2. conn' \in [Request -> Connection]
    BY <1>ClaimVerified, <1>t DEF ClaimVerified
  <2> QED  BY <1>ClaimVerified, <1>q, <1>o, <1>t, <2>1, <2>2 DEF ClaimVerified
<1>TunnelMessage. ASSUME NEW p \in Packet, TunnelMessage(p)
      PROVE  TypeInv'
  <2>1. MovesTyped
    BY <1>TunnelMessage, AdvanceMoves DEF TunnelMessage, Handles, Serves
  <2>2. conn' \in [Request -> Connection]
    BY <1>TunnelMessage, <1>t, <1>m, WrittenConnection DEF TunnelMessage, Handles, Serves
  <2> QED  BY <1>TunnelMessage, <1>q, <1>o, <1>t, <2>1, <2>2 DEF TunnelMessage
<1>k. ASSUME UNCHANGED <<packet, phase, pos, replies, tunnels, isInitialised>>,
             ws' \in {"open", "broken", "closing", "closed"},
             conn' \in [Request -> Connection]
      PROVE  TypeInv'
  BY <1>k DEF TypeInv, TypeOK, Busy, Unsent
<1>d. ASSUME NEW r \in Request, TcpData(r)
      PROVE  TypeInv'
  <2>1. Len(conn[r].recvd) + 1 \in Nat
    BY <1>t, ConnectionFields
  <2>2. conn' \in [Request -> Connection]
    BY <1>d, <1>t, <2>1, ReceivedConnection DEF TcpData
  <2> QED  BY <1>d, <1>k, <1>o, <2>2 DEF TcpData
<1>e. ASSUME NEW r \in Request, TcpEnd(r) \/ TcpError(r)
      PROVE  TypeInv'
  <2>1. conn' \in [Request -> Connection]
    BY <1>e, <1>t, EndedConnection, ErroredConnection DEF TcpEnd, TcpError
  <2> QED  BY <1>e, <1>k, <1>o, <2>1 DEF TcpEnd, TcpError
<1>w. ASSUME WsBreaks \/ WsClosing \/ WsError \/ WsClosed \/ CloseRejected
      PROVE  TypeInv'
  <2>1. conn' \in [Request -> Connection]
    BY <1>w, <1>t, CloseTunnelsType DEF WsBreaks, WsClosing, WsError, WsClosed, CloseRejected
  <2> QED
    BY <1>w, <1>k, <2>1 DEF WsBreaks, WsClosing, WsError, WsClosed, CloseRejected
<1>j. ASSUME TerminateRejected
      PROVE  TypeInv'
  <2>1. conn' \in [Request -> Connection]
    BY <1>j, <1>t, CloseTunnelsType DEF TerminateRejected
  <2> QED
    BY <1>j, <2>1 DEF TerminateRejected, TypeInv, TypeOK, Busy, Unsent
<1>u. ASSUME UNCHANGED vars
      PROVE  TypeInv'
  BY <1>u DEF vars, TypeInv, TypeOK, Busy, Unsent
<1> QED
  BY <1>r, <1>HandleAlert, <1>HandleOther, <1>RefuseUninitialised,
     <1>HandleInit, <1>CreateTunnel, <1>TunnelConnected, <1>TunnelRefused,
     <1>DisconnectTunnel, <1>ClaimTunnel, <1>ClaimVerified, <1>TunnelMessage,
     <1>d, <1>e, <1>w, <1>j, <1>u
  DEF Next, Work

\* The state is well typed: the type invariant of the specification.
THEOREM TypeCorrect == Spec => []TypeOK
<1>1. TypeInv => TypeOK
  BY DEF TypeInv
<1> QED  BY <1>1, TypeInit, TypeNext, PTL DEF Spec

-----------------------------------------------------------------------------
(* How a step changes a connection: not at all, by one of the operations of *)
(* a tunnel, or, for the connection of a request that is being handled, by  *)
(* an attempt and its outcome.                                              *)

Connecting == [NoConnection EXCEPT !.tcp = "connecting"]

\* client.tunnels holds tunnels, never an attempt.
TunnelsConnected ==
  \A t \in TunnelId : tunnels[t] # None => conn[tunnels[t]].tcp \in Connected

TunnelStep(c, d) ==
  \/ \E open \in {isOpen, FALSE} : d = Closed(c, open)
  \/ \E data \in Data : d = Written(c, data)
  \/ \E chunk \in Nat : d = Received(c, chunk, isOpen)
  \/ d = Ended(c, isOpen)
  \/ d = Errored(c, isOpen)

OpeningStep(p) ==
  \/ /\ CreateTunnel(p)
     /\ conn'[Ref(p)] = [conn[Ref(p)] EXCEPT !.tcp = "connecting"]
  \/ /\ TunnelConnected(p)
     /\ conn'[Ref(p)] = [conn[Ref(p)] EXCEPT !.tcp = "open", !.onClose = TRUE]
  \/ /\ TunnelRefused(p)
     /\ conn'[Ref(p)] = [conn[Ref(p)] EXCEPT !.tcp = "failed"]

ConnectionStep(r) ==
  \/ conn'[r] = conn[r]
  \/ conn[r].tcp \in Connected /\ TunnelStep(conn[r], conn'[r])
  \/ \E p \in Packet : r = Ref(p) /\ OpeningStep(p)

LEMMA TunnelSteps ==
  ASSUME NEW c \in Connection, c.tcp \in Connected, NEW d, TunnelStep(c, d)
  PROVE  d \in Connection /\ d.tcp \in Connected
<1>1. ASSUME NEW open \in BOOLEAN, d = Closed(c, open)
      PROVE  d \in Connection /\ d.tcp \in Connected
  BY <1>1, ClosedConnection DEF Connected
<1>2. ASSUME NEW data \in Data, d = Written(c, data)
      PROVE  d \in Connection /\ d.tcp \in Connected
  BY <1>2, WrittenConnection DEF Connected
<1>3. ASSUME NEW chunk \in Nat, d = Received(c, chunk, isOpen)
      PROVE  d \in Connection /\ d.tcp \in Connected
  BY <1>3, ReceivedConnection, IsOpenType DEF Connected
<1>4. CASE d = Ended(c, isOpen)
  BY <1>4, EndedConnection, IsOpenType DEF Connected
<1>5. CASE d = Errored(c, isOpen)
  BY <1>5, ErroredConnection, IsOpenType DEF Connected
<1> QED  BY <1>1, <1>2, <1>3, <1>4, <1>5, IsOpenType DEF TunnelStep

LEMMA CloseTunnelsSteps ==
  ASSUME TypeInv, TunnelsConnected, NEW r \in Request,
         NEW open \in {isOpen, FALSE}, conn' = CloseTunnels(open)
  PROVE  ConnectionStep(r)
<1>1. CASE ~Registered(r)
  BY <1>1 DEF CloseTunnels, ConnectionStep
<1>2. CASE Registered(r)
  <2>1. conn'[r] = Closed(conn[r], open)
    BY <1>2 DEF CloseTunnels
  <2>2. conn[r].tcp \in Connected
    BY <1>2, SessionAssumption DEF Registered, TunnelsConnected
  <2> QED  BY <2>1, <2>2 DEF ConnectionStep, TunnelStep
<1> QED  BY <1>1, <1>2

LEMMA ConnectionSteps ==
  ASSUME TypeInv, TunnelsConnected, Next, NEW r \in Request
  PROVE  ConnectionStep(r)
<1>t. conn \in [Request -> Connection]
      /\ tunnels \in [TunnelId -> Request \cup {None}]
  BY DEF TypeInv, TypeOK
<1>m. ASSUME NEW p \in Packet, phase[p] \in {"running", "waiting"}
      PROVE  Ref(p) \in Request /\ Current(p) \in Message
             /\ Current(p).id \in TunnelId /\ Current(p).data \in Data
  BY <1>m, CurrentMessage, MessageTypes
<1>1. CASE conn' = conn
  BY <1>1 DEF ConnectionStep
<1>2. CASE \E open \in {isOpen, FALSE} : conn' = CloseTunnels(open)
  BY <1>2, CloseTunnelsSteps
<1>3. ASSUME NEW p \in Packet, CreateTunnel(p)
      PROVE  ConnectionStep(r)
  <2>1. Ref(p) \in Request
    BY <1>3, <1>m DEF CreateTunnel, Handles, Serves
  <2>2. conn' = conn \/ conn' = [conn EXCEPT ![Ref(p)].tcp = "connecting"]
    BY <1>3 DEF CreateTunnel
  <2> QED  BY <1>3, <1>t, <2>1, <2>2 DEF ConnectionStep, OpeningStep
<1>4. ASSUME NEW p \in Packet, TunnelConnected(p)
      PROVE  ConnectionStep(r)
  <2>1. Ref(p) \in Request
    BY <1>4, <1>m DEF TunnelConnected, Awaits
  <2>2. conn' = [conn EXCEPT ![Ref(p)] =
                   [@ EXCEPT !.tcp = "open", !.onClose = TRUE]]
    BY <1>4, <1>t, <2>1 DEF TunnelConnected, Connection
  <2> QED  BY <1>4, <1>t, <2>1, <2>2 DEF ConnectionStep, OpeningStep
<1>5. ASSUME NEW p \in Packet, TunnelRefused(p)
      PROVE  ConnectionStep(r)
  <2>1. Ref(p) \in Request
    BY <1>5, <1>m DEF TunnelRefused, Awaits
  <2>2. conn' = [conn EXCEPT ![Ref(p)].tcp = "failed"]
    BY <1>5 DEF TunnelRefused
  <2> QED  BY <1>5, <1>t, <2>1, <2>2 DEF ConnectionStep, OpeningStep
<1>6. ASSUME NEW p \in Packet, DisconnectTunnel(p)
      PROVE  ConnectionStep(r)
  <2> DEFINE s == tunnels[Current(p).id]
  <2>1. CASE conn' = conn
    BY <2>1 DEF ConnectionStep
  <2>2. CASE s # None /\ conn' = [conn EXCEPT ![s] = Closed(conn[s], isOpen)]
    <3>1. conn[s].tcp \in Connected /\ s \in Request
      BY <1>6, <1>m, <1>t, <2>2 DEF TunnelsConnected, DisconnectTunnel, Handles, Serves
    <3> HIDE DEF s
    <3> QED  BY <1>t, <2>2, <3>1 DEF ConnectionStep, TunnelStep
  <2> QED  BY <1>6, <2>1, <2>2 DEF DisconnectTunnel
<1>7. ASSUME NEW p \in Packet, TunnelMessage(p)
      PROVE  ConnectionStep(r)
  <2> DEFINE s == tunnels[Current(p).id]
             data == Current(p).data
  <2>1. CASE conn' = conn
    BY <2>1 DEF ConnectionStep
  <2>2. CASE s # None /\ conn' = [conn EXCEPT ![s] = Written(conn[s], data)]
    <3>1. conn[s].tcp \in Connected /\ s \in Request /\ data \in Data
      BY <1>7, <1>m, <1>t, <2>2 DEF TunnelsConnected, TunnelMessage, Handles, Serves
    <3> HIDE DEF s, data
    <3> QED  BY <1>t, <2>2, <3>1 DEF ConnectionStep, TunnelStep
  <2> QED  BY <1>7, <2>1, <2>2 DEF TunnelMessage
<1>8. ASSUME NEW s \in Request, TcpData(s)
      PROVE  ConnectionStep(r)
  <2> DEFINE chunk == Len(conn[s].recvd) + 1
  <2>1. chunk \in Nat /\ conn[s].tcp \in Connected
    BY <1>8, <1>t, ConnectionFields DEF TcpData, Live, Connected
  <2>2. conn' = [conn EXCEPT ![s] = Received(conn[s], chunk, isOpen)]
    BY <1>8 DEF TcpData
  <2> HIDE DEF chunk
  <2> QED  BY <1>t, <2>1, <2>2 DEF ConnectionStep, TunnelStep
<1>9. ASSUME NEW s \in Request, TcpEnd(s) \/ TcpError(s)
      PROVE  ConnectionStep(r)
  <2>1. conn[s].tcp \in Connected
    BY <1>9 DEF TcpEnd, TcpError, Live, Connected
  <2>2. \/ conn' = [conn EXCEPT ![s] = Ended(conn[s], isOpen)]
        \/ conn' = [conn EXCEPT ![s] = Errored(conn[s], isOpen)]
    BY <1>9 DEF TcpEnd, TcpError
  <2> QED  BY <1>t, <2>1, <2>2 DEF ConnectionStep, TunnelStep
<1>10. ASSUME NEW p \in Packet,
              \/ Receive(p) \/ HandleOther(p) \/ RefuseUninitialised(p)
              \/ HandleInit(p) \/ ClaimTunnel(p) \/ ClaimVerified(p)
       PROVE  ConnectionStep(r)
  <2>1. conn' = conn
    BY <1>10 DEF Receive, HandleOther, RefuseUninitialised, HandleInit,
                 ClaimTunnel, ClaimVerified
  <2> QED  BY <1>1, <2>1
<1>11. CASE WsBreaks \/ WsClosing \/ CloseRejected
  BY <1>1, <1>11 DEF WsBreaks, WsClosing, CloseRejected
<1>12. CASE WsError \/ WsClosed \/ TerminateRejected
              \/ \E p \in Packet : HandleAlert(p)
  BY <1>2, <1>12 DEF WsError, WsClosed, TerminateRejected, HandleAlert, isOpen
<1> QED
  BY <1>3, <1>4, <1>5, <1>6, <1>7, <1>8, <1>9, <1>10, <1>11, <1>12
  DEF Next, Work

-----------------------------------------------------------------------------
(* Replies.  What lies ahead in a packet is untouched, an RPC that is       *)
(* awaited is not answered yet, and a failed one ended its packet.          *)

Untouched(r) == replies[r] = <<>> /\ conn[r] = NoConnection

Ahead ==
  \A p \in Packet : \A n \in 1 .. MaxLen :
    \/ pos[p] < n
    \/ pos[p] = n /\ phase[p] \in {"unsent", "running"}
    => Untouched(<<p, n>>)

Awaited ==
  \A p \in Packet :
    phase[p] = "waiting" =>
      /\ replies[Ref(p)] = <<>>
      /\ conn[Ref(p)] = IF Current(p).type = "createTunnel" THEN Connecting
                                                            ELSE NoConnection

FailedLast ==
  \A p \in Packet : \A n \in 1 .. MaxLen :
    Answered(<<p, n>>, "error") =>
      pos[p] = n /\ phase[p] \in {"failed", "rejected"}

Inv ==
  /\ TypeInv
  /\ TunnelsConnected
  /\ Ahead /\ Awaited /\ FailedLast /\ OneReply

LEMMA InvInit == Init => Inv
<1> SUFFICES ASSUME Init PROVE Inv
  OBVIOUS
<1>1. TypeInv
  BY TypeInit
<1>2. PICK query \in Packets :
        phase = [p \in Packet |-> IF p = 0 THEN Started(query) ELSE "unsent"]
  BY DEF Init
<1>3. TunnelsConnected
  BY DEF Init, TunnelsConnected
<1>4. \A r \in Request : Untouched(r)
  BY DEF Init, Untouched
<1>5. Ahead
  BY <1>4 DEF Ahead, Request
<1>6. Awaited
  BY <1>2 DEF Awaited, Started
<1>7. FailedLast
  BY <1>4 DEF FailedLast, Answered, Untouched, Request
<1>8. OneReply
  BY <1>4 DEF OneReply, Untouched
<1> QED  BY <1>1, <1>3, <1>5, <1>6, <1>7, <1>8 DEF Inv

\* Only the request that is handled is answered, and once.
LEMMA SendOnce ==
  ASSUME Inv, NEW p \in Packet, phase[p] \in {"running", "waiting"},
         NEW kind \in {"ok", "error", "refused", "invalid"}, Send(p, kind)
  PROVE  /\ \A r \in Request : r # Ref(p) => replies'[r] = replies[r]
         /\ replies'[Ref(p)] = IF ws = "open" THEN <<kind>> ELSE <<>>
<1>1. replies \in [Request -> Seq({"ok", "error", "refused", "invalid"})]
  BY DEF Inv, TypeInv, TypeOK
<1>2. Ref(p) \in Request /\ pos[p] \in 1 .. MaxLen
  BY CurrentMessage DEF Inv, Ref, Request
<1>3. replies[Ref(p)] = <<>>
  BY <1>2 DEF Inv, Awaited, Ahead, Untouched, Ref
<1> QED  BY <1>1, <1>2, <1>3 DEF Send

\* A request that did not get a connection keeps none, unless it is handled.
LEMMA NoConnectionKept ==
  ASSUME Inv, Next, NEW r \in Request, conn[r].tcp \notin Connected,
         \A q \in Packet :
           r = Ref(q) /\ phase[q] \in {"running", "waiting"} =>
             phase'[q] = phase[q] /\ pos'[q] = pos[q]
  PROVE  conn'[r] = conn[r]
<1>1. ConnectionStep(r)
  BY ConnectionSteps DEF Inv
<1>2. ASSUME NEW q \in Packet, r = Ref(q), OpeningStep(q)
      PROVE  FALSE
  <2>1. phase[q] \in {"running", "waiting"}
    BY <1>2 DEF OpeningStep, CreateTunnel, TunnelConnected, TunnelRefused,
                Handles, Serves, Awaits
  <2>2. phase'[q] = phase[q] /\ pos'[q] = pos[q]
    BY <1>2, <2>1
  <2>3. /\ phase \in [Packet -> {"unsent", "running", "waiting", "done",
                                 "failed", "rejected"}]
        /\ pos \in [Packet -> Nat \ {0}]
    BY DEF Inv, TypeInv, TypeOK
  <2>4. ~Advance(q)
    BY <2>2, <2>3 DEF Advance
  <2>5. ~Drop(q)
    BY <2>1, <2>2, <2>3 DEF Drop
  <2>6. ~(phase[q] = "running" /\ Wait(q))
    BY <2>2, <2>3 DEF Wait
  <2> QED
    BY <1>2, <2>4, <2>5, <2>6
    DEF OpeningStep, CreateTunnel, TunnelConnected, TunnelRefused, Handles, Serves,
        Respond
<1> QED  BY <1>1, <1>2 DEF ConnectionStep

\* One packet moves.
PacketMove(p) ==
  /\ packet' = packet
  /\ phase[p] \in {"running", "waiting"}
  /\ \/ /\ Advance(p)
        /\ \/ replies' = replies
           \/ \E kind \in {"ok", "refused", "invalid"} : Send(p, kind)
     \/ /\ Drop(p)
        /\ \/ replies' = replies
           \/ Send(p, "error")
     \/ /\ phase[p] = "running"
        /\ Wait(p)
        /\ conn'[Ref(p)] = IF Current(p).type = "createTunnel"
                           THEN Connecting ELSE NoConnection

LEMMA MoveKeepsReplies ==
  ASSUME Inv, Next, NEW p \in Packet, PacketMove(p)
  PROVE  Ahead' /\ Awaited' /\ FailedLast' /\ OneReply'
<1>1. /\ phase \in [Packet -> {"unsent", "running", "waiting", "done",
                               "failed", "rejected"}]
      /\ pos \in [Packet -> Nat \ {0}]
      /\ packet' = packet
  BY DEF Inv, TypeInv, TypeOK, PacketMove
<1>2. Ref(p) \in Request /\ pos[p] \in 1 .. MaxLen
  BY CurrentMessage DEF Inv, Ref, Request, PacketMove
<1>3. replies[Ref(p)] = <<>>
  BY <1>2 DEF Inv, Awaited, Ahead, Untouched, Ref, PacketMove
<1>4. \A q \in Packet : q # p => phase'[q] = phase[q] /\ pos'[q] = pos[q]
  BY <1>1 DEF PacketMove, Advance, Drop, Wait
<1>5. \A r \in Request : r # Ref(p) => replies'[r] = replies[r]
  BY SendOnce DEF PacketMove, Wait
<1>6. \/ replies'[Ref(p)] = <<>>
      \/ /\ replies'[Ref(p)] = <<"error">>
         /\ pos'[p] = pos[p] /\ phase'[p] = "failed"
      \/ \E kind \in {"ok", "refused", "invalid"} : replies'[Ref(p)] = <<kind>>
  BY <1>1, <1>3, SendOnce DEF PacketMove, Wait, Drop
<1>7. ASSUME NEW r \in Request, r # Ref(p), conn[r].tcp \notin Connected
      PROVE  conn'[r] = conn[r]
  BY <1>4, <1>7, NoConnectionKept
<1>8. NoConnection.tcp \notin Connected /\ Connecting.tcp \notin Connected
  BY DEF NoConnection, Connecting, Connected
<1>9. ASSUME NEW r \in Request, r # Ref(p), Untouched(r)
      PROVE  Untouched(r)'
  BY <1>5, <1>7, <1>8, <1>9 DEF Untouched
<1>10. Ahead'
  <2> SUFFICES ASSUME NEW q \in Packet, NEW n \in 1 .. MaxLen,
                      \/ pos'[q] < n
                      \/ pos'[q] = n /\ phase'[q] \in {"unsent", "running"}
               PROVE  Untouched(<<q, n>>)'
    BY DEF Ahead
  <2>1. <<q, n>> \in Request
    BY DEF Request
  <2>2. CASE q # p
    <3>1. Untouched(<<q, n>>) /\ <<q, n>> # Ref(p)
      BY <1>4, <2>2 DEF Inv, Ahead, Ref
    <3> QED  BY <1>9, <2>1, <3>1
  <2>3. CASE q = p
    <3>1. pos[p] < n
      BY <1>1, <2>3 DEF PacketMove, Advance, Drop, Wait
    <3>2. Untouched(<<q, n>>) /\ <<q, n>> # Ref(p)
      BY <2>3, <3>1, <1>2 DEF Inv, Ahead, Ref
    <3> QED  BY <1>9, <2>1, <3>2
  <2> QED  BY <2>2, <2>3
<1>11. Awaited'
  <2> SUFFICES ASSUME NEW q \in Packet, phase'[q] = "waiting"
               PROVE  /\ replies'[Ref(q)'] = <<>>
                      /\ conn'[Ref(q)'] =
                           IF Current(q)'.type = "createTunnel"
                           THEN Connecting ELSE NoConnection
    BY DEF Awaited, Connecting, NoConnection
  <2>1. CASE q # p
    <3>1. Ref(q)' = Ref(q) /\ Current(q)' = Current(q) /\ phase[q] = "waiting"
      BY <1>1, <1>4, <2>1 DEF Ref, Current
    <3>2. Ref(q) \in Request /\ Ref(q) # Ref(p)
      BY <2>1, <3>1, CurrentMessage DEF Inv, Ref
    <3> QED
      BY <1>5, <1>7, <1>8, <3>1, <3>2 DEF Inv, Awaited
  <2>2. CASE q = p
    <3>1. Wait(p) /\ conn'[Ref(p)] = IF Current(p).type = "createTunnel"
                                     THEN Connecting ELSE NoConnection
      BY <1>1, <2>2 DEF PacketMove, Advance, Drop
    <3>2. Ref(p)' = Ref(p) /\ Current(p)' = Current(p) /\ replies' = replies
      BY <1>1, <3>1 DEF Wait, Ref, Current
    <3> QED  BY <1>3, <2>2, <3>1, <3>2
  <2> QED  BY <2>1, <2>2
<1>12. FailedLast'
  <2> SUFFICES ASSUME NEW q \in Packet, NEW n \in 1 .. MaxLen,
                      Answered(<<q, n>>, "error")'
               PROVE  pos'[q] = n /\ phase'[q] \in {"failed", "rejected"}
    BY DEF FailedLast
  <2>1. CASE <<q, n>> = Ref(p)
    <3>1. replies'[Ref(p)] = <<"error">>
      BY <1>6, <2>1 DEF Answered
    <3> QED  BY <1>6, <2>1, <3>1 DEF Ref
  <2>2. CASE <<q, n>> # Ref(p)
    <3>1. Answered(<<q, n>>, "error")
      BY <1>5, <2>2 DEF Answered, Request
    <3>2. pos[q] = n /\ phase[q] \in {"failed", "rejected"}
      BY <3>1 DEF Inv, FailedLast
    <3>3. q # p
      BY <3>2 DEF PacketMove
    <3> QED  BY <1>4, <3>2, <3>3
  <2> QED  BY <2>1, <2>2
<1>13. OneReply'
  <2> SUFFICES ASSUME NEW r \in Request PROVE Len(replies'[r]) <= 1
    BY DEF OneReply
  <2>1. CASE r = Ref(p)
    <3>1. replies'[r] = <<>> \/ \E kind : replies'[r] = <<kind>>
      BY <1>6, <2>1
    <3>2. ASSUME replies'[r] = <<>> PROVE Len(replies'[r]) <= 1
      BY <3>2
    <3>3. ASSUME NEW kind, replies'[r] = <<kind>> PROVE Len(replies'[r]) <= 1
      BY <3>3
    <3> QED  BY <3>1, <3>2, <3>3
  <2>2. CASE r # Ref(p)
    BY <1>5, <2>2 DEF Inv, OneReply
  <2> QED  BY <2>1, <2>2
<1> QED  BY <1>10, <1>11, <1>12, <1>13

\* A step that handles no packet.
LEMMA OtherStepsKeepReplies ==
  ASSUME Inv, Next, replies' = replies, pos' = pos,
         \A q \in Packet :
           phase[q] \in {"running", "waiting"} =>
             phase'[q] = phase[q] /\ packet'[q] = packet[q],
         \A q \in Packet :
           phase'[q] # phase[q] =>
             \/ phase[q] = "unsent" /\ phase'[q] \in {"running", "done"}
             \/ phase[q] = "failed" /\ phase'[q] = "rejected"
  PROVE  Ahead' /\ Awaited' /\ FailedLast' /\ OneReply'
<1>1. ASSUME NEW r \in Request, conn[r].tcp \notin Connected
      PROVE  conn'[r] = conn[r]
  BY <1>1, NoConnectionKept
<1>2. NoConnection.tcp \notin Connected /\ Connecting.tcp \notin Connected
  BY DEF NoConnection, Connecting, Connected
<1>3. ASSUME NEW r \in Request, Untouched(r)
      PROVE  Untouched(r)'
  BY <1>1, <1>2, <1>3 DEF Untouched
<1>4. Ahead'
  BY <1>3 DEF Inv, Ahead, Request
<1>5. Awaited'
  <2> SUFFICES ASSUME NEW q \in Packet, phase'[q] = "waiting"
               PROVE  /\ replies'[Ref(q)'] = <<>>
                      /\ conn'[Ref(q)'] =
                           IF Current(q)'.type = "createTunnel"
                           THEN Connecting ELSE NoConnection
    BY DEF Awaited, Connecting, NoConnection
  <2>1. phase[q] = "waiting"
    OBVIOUS
  <2>2. Ref(q)' = Ref(q) /\ Current(q)' = Current(q) /\ Ref(q) \in Request
    BY <2>1, CurrentMessage DEF Inv, Ref, Current
  <2> QED  BY <1>1, <1>2, <2>1, <2>2 DEF Inv, Awaited
<1>6. FailedLast'
  BY DEF Inv, FailedLast, Answered
<1>7. OneReply'
  BY DEF Inv, OneReply
<1> QED  BY <1>4, <1>5, <1>6, <1>7

\* The cases of a step, as far as packets go.
LEMMA PacketSteps ==
  ASSUME Inv, Next
  PROVE  \/ \E p \in Packet : PacketMove(p)
         \/ /\ replies' = replies /\ pos' = pos
            /\ \A q \in Packet :
                 phase[q] \in {"running", "waiting"} =>
                   phase'[q] = phase[q] /\ packet'[q] = packet[q]
            /\ \A q \in Packet :
                 phase'[q] # phase[q] =>
                   \/ phase[q] = "unsent" /\ phase'[q] \in {"running", "done"}
                   \/ phase[q] = "failed" /\ phase'[q] = "rejected"
<1>t. /\ phase \in [Packet -> {"unsent", "running", "waiting", "done",
                               "failed", "rejected"}]
      /\ packet \in [Packet -> Packets \cup {<<>>}]
      /\ conn \in [Request -> Connection]
  BY DEF Inv, TypeInv, TypeOK
<1>r. ASSUME NEW p \in Packet, phase[p] \in {"running", "waiting"},
             packet' = packet, NEW kind \in {"ok", "error", "invalid"},
             Respond(p, kind)
      PROVE  PacketMove(p)
  BY <1>r DEF Respond, PacketMove, Send, isOpen
<1>a. ASSUME NEW p \in Packet, phase[p] = "running", packet' = packet,
             Advance(p), replies' = replies \/ Send(p, "refused")
      PROVE  PacketMove(p)
  BY <1>a DEF PacketMove
<1>n. ASSUME NEW p \in Packet, phase[p] = "running"
      PROVE  Ref(p) \in Request /\ conn[Ref(p)] = NoConnection
  BY <1>n, CurrentMessage DEF Inv, Ahead, Untouched, Ref, Request
<1>1. ASSUME NEW p \in Packet, HandleAlert(p) \/ HandleOther(p) \/ TunnelMessage(p)
      PROVE  PacketMove(p)
  BY <1>1, <1>a DEF HandleAlert, HandleOther, TunnelMessage, Handles, Serves
<1>2. ASSUME NEW p \in Packet, RefuseUninitialised(p)
      PROVE  PacketMove(p)
  BY <1>2, <1>a DEF RefuseUninitialised, Handles, Serves
<1>3. ASSUME NEW p \in Packet, HandleInit(p) \/ DisconnectTunnel(p)
      PROVE  PacketMove(p)
  BY <1>3, <1>r DEF HandleInit, DisconnectTunnel, Handles, Serves
<1>4. ASSUME NEW p \in Packet,
             TunnelConnected(p) \/ TunnelRefused(p) \/ ClaimVerified(p)
      PROVE  PacketMove(p)
  BY <1>4, <1>r DEF TunnelConnected, TunnelRefused, ClaimVerified, Awaits
<1>5. ASSUME NEW p \in Packet, CreateTunnel(p)
      PROVE  PacketMove(p)
  <2>1. CASE Respond(p, "error")
    BY <1>5, <1>r, <2>1 DEF CreateTunnel, Handles, Serves
  <2>2. CASE Wait(p) /\ conn' = [conn EXCEPT ![Ref(p)].tcp = "connecting"]
    BY <1>5, <1>n, <1>t, <2>2 DEF CreateTunnel, Handles, Serves, PacketMove, Connecting
  <2> QED  BY <1>5, <2>1, <2>2 DEF CreateTunnel
<1>6. ASSUME NEW p \in Packet, ClaimTunnel(p)
      PROVE  PacketMove(p)
  <2>1. CASE Respond(p, "error")
    BY <1>6, <1>r, <2>1 DEF ClaimTunnel, Handles, Serves
  <2>2. CASE Wait(p)
    BY <1>6, <1>n, <2>2 DEF ClaimTunnel, Handles, Serves, PacketMove
  <2> QED  BY <1>6, <2>1, <2>2 DEF ClaimTunnel
<1>7. ASSUME NEW p \in Packet, Receive(p)
      PROVE  /\ replies' = replies /\ pos' = pos
             /\ \A q \in Packet :
                  phase[q] \in {"running", "waiting"} =>
                    phase'[q] = phase[q] /\ packet'[q] = packet[q]
             /\ \A q \in Packet :
                  phase'[q] # phase[q] =>
                    phase[q] = "unsent" /\ phase'[q] \in {"running", "done"}
  BY <1>7, <1>t DEF Receive, Started
<1>8. CASE TerminateRejected
  BY <1>8, <1>t DEF TerminateRejected
<1>9. CASE \/ \E r \in Request : TcpData(r) \/ TcpEnd(r) \/ TcpError(r)
           \/ WsBreaks \/ WsClosing \/ WsError \/ WsClosed \/ CloseRejected
  BY <1>9 DEF TcpData, TcpEnd, TcpError, WsBreaks, WsClosing, WsError, WsClosed,
              CloseRejected
<1> QED
  BY <1>1, <1>2, <1>3, <1>4, <1>5, <1>6, <1>7, <1>8, <1>9 DEF Next, Work

LEMMA TunnelsStayConnected ==
  ASSUME Inv, Next
  PROVE  TunnelsConnected'
<1>t. /\ conn \in [Request -> Connection]
      /\ tunnels \in [TunnelId -> Request \cup {None}]
  BY DEF Inv, TypeInv, TypeOK
<1>1. ASSUME NEW r \in Request, conn[r].tcp \in Connected
      PROVE  conn'[r].tcp \in Connected
  <2>1. ASSUME NEW p \in Packet, r = Ref(p), OpeningStep(p)
        PROVE  conn'[r].tcp \in Connected
    <3>1. CASE CreateTunnel(p)
      <4>1. phase[p] = "running"
        BY <3>1 DEF CreateTunnel, Handles, Serves
      <4>2. conn[r] = NoConnection
        BY <2>1, <4>1, CurrentMessage DEF Inv, Ahead, Untouched, Ref, Request
      <4> QED  BY <1>1, <4>2 DEF NoConnection, Connected
    <3>2. CASE TunnelConnected(p) \/ TunnelRefused(p)
      <4>1. conn[r] = Connecting
        BY <2>1, <3>2 DEF TunnelConnected, TunnelRefused, Awaits, Inv, Awaited
      <4> QED  BY <1>1, <4>1 DEF NoConnection, Connecting, Connected
    <3> QED  BY <2>1, <3>1, <3>2 DEF OpeningStep
  <2>2. CASE TunnelStep(conn[r], conn'[r])
    BY <1>1, <1>t, <2>2, TunnelSteps
  <2> QED  BY <1>1, <2>1, <2>2, ConnectionSteps DEF ConnectionStep, Inv
<1>2. ASSUME NEW p \in Packet, TunnelConnected(p)
      PROVE  TunnelsConnected'
  <2>1. Ref(p) \in Request /\ Current(p).id \in TunnelId
    BY <1>2, CurrentMessage, MessageTypes DEF Inv, TunnelConnected, Awaits
  <2>2. conn'[Ref(p)].tcp \in Connected
    BY <1>2, <1>t, <2>1 DEF TunnelConnected, Connection, Connected
  <2>3. tunnels' = [tunnels EXCEPT ![Current(p).id] = Ref(p)]
    BY <1>2 DEF TunnelConnected, Register
  <2> QED
    BY <1>1, <1>t, <2>1, <2>2, <2>3 DEF TunnelsConnected, Inv
<1>3. CASE tunnels' = tunnels
  BY <1>1, <1>3, <1>t DEF Inv, TunnelsConnected
<1> QED
  BY <1>2, <1>3
  DEF Next, Work, Receive, HandleAlert, HandleOther, RefuseUninitialised,
      HandleInit, CreateTunnel, TunnelRefused, DisconnectTunnel, ClaimTunnel,
      ClaimVerified, TunnelMessage, TcpData, TcpEnd, TcpError, WsBreaks, WsClosing,
      WsError, WsClosed, TerminateRejected, CloseRejected

LEMMA InvNext == Inv /\ [Next]_vars => Inv'
<1> SUFFICES ASSUME Inv, [Next]_vars PROVE Inv'
  OBVIOUS
<1>1. CASE Next
  <2>1. TypeInv'
    BY <1>1, TypeNext DEF Inv
  <2>2. TunnelsConnected'
    BY <1>1, TunnelsStayConnected
  <2>3. Ahead' /\ Awaited' /\ FailedLast' /\ OneReply'
    BY <1>1, PacketSteps, MoveKeepsReplies, OtherStepsKeepReplies
  <2> QED  BY <2>1, <2>2, <2>3 DEF Inv
<1>2. CASE UNCHANGED vars
  BY <1>2
  DEF vars, Inv, TypeInv, TypeOK, Busy, Unsent, TunnelsConnected, Ahead,
      Untouched, Awaited, Ref, Current, FailedLast, Answered, OneReply
<1> QED  BY <1>1, <1>2

LEMMA InvFailureEndsPacket == Inv => FailureEndsPacket
<1> SUFFICES ASSUME Inv, NEW p \in Packet, NEW n \in 1 .. MaxLen,
                    NEW k \in 1 .. MaxLen, n < k, Answered(<<p, n>>, "error")
             PROVE  Untouched(<<p, k>>)
  BY DEF FailureEndsPacket, Untouched
<1>1. pos[p] = n
  BY DEF Inv, FailedLast
<1> QED  BY <1>1 DEF Inv, Ahead

\* Every request is answered at most once, whatever the packets and however
\* their handlers interleave.
THEOREM RepliesAreUnique == Spec => []OneReply
<1>1. Inv => OneReply
  BY DEF Inv
<1> QED  BY <1>1, InvInit, InvNext, PTL DEF Spec

\* The messages of a packet after a failed RPC are neither answered nor open a
\* connection.
THEOREM FailureIsLast == Spec => []FailureEndsPacket
BY InvInit, InvNext, InvFailureEndsPacket, PTL DEF Spec

-----------------------------------------------------------------------------
(* What a connection keeps: the disconnect event goes with the onClose      *)
(* callback, and while the session is open everything is forwarded.         *)

EventInv(c) ==
  /\ c.disconnects <= 1
  /\ c.onClose => c.disconnects = 0
  /\ c.tcp = "open" => c.onClose /\ ~c.readableEnded

ForwardInv(c, open) ==
  /\ IsPrefix(c.fwd, c.recvd)
  /\ open => c.fwd = c.recvd

LEMMA EventStep ==
  ASSUME NEW c \in Connection, EventInv(c), NEW d, TunnelStep(c, d)
  PROVE  EventInv(d)
<1>1. /\ c.tcp \in TcpState /\ c.readableEnded \in BOOLEAN
      /\ c.onClose \in BOOLEAN /\ c.disconnects \in Nat
  BY ConnectionFields
<1>2. ASSUME NEW open \in BOOLEAN
      PROVE  EventInv(Closed(c, open))
  <2>1. CASE c.readableEnded
    BY <2>1 DEF Closed
  <2>2. CASE ~c.readableEnded
    <3> DEFINE e == Closed(c, open)
    <3>1. /\ e.tcp # "open" /\ e.onClose = FALSE
          /\ e.disconnects = IF c.onClose /\ open THEN c.disconnects + 1
                                                  ELSE c.disconnects
      BY ZenonT(40), <2>2, ClosedConnection
    <3> HIDE DEF e
    <3>2. EventInv(e)
      BY <1>1, <3>1 DEF EventInv
    <3> QED  BY <3>2 DEF e
  <2> QED  BY <2>1, <2>2
<1>3. ASSUME NEW data \in Data, d = Written(c, data)
      PROVE  EventInv(d)
  BY <1>1, <1>3, WrittenConnection DEF EventInv
<1>4. ASSUME NEW chunk \in Nat, d = Received(c, chunk, isOpen)
      PROVE  EventInv(d)
  <2>1. /\ d.tcp = c.tcp /\ d.readableEnded = c.readableEnded
        /\ d.onClose = c.onClose /\ d.disconnects = c.disconnects
    BY <1>4, ReceivedConnection, IsOpenType
  <2> QED  BY <2>1 DEF EventInv
<1>5. CASE d = Ended(c, isOpen)
  <2>1. /\ d.tcp # "open"
        /\ d.onClose = c.onClose /\ d.disconnects = c.disconnects
    BY <1>5, EndedConnection, IsOpenType
  <2>2. d.onClose => d.disconnects = 0
    BY <2>1 DEF EventInv
  <2>3. d.disconnects <= 1
    BY <2>1 DEF EventInv
  <2> QED  BY <2>1, <2>2, <2>3 DEF EventInv
<1>6. CASE d = Errored(c, isOpen)
  <2>1. EventInv(Closed(c, isOpen))
    BY <1>2, IsOpenType
  <2>2. /\ d.tcp = "destroyed" /\ d.onClose = Closed(c, isOpen).onClose
        /\ d.disconnects = Closed(c, isOpen).disconnects
    BY <1>6, ErroredConnection, IsOpenType
  <2> QED  BY <2>1, <2>2 DEF EventInv
<1> QED  BY <1>2, <1>3, <1>4, <1>5, <1>6, IsOpenType DEF TunnelStep

LEMMA PrefixExtends ==
  ASSUME NEW s \in Seq(Nat), NEW t \in Seq(Nat), NEW x \in Nat
  PROVE  /\ IsPrefix(s, s)
         /\ IsPrefix(s, t) => IsPrefix(s, Append(t, x))
BY DEF IsPrefix

LEMMA ForwardStep ==
  ASSUME NEW c \in Connection, ForwardInv(c, isOpen), NEW d, TunnelStep(c, d)
  PROVE  ForwardInv(d, isOpen)
<1>1. c.recvd \in Seq(Nat) /\ c.fwd \in Seq(Nat)
  BY ConnectionFields
<1>2. ASSUME d.fwd = c.fwd, d.recvd = c.recvd
      PROVE  ForwardInv(d, isOpen)
  BY <1>2 DEF ForwardInv
<1>3. ASSUME NEW open \in BOOLEAN, d = Closed(c, open)
      PROVE  ForwardInv(d, isOpen)
  BY <1>2, <1>3, ClosedConnection
<1>4. ASSUME NEW data \in Data, d = Written(c, data)
      PROVE  ForwardInv(d, isOpen)
  BY <1>2, <1>4, WrittenConnection
<1>5. ASSUME NEW chunk \in Nat, d = Received(c, chunk, isOpen)
      PROVE  ForwardInv(d, isOpen)
  <2>1. /\ d.recvd = Append(c.recvd, chunk)
        /\ d.fwd = IF isOpen THEN Append(c.fwd, chunk) ELSE c.fwd
    BY <1>5, ReceivedConnection, IsOpenType
  <2>2. CASE isOpen
    <3>1. d.fwd = d.recvd /\ d.recvd \in Seq(Nat)
      BY <1>1, <2>1, <2>2 DEF ForwardInv
    <3> QED  BY <3>1, PrefixExtends DEF ForwardInv
  <2>3. CASE ~isOpen
    BY <1>1, <2>1, <2>3, PrefixExtends DEF ForwardInv
  <2> QED  BY <2>2, <2>3
<1>6. CASE d = Ended(c, isOpen)
  BY <1>2, <1>6, EndedConnection, IsOpenType
<1>7. CASE d = Errored(c, isOpen)
  BY <1>2, <1>7, ErroredConnection, IsOpenType
<1> QED  BY <1>3, <1>4, <1>5, <1>6, <1>7, IsOpenType DEF TunnelStep

\* The socket never opens again.
LEMMA NeverReopens ==
  ASSUME Next, isOpen'
  PROVE  isOpen
BY DEF isOpen, Next, Work, Receive, HandleAlert, HandleOther,
       RefuseUninitialised, HandleInit, CreateTunnel, TunnelConnected,
       TunnelRefused, DisconnectTunnel, ClaimTunnel, ClaimVerified,
       TunnelMessage, TcpData, TcpEnd, TcpError, WsBreaks, WsClosing, WsError, WsClosed,
       TerminateRejected, CloseRejected

StreamInv ==
  \A r \in Request : EventInv(conn[r]) /\ ForwardInv(conn[r], isOpen)

LEMMA StreamInit == Init => StreamInv
<1>1. EventInv(NoConnection)
  BY DEF NoConnection, EventInv
<1>2. ForwardInv(NoConnection, TRUE)
  BY DEF NoConnection, ForwardInv, IsPrefix
<1> QED  BY <1>1, <1>2 DEF Init, StreamInv, isOpen, ForwardInv

LEMMA StreamNext == Inv /\ StreamInv /\ [Next]_vars => StreamInv'
<1> SUFFICES ASSUME Inv, StreamInv, Next, NEW r \in Request
             PROVE  EventInv(conn'[r]) /\ ForwardInv(conn'[r], isOpen')
  BY DEF StreamInv, vars, isOpen
<1>1. EventInv(conn[r]) /\ ForwardInv(conn[r], isOpen)
  BY DEF StreamInv
<1>2. conn[r] \in Connection
  BY DEF Inv, TypeInv, TypeOK
<1>3. ASSUME NEW p \in Packet, r = Ref(p), OpeningStep(p)
      PROVE  EventInv(conn'[r]) /\ ForwardInv(conn'[r], isOpen)
  <2>1. CASE CreateTunnel(p)
    <3>1. phase[p] = "running"
      BY <2>1 DEF CreateTunnel, Handles, Serves
    <3>2. conn[r] = NoConnection
      BY <1>3, <3>1, CurrentMessage DEF Inv, Ahead, Untouched, Ref, Request
    <3> QED
      BY <1>1, <1>3, <2>1, <3>2
      DEF OpeningStep, TunnelConnected, TunnelRefused, CreateTunnel, Awaits,
          Handles, Serves, NoConnection, EventInv, ForwardInv
  <2>2. CASE TunnelConnected(p) \/ TunnelRefused(p)
    <3>1. conn[r] = Connecting /\ phase[p] = "waiting"
      BY <1>3, <2>2 DEF TunnelConnected, TunnelRefused, Awaits, Inv, Awaited
    <3> QED
      BY <1>1, <1>3, <3>1
      DEF OpeningStep, CreateTunnel, Handles, Serves, NoConnection, Connecting,
          EventInv, ForwardInv
  <2> QED  BY <1>3, <2>1, <2>2 DEF OpeningStep
<1>4. EventInv(conn'[r]) /\ ForwardInv(conn'[r], isOpen)
  <2>1. CASE conn'[r] = conn[r]
    BY <1>1, <2>1
  <2>2. CASE TunnelStep(conn[r], conn'[r])
    BY <1>1, <1>2, <2>2, EventStep, ForwardStep
  <2> QED
    BY <1>3, <2>1, <2>2, ConnectionSteps DEF ConnectionStep, Inv
<1> QED  BY <1>4, NeverReopens DEF ForwardInv

\* The client is told of the end of a tunnel at most once, and truly.
THEOREM DisconnectEventIsUnique == Spec => []DisconnectEventOnce
<1>1. StreamInv => DisconnectEventOnce
  BY DEF StreamInv, EventInv, DisconnectEventOnce
<1> QED
  BY <1>1, InvInit, InvNext, StreamInit, StreamNext, PTL DEF Spec

\* What the client sees of a tunnel is a prefix of the transcript, and all of
\* it while the session is open.
THEOREM ClientFollowsTranscript == Spec => []ClientSeesTranscript
<1>1. StreamInv => ClientSeesTranscript
  BY DEF StreamInv, ForwardInv, ClientSeesTranscript
<1> QED
  BY <1>1, InvInit, InvNext, StreamInit, StreamNext, PTL DEF Spec

-----------------------------------------------------------------------------
(* Identifiers.  A packet that was received stays what it is, so a request  *)
(* keeps its type and its identifier for ever; a connection belongs to a    *)
(* createTunnel, and a tunnel is registered under the identifier it asks    *)
(* for.                                                                     *)

LEMMA RequestParts ==
  ASSUME NEW r \in Request
  PROVE  r[1] \in Packet /\ r[2] \in 1 .. MaxLen /\ r = <<r[1], r[2]>>
BY DEF Request

LEMMA PacketsKept ==
  ASSUME TypeInv, Next, NEW p \in Packet
  PROVE  packet'[p] = packet[p] \/ phase[p] = "unsent"
<1>1. ASSUME NEW q \in Packet, Receive(q)
      PROVE  packet'[p] = packet[p] \/ phase[p] = "unsent"
  BY <1>1 DEF Receive, TypeInv, TypeOK
<1> QED
  BY <1>1
  DEF Next, Work, HandleAlert, HandleOther, RefuseUninitialised, HandleInit,
      CreateTunnel, TunnelConnected, TunnelRefused, DisconnectTunnel,
      ClaimTunnel, ClaimVerified, TunnelMessage, TcpData, TcpEnd, TcpError,
      WsBreaks, WsClosing, WsError, WsClosed, TerminateRejected, CloseRejected

LEMMA RequestsKept ==
  ASSUME TypeInv, Next, NEW r \in Request, NEW type, Has(r, type)
  PROVE  Has(r, type)' /\ MessageAt(r)' = MessageAt(r)
<1>1. r[1] \in Packet /\ r[2] \in 1 .. MaxLen
  BY RequestParts
<1>2. phase[r[1]] # "unsent"
  BY <1>1 DEF Has, TypeInv, Unsent
<1>3. packet'[r[1]] = packet[r[1]]
  BY <1>1, <1>2, PacketsKept
<1> QED  BY <1>3 DEF Has, MessageAt

LEMMA CurrentRequest ==
  ASSUME TypeInv, NEW p \in Packet, phase[p] \in {"running", "waiting"}
  PROVE  /\ MessageAt(Ref(p)) = Current(p)
         /\ Has(Ref(p), Current(p).type)
<1>1. pos[p] \in 1 .. Len(packet[p])
  BY CurrentMessage
<1>2. Len(packet[p]) \in Nat
  BY PacketTypes DEF TypeInv
<1> QED  BY <1>1, <1>2 DEF MessageAt, Ref, Current, Has

LEMMA HasType ==
  ASSUME TypeInv, NEW r \in Request, NEW type, Has(r, type)
  PROVE  /\ MessageAt(r) \in Message /\ MessageAt(r).id \in TunnelId
         /\ MessageAt(r).sends \in Seq(Data) /\ MessageAt(r).recvs \in Seq(Nat)
<1>1. r[1] \in Packet /\ r[2] \in 1 .. MaxLen
  BY RequestParts
<1>2. packet[r[1]] \in Seq(Message)
  BY <1>1, PacketTypes DEF TypeInv
<1>3. MessageAt(r) \in Message
  BY <1>1, <1>2 DEF Has, MessageAt
<1> QED  BY <1>3 DEF Message

\* client.tunnels changes when a connection is established, and only then.
LEMMA TunnelsChange ==
  ASSUME Next
  PROVE  tunnels' = tunnels \/ \E p \in Packet : TunnelConnected(p)
BY DEF Next, Work, Receive, HandleAlert, HandleOther, RefuseUninitialised,
       HandleInit, CreateTunnel, TunnelRefused, DisconnectTunnel, ClaimTunnel,
       ClaimVerified, TunnelMessage, TcpData, TcpEnd, TcpError, WsBreaks, WsClosing,
       WsError, WsClosed, TerminateRejected, CloseRejected

\* The connection that a request which is handled has so far.
LEMMA OpeningFrom ==
  ASSUME Inv, NEW p \in Packet, OpeningStep(p)
  PROVE  \/ /\ CreateTunnel(p)
            /\ conn[Ref(p)] = NoConnection
            /\ conn'[Ref(p)] = Connecting
         \/ /\ TunnelConnected(p)
            /\ conn[Ref(p)] = Connecting
            /\ conn'[Ref(p)] = [Connecting EXCEPT !.tcp = "open", !.onClose = TRUE]
         \/ /\ TunnelRefused(p)
            /\ conn[Ref(p)] = Connecting
            /\ conn'[Ref(p)] = [Connecting EXCEPT !.tcp = "failed"]
<1>1. CASE /\ CreateTunnel(p)
           /\ conn'[Ref(p)] = [conn[Ref(p)] EXCEPT !.tcp = "connecting"]
  <2>1. phase[p] = "running"
    BY <1>1 DEF CreateTunnel, Handles, Serves
  <2>2. conn[Ref(p)] = NoConnection
    BY <2>1, CurrentMessage DEF Inv, Ahead, Untouched, Ref, Request
  <2> QED  BY <1>1, <2>2 DEF Connecting
<1>2. ASSUME TunnelConnected(p) \/ TunnelRefused(p)
      PROVE  conn[Ref(p)] = Connecting
  BY <1>2 DEF TunnelConnected, TunnelRefused, Awaits, Inv, Awaited
<1> QED  BY <1>1, <1>2 DEF OpeningStep

Origins ==
  /\ \A r \in Request : conn[r] # NoConnection => Has(r, "createTunnel")
  /\ \A t \in TunnelId : tunnels[t] # None => MessageAt(tunnels[t]).id = t

\* A tunnel is a request to create one, under the identifier it asked for.
LEMMA TunnelOrigin ==
  ASSUME Inv, Origins, NEW t \in TunnelId, tunnels[t] # None
  PROVE  /\ tunnels[t] \in Request
         /\ Has(tunnels[t], "createTunnel")
         /\ MessageAt(tunnels[t]).id = t
<1>1. tunnels[t] \in Request
  BY DEF Inv, TypeInv, TypeOK
<1>2. conn[tunnels[t]] # NoConnection
  BY DEF Inv, TunnelsConnected, Connected, NoConnection
<1> QED  BY <1>1, <1>2 DEF Origins

LEMMA OriginsNext ==
  ASSUME Inv, Origins, Next
  PROVE  Origins'
<1>1. ASSUME NEW r \in Request, conn'[r] # NoConnection
      PROVE  Has(r, "createTunnel")'
  <2>1. CASE conn[r] # NoConnection
    BY <2>1, RequestsKept DEF Origins, Inv
  <2>2. CASE conn[r] = NoConnection
    <3>1. conn[r].tcp \notin Connected
      BY <2>2 DEF NoConnection, Connected
    <3>2. PICK p \in Packet : r = Ref(p) /\ OpeningStep(p)
      BY <1>1, <2>2, <3>1, ConnectionSteps DEF ConnectionStep, Inv
    <3>3. phase[p] \in {"running", "waiting"} /\ Current(p).type = "createTunnel"
      BY <3>2 DEF OpeningStep, CreateTunnel, TunnelConnected, TunnelRefused,
                  Serves, Handles, Awaits
    <3>4. Has(r, "createTunnel")
      BY <3>2, <3>3, CurrentRequest DEF Inv
    <3> QED  BY <3>4, RequestsKept DEF Inv
  <2> QED  BY <2>1, <2>2
<1>2. ASSUME NEW t \in TunnelId, tunnels'[t] # None
      PROVE  MessageAt(tunnels[t])'.id = t
  <2>1. CASE tunnels'[t] = tunnels[t]
    <3>1. PICK r \in Request :
            r = tunnels[t] /\ Has(r, "createTunnel") /\ MessageAt(r).id = t
      BY <1>2, <2>1, TunnelOrigin
    <3>2. MessageAt(r)' = MessageAt(r)
      BY <3>1, RequestsKept DEF Inv
    <3> QED  BY <2>1, <3>1, <3>2 DEF MessageAt
  <2>2. CASE tunnels'[t] # tunnels[t]
    <3>1. PICK p \in Packet : TunnelConnected(p)
      BY <2>2, TunnelsChange
    <3>2. tunnels'[t] = Ref(p) /\ Current(p).id = t
      BY <2>2, <3>1 DEF TunnelConnected, Register, Inv, TypeInv, TypeOK
    <3>3. phase[p] = "waiting" /\ packet' = packet
      BY <3>1 DEF TunnelConnected, Awaits
    <3>4. Current(p) = MessageAt(Ref(p))
      BY <3>3, CurrentRequest DEF Inv
    <3> QED  BY <3>2, <3>3, <3>4 DEF MessageAt
  <2> QED  BY <2>1, <2>2
<1> QED  BY <1>1, <1>2 DEF Origins

\* With distinct identifiers a registered tunnel is never replaced.
LEMMA TunnelsKept ==
  ASSUME Inv, Origins, Next, UniqueIds, NEW t \in TunnelId, tunnels[t] # None
  PROVE  tunnels'[t] = tunnels[t]
<1> SUFFICES ASSUME tunnels'[t] # tunnels[t] PROVE FALSE
  OBVIOUS
<1>1. PICK p \in Packet : TunnelConnected(p)
  BY TunnelsChange
<1>2. tunnels'[t] = Ref(p) /\ Current(p).id = t
  BY <1>1 DEF TunnelConnected, Register, Inv, TypeInv, TypeOK
<1>3. phase[p] = "waiting" /\ Current(p).type = "createTunnel"
  BY <1>1 DEF TunnelConnected, Awaits
<1>4. /\ Ref(p) \in Request /\ Has(Ref(p), "createTunnel")
      /\ MessageAt(Ref(p)).id = t
  BY <1>2, <1>3, CurrentMessage, CurrentRequest DEF Inv
<1>5. Ref(p) = tunnels[t]
  BY <1>4, TunnelOrigin DEF UniqueIds
<1> QED  BY <1>2, <1>5

-----------------------------------------------------------------------------
(* What a step does to a connection that was established.                   *)

LEMMA PrefixReflexive ==
  ASSUME NEW S, NEW s \in Seq(S)
  PROVE  IsPrefix(s, s)
BY DEF IsPrefix

LEMMA PrefixAppend ==
  ASSUME NEW S, NEW s \in Seq(S), NEW x \in S
  PROVE  IsPrefix(s, Append(s, x))
BY DEF IsPrefix

LEMMA PrefixTransitive ==
  ASSUME NEW S, NEW s \in Seq(S), NEW t \in Seq(S), NEW u \in Seq(S),
         IsPrefix(s, t), IsPrefix(t, u)
  PROVE  IsPrefix(s, u)
BY DEF IsPrefix

Grown(c, d) == IsPrefix(c.sent, d.sent) /\ IsPrefix(c.recvd, d.recvd)

LEMMA TunnelStepGrows ==
  ASSUME NEW c \in Connection, NEW d, TunnelStep(c, d)
  PROVE  Grown(c, d) /\ (d.tcp = "open" => c.tcp = "open")
<1>1. c.sent \in Seq(Data) /\ c.recvd \in Seq(Nat)
  BY ConnectionFields
<1>2. IsPrefix(c.sent, c.sent) /\ IsPrefix(c.recvd, c.recvd)
  BY <1>1, PrefixReflexive
<1>3. ASSUME NEW open \in BOOLEAN, d = Closed(c, open)
      PROVE  Grown(c, d) /\ (d.tcp = "open" => c.tcp = "open")
  BY <1>2, <1>3, ClosedConnection DEF Grown
<1>4. ASSUME NEW data \in Data, d = Written(c, data)
      PROVE  Grown(c, d) /\ (d.tcp = "open" => c.tcp = "open")
  <2>1. IsPrefix(c.sent, Append(c.sent, data))
    BY <1>1, PrefixAppend
  <2> QED  BY <1>2, <1>4, <2>1, WrittenConnection DEF Grown
<1>5. ASSUME NEW chunk \in Nat, d = Received(c, chunk, isOpen)
      PROVE  Grown(c, d) /\ (d.tcp = "open" => c.tcp = "open")
  <2>1. IsPrefix(c.recvd, Append(c.recvd, chunk))
    BY <1>1, PrefixAppend
  <2> QED  BY <1>2, <1>5, <2>1, ReceivedConnection, IsOpenType DEF Grown
<1>6. CASE d = Ended(c, isOpen)
  BY <1>2, <1>6, EndedConnection, IsOpenType DEF Grown
<1>7. CASE d = Errored(c, isOpen)
  BY <1>2, <1>7, ErroredConnection, IsOpenType DEF Grown
<1> QED  BY <1>3, <1>4, <1>5, <1>6, <1>7, IsOpenType DEF TunnelStep

LEMMA ConnectionsGrow ==
  ASSUME Inv, Next, NEW r \in Request
  PROVE  Grown(conn[r], conn'[r])
<1>1. conn[r] \in Connection
  BY DEF Inv, TypeInv, TypeOK
<1>2. conn[r].sent \in Seq(Data) /\ conn[r].recvd \in Seq(Nat)
  BY <1>1, ConnectionFields
<1>3. ASSUME conn'[r].sent = conn[r].sent, conn'[r].recvd = conn[r].recvd
      PROVE  Grown(conn[r], conn'[r])
  BY <1>2, <1>3, PrefixReflexive DEF Grown
<1>4. ASSUME NEW p \in Packet, r = Ref(p), OpeningStep(p)
      PROVE  Grown(conn[r], conn'[r])
  <2>1. \/ conn[r] = NoConnection /\ conn'[r] = Connecting
        \/ /\ conn[r] = Connecting
           /\ \/ conn'[r] = [Connecting EXCEPT !.tcp = "open", !.onClose = TRUE]
              \/ conn'[r] = [Connecting EXCEPT !.tcp = "failed"]
    BY <1>4, OpeningFrom
  <2>2. conn'[r].sent = conn[r].sent /\ conn'[r].recvd = conn[r].recvd
    BY ZenonT(40), <2>1 DEF Connecting, NoConnection
  <2> QED  BY <1>3, <2>2
<1> QED
  BY <1>1, <1>3, <1>4, ConnectionSteps, TunnelStepGrows DEF ConnectionStep, Inv

\* A socket opens when the connection of a request that waits is established.
LEMMA Opens ==
  ASSUME Inv, Next, NEW r \in Request, conn'[r].tcp = "open", conn[r].tcp # "open"
  PROVE  \E p \in Packet : r = Ref(p) /\ TunnelConnected(p)
<1>1. conn[r] \in Connection
  BY DEF Inv, TypeInv, TypeOK
<1>2. ~TunnelStep(conn[r], conn'[r])
  BY <1>1, TunnelStepGrows
<1>3. PICK p \in Packet : r = Ref(p) /\ OpeningStep(p)
  BY <1>2, ConnectionSteps DEF ConnectionStep, Inv
<1> QED  BY <1>3, OpeningFrom DEF Connecting, NoConnection

\* ... and an attempt is made by CreateTunnel.
LEMMA BecomesConnected ==
  ASSUME Inv, Next, NEW r \in Request,
         conn'[r].tcp \in Connected, conn[r].tcp \notin Connected
  PROVE  \E p \in Packet : r = Ref(p) /\ TunnelConnected(p)
<1>1. PICK p \in Packet : r = Ref(p) /\ OpeningStep(p)
  BY ConnectionSteps DEF ConnectionStep, Inv
<1> QED  BY ZenonT(40), <1>1, OpeningFrom DEF Connecting, NoConnection, Connected

LEMMA Established ==
  ASSUME Inv, NEW p \in Packet, TunnelConnected(p)
  PROVE  /\ phase[p] = "waiting" /\ Current(p).type = "createTunnel"
         /\ Ref(p) \in Request /\ Current(p).id \in TunnelId
         /\ tunnels' = [tunnels EXCEPT ![Current(p).id] = Ref(p)]
         /\ conn[Ref(p)] = Connecting /\ replies[Ref(p)] = <<>>
         /\ ws' = ws /\ packet' = packet
<1>1. phase[p] = "waiting" /\ Current(p).type = "createTunnel"
  BY DEF TunnelConnected, Awaits
<1>2. Ref(p) \in Request /\ Current(p).id \in TunnelId
  BY <1>1, CurrentMessage, MessageTypes DEF Inv
<1>3. conn[Ref(p)] = Connecting /\ replies[Ref(p)] = <<>>
  BY <1>1 DEF Inv, Awaited
<1> QED  BY <1>1, <1>2, <1>3 DEF TunnelConnected, Register

\* An RPC that waits goes on with what it waited for, and not otherwise.
LEMMA WaitingEnds ==
  ASSUME Inv, Next, NEW p \in Packet, phase[p] = "waiting", phase'[p] # "waiting"
  PROVE  TunnelConnected(p) \/ TunnelRefused(p) \/ ClaimVerified(p)
<1>t. phase \in [Packet -> {"unsent", "running", "waiting", "done",
                           "failed", "rejected"}]
  BY DEF Inv, TypeInv, TypeOK
<1>1. ASSUME NEW q \in Packet, Advance(q) \/ Drop(q) \/ Wait(q)
      PROVE  q = p
  BY <1>t, <1>1 DEF Advance, Drop, Wait
<1>2. ASSUME NEW q \in Packet, NEW kind, Respond(q, kind)
      PROVE  q = p
  BY <1>1, <1>2 DEF Respond
<1>3. ASSUME NEW q \in Packet,
             \/ HandleAlert(q) \/ HandleOther(q) \/ RefuseUninitialised(q)
             \/ HandleInit(q) \/ CreateTunnel(q) \/ DisconnectTunnel(q)
             \/ ClaimTunnel(q) \/ TunnelMessage(q)
      PROVE  FALSE
  <2>1. Advance(q) \/ Wait(q) \/ \E kind : Respond(q, kind)
    BY <1>3
    DEF HandleAlert, HandleOther, RefuseUninitialised, HandleInit, CreateTunnel,
        DisconnectTunnel, ClaimTunnel, TunnelMessage
  <2>2. phase[q] = "running"
    BY <1>3
    DEF HandleAlert, HandleOther, RefuseUninitialised, HandleInit, CreateTunnel,
        DisconnectTunnel, ClaimTunnel, TunnelMessage, Serves, Handles
  <2> QED  BY <1>1, <1>2, <2>1, <2>2
<1>4. ASSUME NEW q \in Packet,
             TunnelConnected(q) \/ TunnelRefused(q) \/ ClaimVerified(q)
      PROVE  q = p
  BY <1>2, <1>4 DEF TunnelConnected, TunnelRefused, ClaimVerified
<1>5. ASSUME NEW q \in Packet, Receive(q)
      PROVE  FALSE
  BY <1>t, <1>5 DEF Receive
<1>6. CASE TerminateRejected
  BY <1>t, <1>6 DEF TerminateRejected
<1>7. CASE \/ \E r \in Request : TcpData(r) \/ TcpEnd(r) \/ TcpError(r)
           \/ WsBreaks \/ WsClosing \/ WsError \/ WsClosed \/ CloseRejected
  BY <1>7 DEF TcpData, TcpEnd, TcpError, WsBreaks, WsClosing, WsError, WsClosed,
              CloseRejected
<1> QED  BY <1>3, <1>4, <1>5, <1>6, <1>7 DEF Next, Work

-----------------------------------------------------------------------------
(* Nothing before init.                                                     *)

LEMMA GateNext ==
  ASSUME Inv, NothingBeforeInit, Next
  PROVE  NothingBeforeInit'
<1> SUFFICES ASSUME ~isInitialised', NEW r \in Request
             PROVE  conn'[r] = NoConnection
  BY DEF NothingBeforeInit
<1>1. ~isInitialised
  BY DEF Next, Work, Receive, HandleAlert, HandleOther, RefuseUninitialised,
         HandleInit, CreateTunnel, TunnelConnected, TunnelRefused,
         DisconnectTunnel, ClaimTunnel, ClaimVerified, TunnelMessage, TcpData,
         TcpEnd, TcpError, WsBreaks, WsClosing, WsError, WsClosed, TerminateRejected,
         CloseRejected
<1>2. \A s \in Request : conn[s] = NoConnection
  BY <1>1 DEF NothingBeforeInit
<1>3. conn[r].tcp \notin Connected
  BY <1>2 DEF NoConnection, Connected
<1>4. ASSUME NEW p \in Packet, r = Ref(p), OpeningStep(p)
      PROVE  FALSE
  BY <1>1, <1>2, <1>4, OpeningFrom
  DEF CreateTunnel, Serves, Connecting, NoConnection
<1> QED  BY <1>2, <1>3, <1>4, ConnectionSteps DEF ConnectionStep, Inv

-----------------------------------------------------------------------------
(* An identifier under which a connection was established stays taken, and  *)
(* the requests of one packet never have two connections under one          *)
(* identifier: the second is made when the first is settled.                *)

LEMMA ConnectedKept ==
  ASSUME Inv, Next, NEW r \in Request, conn[r].tcp \in Connected
  PROVE  conn'[r].tcp \in Connected
<1>1. conn[r] \in Connection
  BY DEF Inv, TypeInv, TypeOK
<1>2. ASSUME NEW p \in Packet, r = Ref(p), OpeningStep(p)
      PROVE  FALSE
  BY <1>2, OpeningFrom DEF Connecting, NoConnection, Connected
<1> QED  BY <1>1, <1>2, ConnectionSteps, TunnelSteps DEF ConnectionStep, Inv

LEMMA TakenKept ==
  ASSUME Inv, Next, NEW t \in TunnelId, tunnels[t] # None
  PROVE  tunnels'[t] # None
<1>1. ASSUME NEW p \in Packet, TunnelConnected(p)
      PROVE  tunnels'[t] # None
  BY <1>1, Established, SessionAssumption DEF Inv, TypeInv, TypeOK
<1> QED  BY <1>1, TunnelsChange

Taken ==
  \A r \in Request :
    conn[r].tcp \in Connected => tunnels[MessageAt(r).id] # None

\* An attempt is awaited, and one that failed ended its packet.
Attempts ==
  \A r \in Request :
    /\ conn[r].tcp = "connecting" => phase[r[1]] = "waiting" /\ pos[r[1]] = r[2]
    /\ conn[r].tcp = "failed" => phase[r[1]] \in {"failed", "rejected"}
    /\ conn[r].tcp = "none" => conn[r] = NoConnection

OnceInPacket ==
  \A r, s \in Request :
    /\ r[1] = s[1] /\ r[2] < s[2]
    /\ conn[r] # NoConnection /\ conn[s] # NoConnection
    => MessageAt(r).id # MessageAt(s).id

LEMMA TakenNext ==
  ASSUME Inv, Origins, Taken, Next
  PROVE  Taken'
<1> SUFFICES ASSUME NEW r \in Request, conn'[r].tcp \in Connected
             PROVE  tunnels'[MessageAt(r)'.id] # None
  BY DEF Taken
<1>1. CASE conn[r].tcp \in Connected
  <2>1. tunnels[MessageAt(r).id] # None
    BY <1>1 DEF Taken
  <2>2. Has(r, "createTunnel")
    BY <1>1 DEF Origins, NoConnection, Connected
  <2>3. MessageAt(r)' = MessageAt(r) /\ MessageAt(r).id \in TunnelId
    BY <2>2, RequestsKept, HasType DEF Inv
  <2> QED  BY <2>1, <2>3, TakenKept
<1>2. CASE conn[r].tcp \notin Connected
  <2>1. PICK p \in Packet : r = Ref(p) /\ TunnelConnected(p)
    BY <1>2, BecomesConnected
  <2>2. /\ phase[p] = "waiting" /\ packet' = packet
        /\ tunnels'[Current(p).id] = r /\ Current(p).id \in TunnelId
    BY <2>1, Established DEF Inv, TypeInv, TypeOK
  <2>3. MessageAt(r)' = Current(p)
    BY <2>1, <2>2, CurrentRequest DEF Inv, MessageAt
  <2> QED  BY <2>2, <2>3, SessionAssumption
<1> QED  BY <1>1, <1>2

LEMMA NoneOrStep ==
  ASSUME Inv, Next, NEW r \in Request, conn'[r] # conn[r]
  PROVE  \/ conn[r].tcp \in Connected /\ conn'[r].tcp \in Connected
         \/ \E p \in Packet : r = Ref(p) /\ OpeningStep(p)
<1>1. conn[r] \in Connection
  BY DEF Inv, TypeInv, TypeOK
<1> QED  BY <1>1, ConnectionSteps, TunnelSteps DEF ConnectionStep, Inv

LEMMA AttemptsNext ==
  ASSUME Inv, Attempts, Next
  PROVE  Attempts'
<1> SUFFICES ASSUME NEW r \in Request
             PROVE  /\ conn'[r].tcp = "connecting" =>
                          phase'[r[1]] = "waiting" /\ pos'[r[1]] = r[2]
                    /\ conn'[r].tcp = "failed" =>
                          phase'[r[1]] \in {"failed", "rejected"}
                    /\ conn'[r].tcp = "none" => conn'[r] = NoConnection
  BY DEF Attempts
<1>t. /\ phase \in [Packet -> {"unsent", "running", "waiting", "done",
                               "failed", "rejected"}]
      /\ pos \in [Packet -> Nat \ {0}]
      /\ r[1] \in Packet
  BY RequestParts DEF Inv, TypeInv, TypeOK
<1>1. ASSUME NEW p \in Packet, r = Ref(p), OpeningStep(p)
      PROVE  /\ conn'[r].tcp = "connecting" =>
                   phase'[r[1]] = "waiting" /\ pos'[r[1]] = r[2]
             /\ conn'[r].tcp = "failed" => phase'[r[1]] \in {"failed", "rejected"}
             /\ conn'[r].tcp # "none"
  <2>1. r[1] = p /\ r[2] = pos[p]
    BY <1>1 DEF Ref
  <2>2. CASE CreateTunnel(p) /\ conn'[r] = Connecting /\ conn[r] = NoConnection
    <3>1. conn' # conn
      BY <2>2 DEF Connecting, NoConnection
    <3>2. Wait(p)
      BY <2>2, <3>1 DEF CreateTunnel
    <3> QED  BY <1>t, <2>1, <2>2, <3>2 DEF Wait, Connecting, NoConnection
  <2>3. CASE /\ TunnelConnected(p)
             /\ conn'[r] = [Connecting EXCEPT !.tcp = "open", !.onClose = TRUE]
    BY <2>3 DEF Connecting, NoConnection
  <2>4. CASE TunnelRefused(p) /\ conn'[r] = [Connecting EXCEPT !.tcp = "failed"]
    <3>1. phase'[p] = "failed"
      BY <1>t, <2>1, <2>4 DEF TunnelRefused, Respond, Drop
    <3> QED  BY <2>1, <2>4, <3>1 DEF Connecting, NoConnection
  <2> QED  BY <1>1, <2>2, <2>3, <2>4, OpeningFrom
<1>2. CASE conn'[r] = conn[r] /\ conn[r].tcp = "failed"
  <2>1. phase[r[1]] \in {"failed", "rejected"}
    BY <1>2 DEF Attempts
  <2>2. ASSUME NEW p \in Packet, PacketMove(p)
        PROVE  phase'[r[1]] = phase[r[1]]
    BY <1>t, <2>1, <2>2 DEF PacketMove, Advance, Drop, Wait
  <2> QED  BY <1>2, <1>t, <2>1, <2>2, PacketSteps
<1>3. CASE conn'[r] = conn[r] /\ conn[r].tcp = "connecting"
  <2>1. phase[r[1]] = "waiting" /\ pos[r[1]] = r[2] /\ r = Ref(r[1])
    BY <1>3, RequestParts DEF Attempts, Ref
  <2>2. CASE phase'[r[1]] = "waiting"
    <3>1. ASSUME NEW p \in Packet, PacketMove(p)
          PROVE  pos'[r[1]] = pos[r[1]]
      BY <1>t, <2>1, <2>2, <3>1 DEF PacketMove, Advance, Drop, Wait
    <3> QED  BY <1>3, <2>1, <2>2, <3>1, PacketSteps
  <2>3. CASE phase'[r[1]] # "waiting"
    <3> DEFINE p == r[1]
    <3>1. TunnelConnected(p) \/ TunnelRefused(p) \/ ClaimVerified(p)
      BY <1>t, <2>1, <2>3, WaitingEnds
    <3>2. CASE ClaimVerified(p)
      <4>1. Current(p).type = "claimTunnel"
        BY <3>2 DEF ClaimVerified, Awaits
      <4>2. conn[Ref(p)] = NoConnection
        BY <1>t, <2>1, <4>1 DEF Inv, Awaited
      <4> QED  BY <1>3, <2>1, <4>2 DEF NoConnection
    <3>3. CASE TunnelConnected(p) \/ TunnelRefused(p)
      <4>1. conn'[r].tcp # "connecting"
        BY <1>t, <2>1, <3>3 DEF TunnelConnected, TunnelRefused, Inv, TypeInv,
                                TypeOK, Connection
      <4> QED  BY <1>3, <4>1
    <3> QED  BY <3>1, <3>2, <3>3
  <2> QED  BY <2>2, <2>3
<1>4. CASE conn[r].tcp \in Connected /\ conn'[r].tcp \in Connected
  BY <1>4 DEF Connected
<1>5. CASE conn'[r] = conn[r] /\ conn[r].tcp \notin {"connecting", "failed"}
  BY <1>5 DEF Attempts
<1> QED  BY <1>1, <1>2, <1>3, <1>4, <1>5, NoneOrStep

LEMMA OnceInPacketNext ==
  ASSUME Inv, Origins, Taken, Attempts, OnceInPacket, Next
  PROVE  OnceInPacket'
<1> SUFFICES ASSUME NEW r \in Request, NEW s \in Request,
                    r[1] = s[1], r[2] < s[2],
                    conn'[r] # NoConnection, conn'[s] # NoConnection
             PROVE  MessageAt(r)'.id # MessageAt(s)'.id
  BY DEF OnceInPacket
<1>t. /\ r[1] \in Packet /\ r[2] \in 1 .. MaxLen /\ r = <<r[1], r[2]>>
      /\ s[1] \in Packet /\ s[2] \in 1 .. MaxLen /\ s = <<s[1], s[2]>>
      /\ pos \in [Packet -> Nat \ {0}]
  BY RequestParts DEF Inv, TypeInv, TypeOK
<1>1. ASSUME NEW x \in Request, conn[x] = NoConnection, conn'[x] # NoConnection
      PROVE  \E p \in Packet :
               x = Ref(p) /\ CreateTunnel(p) /\ conn'[x] = Connecting
  <2>1. PICK p \in Packet : x = Ref(p) /\ OpeningStep(p)
    BY <1>1, NoneOrStep DEF NoConnection, Connected
  <2> QED  BY <1>1, <2>1, OpeningFrom DEF Connecting, NoConnection
<1>2. CASE conn[r] # NoConnection /\ conn[s] # NoConnection
  <2>1. Has(r, "createTunnel") /\ Has(s, "createTunnel")
    BY <1>2 DEF Origins
  <2> QED  BY <1>2, <2>1, RequestsKept DEF OnceInPacket, Inv
<1>3. CASE conn[r] = NoConnection
  <2>1. PICK p \in Packet : r = Ref(p) /\ CreateTunnel(p)
    BY <1>1, <1>3
  <2>2. p = r[1] /\ pos[p] = r[2]
    BY <2>1 DEF Ref
  <2>3. Untouched(s)
    BY <1>t, <2>2 DEF Inv, Ahead
  <2>4. PICK q \in Packet : s = Ref(q) /\ CreateTunnel(q)
    BY <1>1, <2>3 DEF Untouched
  <2> QED  BY <1>t, <2>2, <2>4 DEF Ref
<1>4. CASE conn[r] # NoConnection /\ conn[s] = NoConnection
  <2>1. PICK p \in Packet :
          s = Ref(p) /\ CreateTunnel(p) /\ conn'[s] = Connecting
    BY <1>1, <1>4
  <2>2. p = s[1] /\ pos[p] = s[2] /\ phase[p] = "running"
    BY <2>1 DEF Ref, CreateTunnel, Serves, Handles
  <2>3. conn[r].tcp \in Connected
    <3>1. conn[r].tcp \notin {"connecting", "failed"}
      BY <2>2 DEF Attempts
    <3>2. conn[r].tcp # "none"
      BY <1>4 DEF Attempts
    <3> QED  BY <3>1, <3>2 DEF Inv, TypeInv, TypeOK, Connection, TcpState, Connected
  <2>4. tunnels[MessageAt(r).id] # None
    BY <2>3 DEF Taken
  <2>5. tunnels[Current(p).id] = None
    <3>1. conn' # conn
      BY <1>4, <2>1 DEF Connecting, NoConnection
    <3> QED  BY <2>1, <3>1 DEF CreateTunnel
  <2>6. MessageAt(s)' = Current(p) /\ MessageAt(r)' = MessageAt(r)
    <3>1. MessageAt(s) = Current(p) /\ Has(s, Current(p).type)
      BY <2>1, <2>2, CurrentRequest DEF Inv
    <3>2. Has(r, "createTunnel")
      BY <1>4 DEF Origins
    <3> QED  BY <3>1, <3>2, RequestsKept DEF Inv
  <2> QED  BY <2>4, <2>5, <2>6
<1> QED  BY <1>2, <1>3, <1>4

-----------------------------------------------------------------------------
(* Answers: what a request that is answered "ok" was, at that step.         *)

LEMMA NewAnswers ==
  ASSUME Inv, Next, NEW r \in Request, Answered(r, "ok")', ~Answered(r, "ok")
  PROVE  /\ isOpen
         /\ \E p \in Packet :
              /\ r = Ref(p)
              /\ \/ HandleInit(p) \/ TunnelConnected(p) \/ ClaimVerified(p)
                 \/ DisconnectTunnel(p) /\ tunnels[Current(p).id] # None
<1>1. replies'[r] # replies[r]
  BY DEF Answered
<1>2. ASSUME NEW p \in Packet, phase[p] \in {"running", "waiting"},
             NEW kind \in {"ok", "error", "refused", "invalid"}, Send(p, kind)
      PROVE  isOpen /\ r = Ref(p) /\ kind = "ok"
  <2>1. r = Ref(p) /\ ws = "open"
    BY <1>1, <1>2, SendOnce DEF Send
  <2>2. replies'[r] = <<kind>>
    BY <1>2, <2>1, SendOnce
  <2>3. PICK i \in 1 .. Len(<<kind>>) : <<kind>>[i] = "ok"
    BY <2>2 DEF Answered
  <2> QED  BY <2>1, <2>3 DEF isOpen
<1>3. ASSUME NEW p \in Packet,
             HandleInit(p) \/ TunnelConnected(p) \/ ClaimVerified(p)
      PROVE  isOpen /\ r = Ref(p)
  <2>1. PICK kind \in {"ok", "error", "invalid"} : Send(p, kind)
    BY <1>3 DEF HandleInit, TunnelConnected, ClaimVerified, Respond
  <2>2. phase[p] \in {"running", "waiting"}
    BY <1>3 DEF HandleInit, TunnelConnected, ClaimVerified, Handles, Awaits
  <2> QED  BY <1>2, <2>1, <2>2
<1>4. ASSUME NEW p \in Packet, DisconnectTunnel(p)
      PROVE  isOpen /\ r = Ref(p) /\ tunnels[Current(p).id] # None
  <2>1. phase[p] \in {"running", "waiting"}
    BY <1>4 DEF DisconnectTunnel, Serves, Handles
  <2>2. CASE tunnels[Current(p).id] = None
    BY <1>2, <1>4, <2>1, <2>2 DEF DisconnectTunnel, Respond
  <2>3. CASE tunnels[Current(p).id] # None
    BY <1>2, <1>4, <2>1, <2>3 DEF DisconnectTunnel, Respond
  <2> QED  BY <2>2, <2>3
<1>5. ASSUME NEW p \in Packet, CreateTunnel(p) \/ TunnelRefused(p) \/ ClaimTunnel(p)
      PROVE  FALSE
  <2>1. phase[p] \in {"running", "waiting"}
    BY <1>5 DEF CreateTunnel, TunnelRefused, ClaimTunnel, Serves, Handles, Awaits
  <2>2. Send(p, "error") \/ replies' = replies
    BY <1>5 DEF CreateTunnel, TunnelRefused, ClaimTunnel, Respond, Wait
  <2> QED  BY <1>1, <1>2, <2>1, <2>2
<1>6. ASSUME NEW p \in Packet, RefuseUninitialised(p)
      PROVE  FALSE
  <2>1. phase[p] \in {"running", "waiting"} /\ Send(p, "refused")
    BY <1>6 DEF RefuseUninitialised, Handles
  <2> QED  BY <1>2, <2>1
<1>7. replies' = replies
        \/ \E p \in Packet :
             \/ HandleInit(p) \/ TunnelConnected(p) \/ ClaimVerified(p)
             \/ DisconnectTunnel(p) \/ CreateTunnel(p) \/ TunnelRefused(p)
             \/ ClaimTunnel(p) \/ RefuseUninitialised(p)
  BY DEF Next, Work, Receive, HandleAlert, HandleOther, TunnelMessage, TcpData,
         TcpEnd, TcpError, WsBreaks, WsClosing, WsError, WsClosed, TerminateRejected,
         CloseRejected
<1> QED  BY <1>1, <1>3, <1>4, <1>5, <1>6, <1>7

\* A request that was answered keeps its message.
LEMMA AnsweredKept ==
  ASSUME Inv, Next, NEW r \in Request, NEW kind, Answered(r, kind)
  PROVE  /\ MessageAt(r)' = MessageAt(r)
         /\ \A type : Has(r, type)' => Has(r, type)
<1>1. r[1] \in Packet /\ r[2] \in 1 .. MaxLen /\ r = <<r[1], r[2]>>
  BY RequestParts
<1>2. ~Untouched(r)
  BY DEF Answered, Untouched
<1>3. phase[r[1]] # "unsent"
  <2> SUFFICES ASSUME phase[r[1]] = "unsent" PROVE FALSE
    OBVIOUS
  <2>1. pos[r[1]] = 1
    BY <1>1 DEF Inv, TypeInv, Unsent
  <2>2. pos[r[1]] < r[2] \/ pos[r[1]] = r[2]
    BY <1>1, <2>1
  <2>3. Untouched(<<r[1], r[2]>>)
    BY <1>1, <2>2 DEF Inv, Ahead
  <2> QED  BY <1>1, <1>2, <2>3
<1>4. packet'[r[1]] = packet[r[1]]
  BY <1>1, <1>3, PacketsKept DEF Inv
<1> QED  BY <1>4 DEF MessageAt, Has

\* The message of a request that is handled is the current one, before and
\* after the step.
LEMMA HandledKept ==
  ASSUME Inv, Next, NEW p \in Packet, phase[p] \in {"running", "waiting"}
  PROVE  /\ Ref(p) \in Request
         /\ Current(p) \in Message /\ Current(p).id \in TunnelId
         /\ packet'[p] = packet[p]
         /\ MessageAt(Ref(p)) = Current(p)
         /\ \A type : Has(Ref(p), type) <=> Current(p).type = type
<1>1. packet'[p] = packet[p]
  BY PacketsKept DEF Inv
<1>2. Ref(p) \in Request /\ Current(p) \in Message /\ Current(p).id \in TunnelId
  BY CurrentMessage, MessageTypes DEF Inv
<1>3. MessageAt(Ref(p)) = Current(p) /\ Has(Ref(p), Current(p).type)
  BY CurrentRequest DEF Inv
<1> QED  BY <1>1, <1>2, <1>3 DEF Has, MessageAt

\* Closing a tunnel ends its socket.
LEMMA ClosedIsNotOpen ==
  ASSUME NEW c \in Connection, EventInv(c), NEW open \in BOOLEAN
  PROVE  Closed(c, open).tcp # "open"
<1>1. CASE c.readableEnded
  BY <1>1 DEF Closed, EventInv
<1>2. CASE ~c.readableEnded
  <2>1. Closed(c, open).tcp = IF c.tcp = "open" THEN "ended" ELSE c.tcp
    BY <1>2, ClosedConnection
  <2> QED  BY <2>1
<1> QED  BY <1>1, <1>2

-----------------------------------------------------------------------------
(* The end of a tunnel.                                                     *)

\* The identifier of a tunnel that was disconnected stays taken.
Disconnected ==
  \A r \in Request :
    Has(r, "disconnectTunnel") /\ Answered(r, "ok") =>
      tunnels[MessageAt(r).id] # None

\* The step that confirms disconnectTunnel closes the tunnel.
LEMMA ConfirmsDisconnect ==
  ASSUME Inv, StreamInv, Next, NEW r \in Request, Has(r, "disconnectTunnel")',
         Answered(r, "ok")', ~Answered(r, "ok")
  PROVE  /\ MessageAt(r)' = MessageAt(r)
         /\ MessageAt(r).id \in TunnelId
         /\ tunnels' = tunnels
         /\ tunnels[MessageAt(r).id] # None
         /\ conn'[tunnels[MessageAt(r).id]].tcp # "open"
<1>t. /\ conn \in [Request -> Connection]
      /\ tunnels \in [TunnelId -> Request \cup {None}]
  BY DEF Inv, TypeInv, TypeOK
<1>1. PICK p \in Packet :
        /\ r = Ref(p)
        /\ \/ HandleInit(p) \/ TunnelConnected(p) \/ ClaimVerified(p)
           \/ DisconnectTunnel(p) /\ tunnels[Current(p).id] # None
  BY NewAnswers
<1>2. phase[p] \in {"running", "waiting"}
  BY <1>1 DEF HandleInit, TunnelConnected, ClaimVerified, DisconnectTunnel,
              Serves, Handles, Awaits
<1>3. /\ packet'[p] = packet[p] /\ MessageAt(r) = Current(p)
      /\ Current(p).id \in TunnelId
      /\ Has(r, "disconnectTunnel") <=> Current(p).type = "disconnectTunnel"
  BY <1>1, <1>2, HandledKept
<1>4. MessageAt(r)' = Current(p) /\ Current(p).type = "disconnectTunnel"
  BY <1>1, <1>3 DEF MessageAt, Has, Ref
<1>5. DisconnectTunnel(p) /\ tunnels[Current(p).id] # None
  BY <1>1, <1>4 DEF HandleInit, TunnelConnected, ClaimVerified, Handles, Awaits
<1> DEFINE s == tunnels[Current(p).id]
<1>6. s \in Request /\ s # None
  BY <1>t, <1>3, <1>5
<1>7. tunnels' = tunnels /\ conn' = [conn EXCEPT ![s] = Closed(conn[s], isOpen)]
  BY <1>5 DEF DisconnectTunnel
<1>8. EventInv(conn[s]) /\ conn[s] \in Connection
  BY <1>t, <1>6 DEF StreamInv
<1> HIDE DEF s
<1>9. conn'[s].tcp # "open"
  BY <1>t, <1>6, <1>7, <1>8, ClosedIsNotOpen, IsOpenType
<1> QED  BY <1>3, <1>4, <1>6, <1>7, <1>9 DEF s

LEMMA DisconnectedNext ==
  ASSUME Inv, StreamInv, Disconnected, Next
  PROVE  Disconnected'
<1> SUFFICES ASSUME NEW r \in Request,
                    Has(r, "disconnectTunnel")', Answered(r, "ok")'
             PROVE  tunnels'[MessageAt(r)'.id] # None
  BY DEF Disconnected
<1>1. CASE Answered(r, "ok")
  <2>1. MessageAt(r)' = MessageAt(r) /\ Has(r, "disconnectTunnel")
    BY <1>1, AnsweredKept
  <2>2. MessageAt(r).id \in TunnelId
    BY <2>1, HasType DEF Inv
  <2>3. tunnels[MessageAt(r).id] # None
    BY <1>1, <2>1 DEF Disconnected
  <2> QED  BY <2>1, <2>2, <2>3, TakenKept
<1>2. CASE ~Answered(r, "ok")
  BY <1>2, ConfirmsDisconnect
<1> QED  BY <1>1, <1>2

\* No connection begins under an identifier that is taken.
LEMMA NothingBegins ==
  ASSUME Inv, Next, NEW s \in Request, NEW id \in TunnelId, Creates(s, id),
         tunnels[id] # None, conn[s].tcp \notin {"connecting", "open"}
  PROVE  conn'[s].tcp \notin {"connecting", "open"}
<1>1. conn'[s].tcp # "open"
  <2>1. ASSUME NEW p \in Packet, s = Ref(p), TunnelConnected(p)
        PROVE  FALSE
    BY <2>1, Established DEF Connecting, NoConnection
  <2> QED  BY <2>1, Opens
<1>2. ASSUME conn'[s].tcp = "connecting"
      PROVE  FALSE
  <2>1. conn'[s] # conn[s] /\ conn'[s].tcp \notin Connected
    BY <1>2 DEF Connected
  <2>2. PICK p \in Packet : s = Ref(p) /\ OpeningStep(p)
    BY <2>1, NoneOrStep
  <2>3. CreateTunnel(p) /\ conn' # conn
    BY <1>2, <2>1, <2>2, OpeningFrom DEF Connecting, NoConnection
  <2>4. tunnels[Current(p).id] = None /\ phase[p] = "running"
    BY <2>3 DEF CreateTunnel, Serves, Handles
  <2>5. MessageAt(s) = Current(p)
    BY <2>2, <2>4, CurrentRequest DEF Inv
  <2> QED  BY <2>4, <2>5 DEF Creates
<1> QED  BY <1>1, <1>2

LEMMA ConfirmedNext ==
  ASSUME Inv, StreamInv, ConfirmedTunnelsClose, Next
  PROVE  ConfirmedTunnelsClose'
<1> SUFFICES ASSUME ws' = "closed", NEW r \in Request,
                    Registered(r)', Answered(r, "ok")'
             PROVE  conn'[r].tcp # "open"
  BY DEF ConfirmedTunnelsClose
<1>1. CASE ws = "closed"
  <2>1. Answered(r, "ok")
    BY <1>1, NewAnswers DEF isOpen
  <2>2. ASSUME NEW p \in Packet, TunnelConnected(p)
        PROVE  Ref(p) # r
    BY <2>1, <2>2, Established DEF Answered
  <2>3. Registered(r)
    <3>1. CASE tunnels' = tunnels
      BY <3>1 DEF Registered
    <3>2. ASSUME NEW p \in Packet, TunnelConnected(p)
          PROVE  Registered(r)
      BY <2>2, <3>2, Established DEF Registered, Inv, TypeInv, TypeOK
    <3> QED  BY <3>1, <3>2, TunnelsChange
  <2>4. conn[r].tcp # "open"
    BY <1>1, <2>1, <2>3 DEF ConfirmedTunnelsClose
  <2> QED  BY <2>2, <2>4, Opens
<1>2. CASE ws # "closed"
  <2>1. WsClosed
    BY <1>2
    DEF Next, Work, Receive, HandleAlert, HandleOther, RefuseUninitialised,
        HandleInit, CreateTunnel, TunnelConnected, TunnelRefused,
        DisconnectTunnel, ClaimTunnel, ClaimVerified, TunnelMessage, TcpData,
        TcpEnd, TcpError, WsBreaks, WsClosing, WsError, TerminateRejected, CloseRejected
  <2>2. Registered(r) /\ conn' = CloseTunnels(FALSE)
    BY <2>1 DEF WsClosed, Registered
  <2>3. conn'[r] = Closed(conn[r], FALSE)
    BY <2>2 DEF CloseTunnels
  <2>4. EventInv(conn[r]) /\ conn[r] \in Connection
    BY DEF StreamInv, Inv, TypeInv, TypeOK
  <2> QED  BY <2>3, <2>4, ClosedIsNotOpen
<1> QED  BY <1>1, <1>2

-----------------------------------------------------------------------------
(* Claims.  What was checked when the claim came stays true while it is     *)
(* verified, and for ever.                                                  *)

BackedBy(s, m) ==
  /\ Creates(s, m.id)
  /\ conn[s].tcp \in Connected
  /\ IsPrefix(m.recvs, conn[s].recvd)
  /\ IsPrefix(m.sends, conn[s].sent)

Backed(r) == \E s \in Request : BackedBy(s, MessageAt(r))

Verified(r) ==
  \/ Answered(r, "ok")
  \/ \E p \in Packet : r = Ref(p) /\ phase[p] = "waiting"

ClaimInv ==
  \A r \in Request : Has(r, "claimTunnel") /\ Verified(r) => Backed(r)

LEMMA BackedKept ==
  ASSUME Inv, Next, NEW r \in Request,
         Has(r, "claimTunnel"), Backed(r), MessageAt(r)' = MessageAt(r)
  PROVE  Backed(r)'
<1> DEFINE m == MessageAt(r)
<1>1. /\ m.id \in TunnelId /\ m.sends \in Seq(Data) /\ m.recvs \in Seq(Nat)
  BY HasType DEF Inv
<1>2. PICK s \in Request : BackedBy(s, m)
  BY DEF Backed
<1>3. /\ Has(s, "createTunnel")' /\ MessageAt(s)'.id = m.id
      /\ conn'[s].tcp \in Connected
  BY <1>2, RequestsKept, ConnectedKept DEF BackedBy, Creates, Inv
<1>4. Grown(conn[s], conn'[s])
  BY ConnectionsGrow
<1>5. conn[s] \in Connection /\ conn'[s] \in Connection
  BY TypeNext DEF Inv, TypeInv, TypeOK
<1>6. /\ conn[s].sent \in Seq(Data) /\ conn[s].recvd \in Seq(Nat)
      /\ conn'[s].sent \in Seq(Data) /\ conn'[s].recvd \in Seq(Nat)
  BY <1>5, ConnectionFields
<1>7. IsPrefix(m.recvs, conn[s].recvd) /\ IsPrefix(m.sends, conn[s].sent)
  BY <1>2 DEF BackedBy
<1> HIDE DEF m
<1>8. IsPrefix(m.recvs, conn'[s].recvd)
  BY <1>1, <1>4, <1>6, <1>7, PrefixTransitive DEF Grown
<1>9. IsPrefix(m.sends, conn'[s].sent)
  BY <1>1, <1>4, <1>6, <1>7, PrefixTransitive DEF Grown
<1>10. MessageAt(r)' = m
  BY DEF m
<1> QED  BY <1>3, <1>8, <1>9, <1>10 DEF Backed, BackedBy, Creates

\* What a claim is checked against.
LEMMA MatchIsBacked ==
  ASSUME Inv, Origins, NEW p \in Packet, ClaimTunnel(p), phase'[p] = "waiting"
  PROVE  Backed(Ref(p))
<1>1. phase[p] = "running"
  BY DEF ClaimTunnel, Serves, Handles
<1>2. phase \in [Packet -> {"unsent", "running", "waiting", "done",
                            "failed", "rejected"}]
  BY DEF Inv, TypeInv, TypeOK
<1>3. ~Respond(p, "error")
  BY <1>2 DEF Respond, Drop
<1> DEFINE m == Current(p)
           s == tunnels[Current(p).id]
<1>4. s # None /\ ClaimMatches(m, conn[s])
  BY <1>3 DEF ClaimTunnel
<1>5. MessageAt(Ref(p)) = m /\ m \in Message /\ m.id \in TunnelId
  BY <1>1, CurrentMessage, CurrentRequest, MessageTypes DEF Inv
<1>6. m.sends \in Seq(Data)
  BY <1>5 DEF Message
<1>7. IsPrefix(m.recvs, conn[s].recvd) /\ IsPrefix(m.sends, conn[s].sent)
  BY <1>4, <1>6, PrefixReflexive DEF ClaimMatches
<1>8. s \in Request /\ Creates(s, m.id) /\ conn[s].tcp \in Connected
  BY <1>4, <1>5, TunnelOrigin DEF Creates, Inv, TunnelsConnected
<1> HIDE DEF m, s
<1>9. BackedBy(s, m)
  BY <1>7, <1>8 DEF BackedBy
<1> QED  BY <1>5, <1>8, <1>9 DEF Backed

\* An RPC that begins to wait is a createTunnel or a claimTunnel.
LEMMA BeginsToWait ==
  ASSUME Inv, Next, NEW p \in Packet, phase[p] # "waiting", phase'[p] = "waiting"
  PROVE  CreateTunnel(p) \/ ClaimTunnel(p)
<1>1. phase \in [Packet -> {"unsent", "running", "waiting", "done",
                            "failed", "rejected"}]
  BY DEF Inv, TypeInv, TypeOK
<1>2. ASSUME NEW q \in Packet, Advance(q) \/ Drop(q)
      PROVE  FALSE
  BY <1>1, <1>2 DEF Advance, Drop
<1>3. ASSUME NEW q \in Packet, NEW kind, Respond(q, kind)
      PROVE  FALSE
  BY <1>2, <1>3 DEF Respond
<1>4. ASSUME NEW q \in Packet, CreateTunnel(q) \/ ClaimTunnel(q)
      PROVE  q = p
  <2>1. Wait(q)
    BY <1>3, <1>4 DEF CreateTunnel, ClaimTunnel
  <2> QED  BY <1>1, <2>1 DEF Wait
<1>5. ASSUME NEW q \in Packet, Receive(q)
      PROVE  FALSE
  BY <1>1, <1>5 DEF Receive, Started
<1>6. ASSUME NEW q \in Packet,
             \/ HandleAlert(q) \/ HandleOther(q) \/ RefuseUninitialised(q)
             \/ HandleInit(q) \/ TunnelConnected(q) \/ TunnelRefused(q)
             \/ DisconnectTunnel(q) \/ ClaimVerified(q) \/ TunnelMessage(q)
      PROVE  FALSE
  <2>1. Advance(q) \/ \E kind : Respond(q, kind)
    BY <1>6
    DEF HandleAlert, HandleOther, RefuseUninitialised, HandleInit,
        TunnelConnected, TunnelRefused, DisconnectTunnel, ClaimVerified,
        TunnelMessage
  <2> QED  BY <1>2, <1>3, <2>1
<1>7. CASE TerminateRejected
  BY <1>1, <1>7 DEF TerminateRejected
<1>8. CASE \/ \E r \in Request : TcpData(r) \/ TcpEnd(r) \/ TcpError(r)
           \/ WsBreaks \/ WsClosing \/ WsError \/ WsClosed \/ CloseRejected
  BY <1>8 DEF TcpData, TcpEnd, TcpError, WsBreaks, WsClosing, WsError, WsClosed,
              CloseRejected
<1> QED  BY <1>4, <1>5, <1>6, <1>7, <1>8 DEF Next, Work

LEMMA ClaimNext ==
  ASSUME Inv, Origins, ClaimInv, Next
  PROVE  ClaimInv'
<1> SUFFICES ASSUME NEW r \in Request,
                    Has(r, "claimTunnel")', Verified(r)'
             PROVE  Backed(r)'
  BY DEF ClaimInv
<1>2. CASE Has(r, "claimTunnel") /\ Verified(r)
  <2>1. Backed(r)
    BY <1>2 DEF ClaimInv
  <2>2. MessageAt(r)' = MessageAt(r)
    BY <1>2, RequestsKept DEF Inv
  <2> QED  BY <1>2, <2>1, <2>2, BackedKept
<1>3. CASE ~Answered(r, "ok") /\ Answered(r, "ok")'
  <2>1. PICK p \in Packet :
          /\ r = Ref(p)
          /\ \/ HandleInit(p) \/ TunnelConnected(p) \/ ClaimVerified(p)
             \/ DisconnectTunnel(p)
    BY <1>3, NewAnswers
  <2>2. phase[p] \in {"running", "waiting"}
    BY <2>1 DEF HandleInit, TunnelConnected, ClaimVerified, DisconnectTunnel,
                Serves, Handles, Awaits
  <2>3. /\ packet'[p] = packet[p]
        /\ Has(r, "claimTunnel") <=> Current(p).type = "claimTunnel"
    BY <2>1, <2>2, HandledKept
  <2>4. Has(r, "claimTunnel") /\ Current(p).type = "claimTunnel"
    BY <2>1, <2>3 DEF Has, Ref
  <2>5. phase[p] = "waiting"
    BY <2>1, <2>4 DEF HandleInit, TunnelConnected, ClaimVerified,
                      DisconnectTunnel, Serves, Handles, Awaits
  <2> QED  BY <1>2, <2>1, <2>4, <2>5 DEF Verified
<1>4. CASE Answered(r, "ok")
  BY <1>2, <1>4, AnsweredKept DEF Verified
<1>5. ASSUME NEW p \in Packet, r = <<p, pos'[p]>>, phase'[p] = "waiting"
      PROVE  Backed(r)'
  <2>1. CASE phase[p] = "waiting"
    <3>1. ASSUME NEW q \in Packet, PacketMove(q)
          PROVE  pos'[p] = pos[p]
      BY <1>5, <2>1, <3>1
      DEF PacketMove, Advance, Drop, Wait, Inv, TypeInv, TypeOK
    <3>2. pos'[p] = pos[p]
      BY <3>1, PacketSteps
    <3>3. r = Ref(p)
      BY <1>5, <3>2 DEF Ref
    <3>4. /\ packet'[p] = packet[p]
      BY <2>1, HandledKept
    <3>5. Has(r, "claimTunnel")
      BY <3>3, <3>4 DEF Has, Ref
    <3> QED  BY <1>2, <2>1, <3>3, <3>5 DEF Verified
  <2>2. CASE phase[p] # "waiting"
    <3>1. CreateTunnel(p) \/ ClaimTunnel(p)
      BY <1>5, <2>2, BeginsToWait
    <3>2. phase[p] = "running" /\ pos'[p] = pos[p]
      BY <1>5, <3>1
      DEF CreateTunnel, ClaimTunnel, Serves, Handles, Respond, Advance, Drop,
          Wait, Inv, TypeInv, TypeOK
    <3>3. r = Ref(p)
      BY <1>5, <3>2 DEF Ref
    <3>4. /\ packet'[p] = packet[p] /\ MessageAt(r) = Current(p)
          /\ Has(r, "claimTunnel") <=> Current(p).type = "claimTunnel"
      BY <3>2, <3>3, HandledKept
    <3>5. /\ MessageAt(r)' = MessageAt(r) /\ Has(r, "claimTunnel")
          /\ Current(p).type = "claimTunnel"
      BY <3>3, <3>4 DEF MessageAt, Has, Ref
    <3>6. ClaimTunnel(p)
      BY <3>1, <3>5 DEF CreateTunnel, Serves, Handles
    <3>7. Backed(r)
      BY <1>5, <3>3, <3>6, MatchIsBacked
    <3> QED  BY <3>5, <3>7, BackedKept
  <2> QED  BY <2>1, <2>2
<1>6. Answered(r, "ok")' \/ \E p \in Packet : r = <<p, pos'[p]>> /\ phase'[p] = "waiting"
  BY DEF Verified, Ref
<1> QED  BY <1>3, <1>4, <1>5, <1>6

-----------------------------------------------------------------------------
(* The session as a whole.                                                  *)

SessionInv ==
  /\ Inv /\ StreamInv
  /\ NothingBeforeInit /\ Origins /\ Taken /\ Attempts /\ OnceInPacket
  /\ Disconnected /\ ConfirmedTunnelsClose /\ ClaimInv

LEMMA SessionInit == Init => SessionInv
<1> SUFFICES ASSUME Init PROVE SessionInv
  OBVIOUS
<1>1. Inv /\ StreamInv
  BY InvInit, StreamInit
<1>2. \A r \in Request : conn[r] = NoConnection /\ replies[r] = <<>>
  BY DEF Init
<1>3. NothingBeforeInit /\ Taken /\ Attempts /\ OnceInPacket
  BY <1>2 DEF NothingBeforeInit, Taken, Attempts, OnceInPacket, NoConnection,
              Connected
<1>4. Origins
  BY <1>2 DEF Init, Origins
<1>5. \A r \in Request : ~Answered(r, "ok")
  BY <1>2 DEF Answered
<1>6. Disconnected /\ ConfirmedTunnelsClose
  BY <1>5 DEF Disconnected, ConfirmedTunnelsClose
<1>7. \A p \in Packet : phase[p] # "waiting"
  BY DEF Init, Started
<1>8. ClaimInv
  BY <1>5, <1>7 DEF ClaimInv, Verified
<1> QED  BY <1>1, <1>3, <1>4, <1>6, <1>8 DEF SessionInv

LEMMA SessionNext == SessionInv /\ [Next]_vars => SessionInv'
<1>1. ASSUME SessionInv, Next
      PROVE  SessionInv'
  <2>1. Inv' /\ StreamInv'
    BY <1>1, InvNext, StreamNext DEF SessionInv
  <2>2. /\ NothingBeforeInit' /\ Origins' /\ Taken' /\ Attempts'
        /\ OnceInPacket'
    BY <1>1, GateNext, OriginsNext, TakenNext, AttemptsNext, OnceInPacketNext
    DEF SessionInv
  <2>3. Disconnected' /\ ConfirmedTunnelsClose' /\ ClaimInv'
    BY <1>1, DisconnectedNext, ConfirmedNext, ClaimNext DEF SessionInv
  <2> QED  BY <2>1, <2>2, <2>3 DEF SessionInv
<1>2. ASSUME SessionInv, UNCHANGED vars
      PROVE  SessionInv'
  <2>1. Inv' /\ StreamInv'
    BY <1>2, InvNext, StreamNext DEF SessionInv
  <2>2. /\ NothingBeforeInit' /\ Origins' /\ Taken' /\ Attempts'
        /\ OnceInPacket'
    BY <1>2
    DEF SessionInv, vars, NothingBeforeInit, Origins, Taken, Attempts,
        OnceInPacket, Has, MessageAt
  <2>3. Disconnected' /\ ConfirmedTunnelsClose' /\ ClaimInv'
    BY <1>2
    DEF SessionInv, vars, Disconnected, ConfirmedTunnelsClose, ClaimInv, Has,
        MessageAt, Registered, Answered, Verified, Backed, BackedBy, Creates, Ref
  <2> QED  BY <2>1, <2>2, <2>3 DEF SessionInv
<1> QED  BY <1>1, <1>2

LEMMA SessionAlways == Spec => []SessionInv
BY SessionInit, SessionNext, PTL DEF Spec

\* No connection is attempted before init was accepted.
THEOREM InitComesFirst == Spec => []NothingBeforeInit
<1>1. SessionInv => NothingBeforeInit
  BY DEF SessionInv
<1> QED  BY <1>1, SessionAlways, PTL

\* An open socket that client.tunnels does not hold was overtaken by a tunnel
\* of another packet.
THEOREM OrphansWereOvertaken == Spec => []OrphansAreOvertaken
<1>1. ASSUME SessionInv, NEW r \in Request, conn[r].tcp = "open", ~Registered(r)
      PROVE  LET tunnel == tunnels[MessageAt(r).id]
             IN  tunnel # None /\ tunnel[1] # r[1]
  <2> DEFINE id == MessageAt(r).id
             s == tunnels[MessageAt(r).id]
  <2>1. conn[r].tcp \in Connected /\ conn[r] # NoConnection
    BY <1>1 DEF Connected, NoConnection
  <2>2. id \in TunnelId /\ s # None
    BY <1>1, <2>1, HasType DEF SessionInv, Origins, Taken, Inv
  <2>3. s \in Request /\ MessageAt(s).id = id
    BY <1>1, <2>2, TunnelOrigin DEF SessionInv
  <2>4. conn[s] # NoConnection
    BY <1>1, <2>2 DEF SessionInv, Inv, TunnelsConnected, Connected, NoConnection
  <2>5. s # r
    BY <1>1, <2>2 DEF Registered
  <2> HIDE DEF s, id
  <2>6. s[1] = r[1] => r[2] < s[2] \/ s[2] < r[2]
    BY <2>3, <2>5, RequestParts
  <2>7. MessageAt(r).id = id
    BY DEF id
  <2>8. s[1] # r[1]
    BY <1>1, <2>1, <2>3, <2>4, <2>6, <2>7 DEF SessionInv, OnceInPacket
  <2> QED  BY <2>2, <2>8 DEF s
<1>2. SessionInv => OrphansAreOvertaken
  BY <1>1 DEF OrphansAreOvertaken
<1> QED  BY <1>2, SessionAlways, PTL

\* A disconnection that was confirmed closed the tunnel, and no connection
\* begins under its identifier any more.
THEOREM DisconnectionIsFinal == Spec => DisconnectIsFinal
<1>1. ASSUME SessionInv, Next
      PROVE  \A r \in Request : Has(r, "disconnectTunnel") =>
               LET id == MessageAt(r).id
               IN  /\ ~Answered(r, "ok") /\ Answered(r, "ok")' =>
                         tunnels[id] # None /\ conn'[tunnels[id]].tcp # "open"
                   /\ Answered(r, "ok") =>
                         \A s \in Request :
                           Creates(s, id) /\ conn[s].tcp \notin {"connecting", "open"}
                             => conn'[s].tcp \notin {"connecting", "open"}
  <2> SUFFICES ASSUME NEW r \in Request, Has(r, "disconnectTunnel")
               PROVE  LET id == MessageAt(r).id
                      IN  /\ ~Answered(r, "ok") /\ Answered(r, "ok")' =>
                                tunnels[id] # None /\ conn'[tunnels[id]].tcp # "open"
                          /\ Answered(r, "ok") =>
                                \A s \in Request :
                                  /\ Creates(s, id)
                                  /\ conn[s].tcp \notin {"connecting", "open"}
                                  => conn'[s].tcp \notin {"connecting", "open"}
    OBVIOUS
  <2>1. Has(r, "disconnectTunnel")' /\ MessageAt(r).id \in TunnelId
    BY <1>1, RequestsKept, HasType DEF SessionInv, Inv
  <2>2. Answered(r, "ok") => tunnels[MessageAt(r).id] # None
    BY <1>1 DEF SessionInv, Disconnected
  <2> QED  BY <1>1, <2>1, <2>2, ConfirmsDisconnect, NothingBegins DEF SessionInv
<1> QED  BY <1>1, SessionAlways, PTL DEF Spec, DisconnectIsFinal

\* A tunnel that was confirmed to the client is closed with the session.
THEOREM ConfirmedTunnelsAreClosed == Spec => []ConfirmedTunnelsClose
<1>1. SessionInv => ConfirmedTunnelsClose
  BY DEF SessionInv
<1> QED  BY <1>1, SessionAlways, PTL

\* A claim that was signed agrees with the transcript of its tunnel, whatever
\* went on while it was verified and ever after.
THEOREM SignedClaimsAreBacked == Spec => []ClaimsAreBacked
<1>1. SessionInv => ClaimsAreBacked
  BY DEF SessionInv, ClaimInv, Verified, Backed, BackedBy, ClaimsAreBacked
<1> QED  BY <1>1, SessionAlways, PTL

\* Transcripts are append-only, and with distinct identifiers a registered
\* tunnel is never replaced.
THEOREM TranscriptsOnlyGrow == Spec => TranscriptsGrow
<1>1. ASSUME SessionInv, Next
      PROVE  /\ \A r \in Request : /\ IsPrefix(conn[r].sent, conn'[r].sent)
                                   /\ IsPrefix(conn[r].recvd, conn'[r].recvd)
             /\ UniqueIds => \A t \in TunnelId :
                               tunnels[t] # None => tunnels'[t] = tunnels[t]
  BY <1>1, ConnectionsGrow, TunnelsKept DEF SessionInv, Grown
<1> QED  BY <1>1, SessionAlways, PTL DEF Spec, TranscriptsGrow
=============================================================================
