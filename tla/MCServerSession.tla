-------------------------- MODULE MCServerSession --------------------------
(* Instances of ServerSession for TLC: the packets the client may send.      *)
EXTENDS ServerSession

CONSTANTS t1, t2, d

Msg(type, id) ==
  [type |-> type, id |-> id, valid |-> TRUE, data |-> d,
   sends |-> <<>>, recvs |-> <<>>]

Hello == Msg("init", t1)
BadHello == [Hello EXCEPT !.valid = FALSE]
Create(t) == Msg("createTunnel", t)
Close(t) == Msg("disconnectTunnel", t)
Write(t) == Msg("tunnelMessage", t)
Claim(t, sends, recvs) == [Msg("claimTunnel", t) EXCEPT !.sends = sends,
                                                        !.recvs = recvs]
Alert == Msg("alert", t1)

\* One tunnel, its data, its claims and its end; another tunnel may be made
\* under the same identifier at the same time.
TunnelPackets ==
  {<<Hello, Create(t1)>>, <<Create(t1)>>, <<Write(t1), Close(t1)>>,
   <<Write(t1), Claim(t1, <<d>>, <<1>>)>>, <<Claim(t1, <<>>, <<>>)>>}

\* Two identifiers, one of them for several tunnels.
IdPackets ==
  {<<Hello, Create(t1)>>, <<Msg("other", t1), BadHello>>,
   <<Create(t1), Create(t1)>>, <<Create(t2), Alert>>,
   <<Close(t1), Claim(t1, <<>>, <<>>)>>}
=============================================================================
