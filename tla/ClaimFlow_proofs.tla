-------------------------- MODULE ClaimFlow_proofs --------------------------
(* What holds of ClaimFlow, however many calls, retries and connections      *)
(* there are, and of the page that asks for the claims (WindowRpc).          *)
EXTENDS WindowRpc, TLAPS

-----------------------------------------------------------------------------
(* Connections: a socket never goes back.                                   *)

Over == {"closing", "closed"}
Up == {"open"} \cup Over

Ahead(c) ==
  /\ conn[c].ws \in Up => conn'[c].ws \in Up
  /\ conn[c].ws \in Over => conn'[c].ws \in Over

ConnType == conn \in [Client -> Connection] /\ pool \in Client \cup {None}

LEMMA ConnectionType ==
  ASSUME NEW c \in Connection
  PROVE  /\ c.ws \in {"none", "connecting", "open", "closing", "closed"}
         /\ c.init \in {"pending", "ok", "rejected"}
         /\ c.awaited \in BOOLEAN
         /\ c.doomed \in {"no", "network", "badRequest", "told"}
BY DEF Connection

LEMMA NewConnectionType ==
  ASSUME NEW awaited \in BOOLEAN
  PROVE  NewConnection(awaited) \in Connection /\ NoConnection \in Connection
BY DEF NewConnection, NoConnection, Connection

-----------------------------------------------------------------------------
(* Attempts.                                                                *)

LEMMA AttemptFields ==
  ASSUME NEW x \in Attempt
  PROVE  /\ x.attempt \in 0 .. MaxRetries /\ x.client \in Client \cup {None}
         /\ x.created \in BOOLEAN /\ x.sent \in BOOLEAN
         /\ x.closed \in BOOLEAN /\ x.ended \in BOOLEAN
         /\ x.complete \in BOOLEAN
         /\ x.srv \in {"none", "open", "closed"}
         /\ x.allData \in {"none", "pending", "resolved", "rejected"}
         /\ x.err \in Error \cup {"unset"}
         /\ x.pc \in {"start", "creating", "handshaking", "writing", "waiting",
                      "disconnecting", "proving", "claiming", "claimed",
                      "failed"}
BY DEF Attempt

LEMMA FreshType ==
  ASSUME NEW n \in 0 .. MaxRetries
  PROVE  /\ Fresh(n) \in Attempt
         /\ Fresh(n).pc = "start" /\ Fresh(n).attempt = n
         /\ Fresh(n).allData = "none" /\ ~Fresh(n).closed
         /\ Fresh(n).srv = "none"
BY DEF Fresh, Attempt

\* What an attempt knows of its own response and tunnel.
Whole(x) ==
  /\ x.pc # "failed" => x.attempt < MaxRetries
  /\ x.allData = "resolved" => x.complete \/ x.err = "none"
  /\ x.allData = "rejected" => x.err \in Error
  /\ x.pc \in {"disconnecting", "proving", "claiming", "claimed"}
       => x.allData = "resolved"
  /\ x.pc \in {"start", "creating"} => ~x.closed
  /\ x.closed /\ x.pc \in {"handshaking", "writing", "waiting"}
       => x.srv = "closed"
  /\ x.pc \in {"claiming", "claimed"} => x.srv # "open"

\* A failure leads to another attempt or ends the call.
LEMMA FailedAttempt ==
  ASSUME NEW x \in Attempt, x.attempt < MaxRetries, NEW err \in Error
  PROVE  LET y == Failed(x, err)
         IN  /\ y \in Attempt /\ Whole(y)
             /\ y.pc \in {"start", "failed"}
             /\ y.attempt = x.attempt + 1
<1>1. x.attempt + 1 \in 0 .. MaxRetries
  BY AttemptFields, ClaimAssumption
<1> DEFINE f == Fresh(x.attempt + 1)
           g == [f EXCEPT !.pc = "failed", !.err = err,
                          !.created = x.created, !.client = x.client]
<1>2. /\ f \in Attempt /\ f.pc = "start" /\ f.attempt = x.attempt + 1
      /\ f.allData = "none" /\ ~f.closed
  BY <1>1, FreshType
<1>3. Failed(x, err) = IF shouldRetry(err) /\ x.attempt + 1 < MaxRetries
                       THEN f ELSE g
  BY DEF Failed
<1> HIDE DEF f
<1>4. /\ g \in Attempt /\ g.pc = "failed" /\ g.attempt = x.attempt + 1
      /\ g.allData = "none" /\ ~g.closed
  BY <1>2, AttemptFields DEF Attempt
<1> HIDE DEF g
<1>5. x.attempt + 1 < MaxRetries => Whole(f)
  BY <1>2 DEF Whole
<1>6. Whole(g)
  BY <1>4 DEF Whole
<1> QED  BY <1>2, <1>3, <1>4, <1>5, <1>6

\* What the end of the TLS session or of the tunnel makes of an attempt.
LEMMA ConnectionClosedAttempt ==
  ASSUME NEW x \in Attempt, Whole(x), NEW err \in Error,
         x.pc \in {"handshaking", "writing", "waiting"}
  PROVE  LET y == ConnectionClosed(x, err)
         IN  /\ y \in Attempt /\ Whole(y)
             /\ \/ y.pc = x.pc /\ y.client = x.client
                   /\ y.attempt = x.attempt
                \/ y.pc \in {"start", "failed"}
<1>0. x.attempt < MaxRetries
  BY DEF Whole
<1>1. CASE x.ended
  BY <1>1 DEF ConnectionClosed
<1>2. CASE ~x.ended /\ x.pc = "handshaking"
  <2>1. ConnectionClosed(x, err) = Failed(x, err)
    BY <1>2 DEF ConnectionClosed
  <2> QED  BY <1>0, <2>1, FailedAttempt
<1>3. CASE ~x.ended /\ x.pc # "handshaking"
  <2> DEFINE e == IF x.allData = "pending" THEN err ELSE x.err
             a == IF x.allData # "pending" THEN x.allData
                  ELSE IF err = "none" THEN "resolved" ELSE "rejected"
             y == [x EXCEPT !.ended = TRUE, !.err = e, !.allData = a]
  <2>1. ConnectionClosed(x, err) = y
    BY <1>3 DEF ConnectionClosed
  <2>2. e \in Error \cup {"unset"}
        /\ a \in {"none", "pending", "resolved", "rejected"}
    BY AttemptFields
  <2>3. /\ a = "resolved" => x.complete \/ e = "none"
        /\ a = "rejected" => e \in Error
    BY DEF Whole
  <2> HIDE DEF e, a
  <2>4. /\ y \in Attempt /\ y.pc = x.pc /\ y.client = x.client
        /\ y.attempt = x.attempt /\ y.complete = x.complete
        /\ y.closed = x.closed /\ y.srv = x.srv
        /\ y.allData = a /\ y.err = e
    BY ZenonT(40), <2>2 DEF Attempt
  <2> HIDE DEF y
  <2>5. Whole(y)
    BY <2>3, <2>4 DEF Whole
  <2> QED  BY <2>1, <2>4, <2>5
<1> QED  BY <1>1, <1>2, <1>3

LEMMA TunnelClosedAttempt ==
  ASSUME NEW x \in Attempt, Whole(x), NEW err \in Error,
         x.pc \in {"handshaking", "writing", "waiting"}
  PROVE  LET y == TunnelClosed(x, err)
         IN  /\ y \in Attempt /\ Whole(y)
             /\ \/ y.pc = x.pc /\ y.client = x.client
                   /\ y.attempt = x.attempt
                \/ y.pc \in {"start", "failed"}
<1> DEFINE y == ConnectionClosed(x, err)
           z == [y EXCEPT !.closed = TRUE, !.srv = "closed"]
<1>1. /\ y \in Attempt /\ Whole(y)
      /\ \/ y.pc = x.pc /\ y.client = x.client /\ y.attempt = x.attempt
         \/ y.pc \in {"start", "failed"}
  BY ConnectionClosedAttempt
<1>2. TunnelClosed(x, err) = IF y.pc = x.pc THEN z ELSE y
  BY DEF TunnelClosed
<1> HIDE DEF y
<1>3. /\ z \in Attempt /\ z.pc = y.pc /\ z.client = y.client
      /\ z.attempt = y.attempt /\ z.complete = y.complete
      /\ z.closed = TRUE /\ z.srv = "closed"
      /\ z.allData = y.allData /\ z.err = y.err
  BY <1>1 DEF Attempt
<1> HIDE DEF z
<1>4. y.pc = x.pc => Whole(z)
  BY <1>1, <1>3 DEF Whole
<1> QED  BY <1>1, <1>2, <1>3, <1>4

\* What the end of the connection makes of it.
LEMMA TerminatedAttempt ==
  ASSUME NEW x \in Attempt, Whole(x), NEW err \in Error
  PROVE  LET y == Terminated(x, err)
         IN  /\ y \in Attempt /\ Whole(y)
             /\ \/ y.pc = x.pc /\ y.client = x.client
                   /\ y.attempt = x.attempt /\ (y.srv = "open" => x.srv = "open")
                \/ y.pc \in {"start", "failed"}
                \/ /\ x.pc = "disconnecting" /\ y.pc = "proving"
                   /\ y.client = x.client /\ y.attempt = x.attempt
                   /\ y.srv = "closed"
<1>1. CASE x.pc \in {"creating", "claiming"}
  <2>1. Terminated(x, err) = Failed(x, err) /\ x.attempt < MaxRetries
    BY <1>1 DEF Terminated, Whole
  <2> QED  BY <2>1, FailedAttempt
<1>2. CASE x.pc \in {"handshaking", "writing", "waiting"} /\ ~x.closed
  <2>1. Terminated(x, err) = TunnelClosed(x, err)
    BY <1>2 DEF Terminated
  <2> DEFINE y == TunnelClosed(x, err)
  <2>2. /\ y \in Attempt /\ Whole(y)
        /\ \/ y.pc = x.pc /\ y.client = x.client /\ y.attempt = x.attempt
           \/ y.pc \in {"start", "failed"}
    BY <1>2, TunnelClosedAttempt
  <2>3. y.pc = x.pc => y.srv = "closed"
    <3> DEFINE c == ConnectionClosed(x, err)
               z == [c EXCEPT !.closed = TRUE, !.srv = "closed"]
    <3>1. y = IF c.pc = x.pc THEN z ELSE c
      BY DEF TunnelClosed
    <3>2. c \in Attempt
      BY <1>2, ConnectionClosedAttempt
    <3> HIDE DEF c, y
    <3>3. z.srv = "closed"
      BY <3>2 DEF Attempt
    <3> QED  BY <3>1, <3>3
  <2> HIDE DEF y
  <2> QED  BY <2>1, <2>2, <2>3 DEF y
<1>3. CASE x.pc = "disconnecting"
  <2> DEFINE y == [x EXCEPT !.pc = "proving", !.srv = "closed"]
  <2>1. Terminated(x, err) = y
    BY <1>3 DEF Terminated
  <2>2. /\ y \in Attempt /\ y.pc = "proving" /\ y.srv = "closed"
        /\ y.client = x.client /\ y.attempt = x.attempt
        /\ y.complete = x.complete /\ y.closed = x.closed
        /\ y.allData = x.allData /\ y.err = x.err
    BY DEF Attempt
  <2> HIDE DEF y
  <2>3. Whole(y)
    BY <1>3, <2>2 DEF Whole
  <2> QED  BY <1>3, <2>1, <2>2, <2>3
<1>4. CASE ~ \/ x.pc \in {"creating", "claiming"}
             \/ x.pc \in {"handshaking", "writing", "waiting"} /\ ~x.closed
             \/ x.pc = "disconnecting"
  BY <1>4 DEF Terminated
<1> QED  BY <1>1, <1>2, <1>3, <1>4

-----------------------------------------------------------------------------
(* The attempts and their connections.                                      *)

\* Where an attempt is with its connection.  One that goes on although the
\* connection is over leaves a tunnel that the witness has closed with it.
Placed(x) ==
  /\ x.pc \notin {"start", "failed"} => x.client \in Client
  /\ x.pc \in {"handshaking", "writing", "waiting", "disconnecting", "proving",
               "claiming", "claimed"}
       => conn[x.client].ws \in Up
  /\ x.pc = "proving" /\ x.srv = "open" => conn[x.client].ws \in Over

\* The connection that new attempts take up.
Single ==
  \A c \in Client :
    conn[c].ws \in {"connecting", "open"} => c = IF given THEN 1 ELSE pool

FlowInv ==
  /\ TypeOK
  /\ \A k \in Call : Whole(call[k]) /\ Placed(call[k])
  /\ Single

LEMMA PlacedKept ==
  ASSUME NEW x, Placed(x), \A c \in Client : Ahead(c)
  PROVE  Placed(x)'
BY DEF Placed, Ahead

LEMMA FlowInit == Init => FlowInv
<1> SUFFICES ASSUME Init PROVE FlowInv
  OBVIOUS
<1>1. 0 \in 0 .. MaxRetries /\ 0 < MaxRetries
  BY ClaimAssumption
<1>2. /\ Fresh(0) \in Attempt /\ Fresh(0).pc = "start"
      /\ Fresh(0).attempt = 0 /\ Fresh(0).allData = "none"
      /\ ~Fresh(0).closed
  BY <1>1, FreshType
<1>3. Whole(Fresh(0))
  BY <1>1, <1>2 DEF Whole
<1>4. Placed(Fresh(0))
  BY <1>2 DEF Placed
<1>5. TypeOK
  BY <1>2, NewConnectionType DEF Init, TypeOK
<1>6. Single
  BY DEF Init, Single, NoConnection, NewConnection
<1> QED  BY <1>3, <1>4, <1>5, <1>6 DEF Init, FlowInv

\* A step of one call, which leaves the connections where they are or ahead.
LEMMA SetStep ==
  ASSUME FlowInv, NEW k \in Call, NEW y, y \in Attempt, Whole(y), Placed(y)',
         Set(k, y), given' = given,
         conn' \in [Client -> Connection], pool' \in Client \cup {None},
         \A c \in Client : Ahead(c), Single'
  PROVE  FlowInv'
<1>1. call \in [Call -> Attempt] /\ given \in BOOLEAN
  BY DEF FlowInv, TypeOK
<1>2. call' = [call EXCEPT ![k] = y]
  BY DEF Set
<1>3. TypeOK'
  BY <1>1, <1>2 DEF TypeOK
<1>4. ASSUME NEW j \in Call
      PROVE  Whole(call'[j]) /\ Placed(call[j])'
  <2>1. CASE j = k
    <3>1. call'[j] = y
      BY <1>1, <1>2, <2>1
    <3> QED  BY <3>1 DEF Placed
  <2>2. CASE j # k
    <3>1. call'[j] = call[j]
      BY <1>1, <1>2, <2>2
    <3>2. Whole(call[j]) /\ Placed(call[j])
      BY DEF FlowInv
    <3>3. PICK x : x = call[j]
      OBVIOUS
    <3>4. Placed(x)'
      BY <3>2, <3>3, PlacedKept
    <3> QED  BY <3>1, <3>2, <3>3, <3>4 DEF Placed
  <2> QED  BY <2>1, <2>2
<1>5. \A j \in Call : Whole(call[j])'
  BY <1>4 DEF Whole
<1> QED  BY <1>3, <1>4, <1>5 DEF FlowInv

\* A step of one call alone.
LEMMA CallStep ==
  ASSUME FlowInv, NEW k \in Call, NEW y, y \in Attempt, Whole(y), Placed(y),
         Set(k, y), UNCHANGED <<given, pool, conn>>
  PROVE  FlowInv'
<1>1. conn \in [Client -> Connection] /\ pool \in Client \cup {None}
  BY DEF FlowInv, TypeOK
<1>2. \A c \in Client : Ahead(c)
  BY DEF Ahead
<1>3. Single'
  BY DEF FlowInv, Single
<1>4. Placed(y)'
  BY <1>2, PlacedKept
<1> QED  BY <1>1, <1>2, <1>3, <1>4, SetStep

\* 'connection-terminated' on c.
LEMMA TerminateStep ==
  ASSUME FlowInv, NEW c \in Client, NEW err \in Error,
         call' = [k \in Call |-> IF Uses(k, c) THEN Terminated(call[k], err)
                                               ELSE call[k]],
         given' = given, pool' = pool,
         conn' \in [Client -> Connection],
         \A b \in Client : Ahead(b), Single'
  PROVE  FlowInv'
<1>1. call \in [Call -> Attempt] /\ given \in BOOLEAN /\ pool \in Client \cup {None}
  BY DEF FlowInv, TypeOK
<1>2. ASSUME NEW k \in Call
      PROVE  call'[k] \in Attempt /\ Whole(call'[k]) /\ Placed(call[k])'
  <2>1. PICK x : x = call[k] /\ x \in Attempt /\ Whole(x) /\ Placed(x)
    BY <1>1 DEF FlowInv
  <2>2. PICK y : y = call'[k] /\ (y = x \/ y = Terminated(x, err))
    BY <2>1
  <2>3. /\ y \in Attempt /\ Whole(y)
        /\ \/ y.pc = x.pc /\ y.client = x.client /\ (y.srv = "open" => x.srv = "open")
           \/ y.pc \in {"start", "failed"}
           \/ /\ x.pc = "disconnecting" /\ y.pc = "proving"
              /\ y.client = x.client /\ y.srv = "closed"
    BY <2>1, <2>2, TerminatedAttempt
  <2>4. Placed(x)'
    BY <2>1, PlacedKept
  <2>5. Placed(y)'
    BY <2>3, <2>4 DEF Placed
  <2> QED  BY <2>2, <2>3, <2>5 DEF Placed
<1>3. TypeOK'
  BY <1>1, <1>2 DEF TypeOK
<1>4. \A k \in Call : Whole(call[k])'
  BY <1>2 DEF Whole
<1> QED  BY <1>2, <1>3, <1>4 DEF FlowInv

-----------------------------------------------------------------------------
(* The steps of the connections.                                            *)

\* A connection changes, and is not in use if it was not before.
LEMMA ConnectionChange ==
  ASSUME FlowInv, NEW c \in Client, NEW d \in Connection,
         conn' = [conn EXCEPT ![c] = d], given' = given, pool' = pool,
         conn[c].ws \in Up => d.ws \in Up,
         conn[c].ws \in Over => d.ws \in Over,
         d.ws \in {"connecting", "open"} => conn[c].ws \in {"connecting", "open"}
  PROVE  /\ conn' \in [Client -> Connection]
         /\ \A b \in Client : Ahead(b)
         /\ Single'
<1>1. conn \in [Client -> Connection]
  BY DEF FlowInv, TypeOK
<1>2. conn' \in [Client -> Connection]
  BY <1>1
<1>3. \A b \in Client : Ahead(b)
  BY <1>1 DEF Ahead
<1>4. Single'
  BY <1>1 DEF FlowInv, Single
<1> QED  BY <1>2, <1>3, <1>4

\* The calls are as they were.
LEMMA CallsStay ==
  ASSUME FlowInv, call' = call, given' = given, pool' = pool,
         conn' \in [Client -> Connection],
         \A b \in Client : Ahead(b), Single'
  PROVE  FlowInv'
<1>1. TypeOK'
  BY DEF FlowInv, TypeOK
<1>2. ASSUME NEW k \in Call
      PROVE  Placed(call[k])'
  <2>1. PICK x : x = call[k] /\ Placed(x)
    BY DEF FlowInv
  <2>2. Placed(x)'
    BY <2>1, PlacedKept
  <2> QED  BY <2>1, <2>2 DEF Placed
<1>3. \A k \in Call : Whole(call[k])'
  BY DEF FlowInv, Whole
<1> QED  BY <1>1, <1>2, <1>3 DEF FlowInv

LEMMA TerminatedConnection ==
  ASSUME FlowInv, NEW c \in Client, NEW err \in Error, NEW ws \in Over,
         Terminate(c, err, ws)
  PROVE  FlowInv'
<1>1. conn \in [Client -> Connection] /\ conn[c] \in Connection
  BY DEF FlowInv, TypeOK
<1> DEFINE init == IF conn[c].init = "pending" THEN "rejected" ELSE conn[c].init
           d == [conn[c] EXCEPT !.ws = ws, !.init = init]
<1>2. init \in {"pending", "ok", "rejected"} /\ ws \in {"closing", "closed"}
  BY <1>1, ConnectionType DEF Over
<1>3. conn' = [conn EXCEPT ![c] = d]
  BY <1>1 DEF Terminate
<1> HIDE DEF init
<1>4. d \in Connection /\ d.ws = ws
  BY <1>1, <1>2 DEF Connection
<1> HIDE DEF d
<1>5. /\ conn' \in [Client -> Connection]
      /\ \A b \in Client : Ahead(b)
      /\ Single'
  BY <1>2, <1>3, <1>4, ConnectionChange DEF Terminate, Over, Up
<1> QED  BY <1>5, TerminateStep DEF Terminate

LEMMA ConnectionSteps ==
  ASSUME FlowInv, NEW c \in Client,
         Answered(c) \/ Errored(c) \/ Closing(c) \/ Closed(c)
  PROVE  FlowInv'
<1>1. conn \in [Client -> Connection] /\ conn[c] \in Connection
  BY DEF FlowInv, TypeOK
<1>2. CASE Errored(c) \/ Closed(c)
  <2>1. \E ws \in Over : Terminate(c, "network", ws)
    BY <1>2 DEF Errored, Closed, Over
  <2> QED  BY <2>1, TerminatedConnection DEF Error
<1>3. CASE Opened(c) \/ Closing(c)
  <2>1. PICK ws \in {"open", "closing"} :
          /\ conn' = [conn EXCEPT ![c].ws = ws]
          /\ conn[c].ws \in {"connecting", "open"}
          /\ conn[c].ws = "connecting" => ws = "open"
    BY <1>3 DEF Opened, Closing, isOpen
  <2> DEFINE d == [conn[c] EXCEPT !.ws = ws]
  <2>2. d \in Connection /\ d.ws = ws
    BY <1>1 DEF Connection
  <2>3. conn' = [conn EXCEPT ![c] = d]
    BY <1>1, <2>1
  <2> HIDE DEF d
  <2>4. /\ conn' \in [Client -> Connection]
        /\ \A b \in Client : Ahead(b)
        /\ Single'
    BY <1>3, <2>1, <2>2, <2>3, ConnectionChange DEF Opened, Closing, Over, Up
  <2> QED  BY <1>3, <2>4, CallsStay DEF Opened, Closing
<1>4. CASE InitRefused(c)
  <2> DEFINE d == [conn[c] EXCEPT !.init = "rejected", !.doomed = "badRequest"]
  <2>1. d \in Connection /\ d.ws = conn[c].ws
    BY <1>1 DEF Connection
  <2>2. conn' = [conn EXCEPT ![c] = d]
    BY <1>1, <1>4 DEF InitRefused
  <2> HIDE DEF d
  <2>3. /\ conn' \in [Client -> Connection]
        /\ \A b \in Client : Ahead(b)
        /\ Single'
    BY <1>4, <2>1, <2>2, ConnectionChange DEF InitRefused
  <2> QED  BY <1>4, <2>3, CallsStay DEF InitRefused
<1>5. CASE Alert(c)
  <2> DEFINE d == [conn[c] EXCEPT !.doomed = "told"]
  <2>1. d \in Connection /\ d.ws = conn[c].ws
    BY <1>1 DEF Connection
  <2>2. conn' = [conn EXCEPT ![c] = d]
    BY <1>1, <1>5 DEF Alert
  <2> HIDE DEF d
  <2>3. /\ conn' \in [Client -> Connection]
        /\ \A b \in Client : Ahead(b)
        /\ Single'
    BY <1>5, <2>1, <2>2, ConnectionChange DEF Alert
  <2>4. PICK err \in Error :
          call' = [k \in Call |-> IF Uses(k, c) THEN Terminated(call[k], err)
                                                ELSE call[k]]
    BY <1>5 DEF Alert, Error
  <2> QED  BY <1>5, <2>3, <2>4, TerminateStep DEF Alert
<1>6. CASE InitAccepted(c)
  <2> DEFINE d == [conn[c] EXCEPT !.init = "ok"]
  <2>1. d \in Connection /\ d.ws = conn[c].ws
    BY <1>1 DEF Connection
  <2>2. conn' = [conn EXCEPT ![c] = d]
    BY <1>1, <1>6 DEF InitAccepted
  <2> HIDE DEF d
  <2>3. /\ conn' \in [Client -> Connection]
        /\ \A b \in Client : Ahead(b)
        /\ Single'
    BY <1>6, <2>1, <2>2, ConnectionChange DEF InitAccepted
  <2>4. ASSUME NEW k \in Call
        PROVE  call'[k] \in Attempt /\ Whole(call'[k]) /\ Placed(call[k])'
    <3>1. PICK x : x = call[k] /\ x \in Attempt /\ Whole(x) /\ Placed(x)
      BY DEF FlowInv, TypeOK
    <3> DEFINE z == [x EXCEPT !.sent = TRUE]
    <3>2. /\ z \in Attempt /\ z.pc = x.pc /\ z.client = x.client
          /\ z.attempt = x.attempt /\ z.complete = x.complete
          /\ z.closed = x.closed /\ z.srv = x.srv
          /\ z.allData = x.allData /\ z.err = x.err
      BY <3>1 DEF Attempt
    <3>3. call'[k] = x \/ call'[k] = z
      BY <1>6, <3>1 DEF InitAccepted
    <3> HIDE DEF z
    <3>4. Whole(z)
      BY <3>1, <3>2 DEF Whole
    <3>5. Placed(x)'
      BY <2>3, <3>1, PlacedKept
    <3> QED  BY <3>1, <3>2, <3>3, <3>4, <3>5 DEF Placed
  <2>5. TypeOK'
    BY <1>6, <2>3, <2>4 DEF InitAccepted, FlowInv, TypeOK
  <2>6. \A k \in Call : Whole(call[k])'
    BY <2>4 DEF Whole
  <2> QED  BY <2>3, <2>4, <2>5, <2>6 DEF FlowInv
<1> QED  BY <1>2, <1>3, <1>4, <1>5, <1>6 DEF Answered

-----------------------------------------------------------------------------
(* The steps of a call.                                                     *)

LEMMA CallFacts ==
  ASSUME FlowInv, NEW k \in Call
  PROVE  call[k] \in Attempt /\ Whole(call[k]) /\ Placed(call[k])
BY DEF FlowInv, TypeOK

\* An attempt that fails does so wherever it was.
LEMMA FailureIsPlaced ==
  ASSUME NEW x \in Attempt, Whole(x), x.pc # "failed", NEW err \in Error
  PROVE  LET y == Failed(x, err)
         IN  y \in Attempt /\ Whole(y) /\ Placed(y) /\ Placed(y)'
<1> DEFINE y == Failed(x, err)
<1>1. y \in Attempt /\ Whole(y) /\ y.pc \in {"start", "failed"}
  BY FailedAttempt DEF Whole
<1> HIDE DEF y
<1>2. Placed(y) /\ Placed(y)'
  BY <1>1 DEF Placed
<1> QED  BY <1>1, <1>2 DEF y

\* A call that fails, alone.
LEMMA FailureStep ==
  ASSUME FlowInv, NEW k \in Call, call[k].pc # "failed", NEW err \in Error,
         Set(k, Failed(call[k], err)), UNCHANGED <<given, pool, conn>>
  PROVE  FlowInv'
<1>1. PICK x : x = call[k] /\ x \in Attempt /\ Whole(x)
  BY CallFacts
<1>2. PICK y : y = Failed(x, err)
  OBVIOUS
<1>3. y \in Attempt /\ Whole(y) /\ Placed(y)
  BY <1>1, <1>2, FailureIsPlaced
<1> QED  BY <1>1, <1>2, <1>3, CallStep

\* connect(): an attempt takes up the connection in use, or makes it.
LEMMA ConnectStep ==
  ASSUME FlowInv, NEW k \in Call, Connect(k)
  PROVE  FlowInv'
<1>1. conn \in [Client -> Connection] /\ pool \in Client \cup {None}
      /\ given \in BOOLEAN
  BY DEF FlowInv, TypeOK
<1>2. PICK x : x = call[k] /\ x \in Attempt /\ Whole(x) /\ x.pc = "start"
  BY CallFacts DEF Connect, ConnectExisting, ConnectNew, At
<1>3. 1 \in Client
  BY ClaimAssumption DEF Client
<1>4. ASSUME NEW c \in Client, NEW sent \in BOOLEAN, NEW created \in BOOLEAN
      PROVE  LET y == [x EXCEPT !.pc = "creating", !.client = c,
                                !.created = created, !.sent = sent]
             IN  y \in Attempt /\ Whole(y) /\ Placed(y)'
  <2> DEFINE y == [x EXCEPT !.pc = "creating", !.client = c,
                            !.created = created, !.sent = sent]
  <2>1. /\ y \in Attempt /\ y.pc = "creating" /\ y.client = c
        /\ y.attempt = x.attempt /\ y.complete = x.complete
        /\ y.closed = x.closed /\ y.allData = x.allData /\ y.err = x.err
    BY ZenonT(40), <1>2 DEF Attempt
  <2> HIDE DEF y
  <2>2. Whole(y)
    BY <1>2, <2>1 DEF Whole
  <2>3. Placed(y)'
    BY <2>1 DEF Placed
  <2> QED  BY <2>1, <2>2, <2>3 DEF y
<1>5. CASE ConnectExisting(k)
  <2>1. PICK c \in Reusable :
          IF isClosed(c)
          THEN Set(k, Failed(call[k], "network")) /\ UNCHANGED conn
          ELSE /\ Set(k, [call[k] EXCEPT !.pc = "creating", !.client = c,
                                         !.sent = conn[c].init = "ok"])
               /\ conn' = [conn EXCEPT ![c].awaited = @ \/ conn[c].init = "pending"]
    BY <1>5 DEF ConnectExisting
  <2>2. UNCHANGED <<given, pool>>
    BY <1>5 DEF ConnectExisting
  <2>3. c \in Client
    BY <1>3 DEF Reusable
  <2>4. CASE isClosed(c)
    BY <1>2, <2>1, <2>2, <2>4, FailureStep DEF Error
  <2>5. CASE ~isClosed(c)
    <3> DEFINE sent == conn[c].init = "ok"
               awaited == conn[c].awaited \/ conn[c].init = "pending"
               d == [conn[c] EXCEPT !.awaited = awaited]
    <3>1. d \in Connection /\ d.ws = conn[c].ws
      BY <1>1, <2>3, ConnectionType DEF Connection
    <3>2. conn' = [conn EXCEPT ![c] = d]
      BY <1>1, <2>1, <2>3, <2>5
    <3> HIDE DEF d
    <3>3. /\ conn' \in [Client -> Connection]
          /\ \A b \in Client : Ahead(b)
          /\ Single'
      BY <2>2, <2>3, <3>1, <3>2, ConnectionChange
    <3>4. x.created \in BOOLEAN /\ sent \in BOOLEAN
      BY <1>2, AttemptFields
    <3>5. PICK y : y = [x EXCEPT !.pc = "creating", !.client = c, !.sent = sent]
      OBVIOUS
    <3>6. y = [x EXCEPT !.pc = "creating", !.client = c,
                        !.created = x.created, !.sent = sent]
      BY <1>2, <3>5 DEF Attempt
    <3>7. y \in Attempt /\ Whole(y) /\ Placed(y)'
      BY <1>4, <2>3, <3>4, <3>6
    <3>8. Set(k, y)
      BY <1>2, <2>1, <2>5, <3>5
    <3> QED  BY <1>1, <2>2, <3>3, <3>7, <3>8, SetStep
  <2> QED  BY <2>4, <2>5
<1>6. CASE ConnectNew(k)
  <2>1. PICK c \in Unused :
          /\ conn' = [conn EXCEPT ![c] = NewConnection(FALSE)]
          /\ pool' = c
          /\ Set(k, [call[k] EXCEPT !.pc = "creating", !.client = c,
                                    !.created = TRUE, !.sent = TRUE])
    BY <1>6 DEF ConnectNew
  <2>2. Reusable = {} /\ given' = given
    BY <1>6 DEF ConnectNew
  <2>3. c \in Client /\ conn[c].ws = "none"
    BY <2>1 DEF Unused
  <2>4. NewConnection(FALSE) \in Connection
        /\ NewConnection(FALSE).ws = "connecting"
    BY NewConnectionType DEF NewConnection
  <2>5. conn' \in [Client -> Connection]
    BY <1>1, <2>1, <2>4
  <2>6. \A b \in Client : Ahead(b)
    BY <1>1, <2>1, <2>3, <2>4 DEF Ahead, Up, Over
  <2>7. ~given
    BY <2>2 DEF Reusable
  <2>8. ASSUME NEW b \in Client PROVE conn[b].ws \notin {"connecting", "open"}
    BY <1>1, <2>2, <2>7, <2>8 DEF FlowInv, Single, Reusable, isClosed
  <2>9. Single'
    BY <1>1, <2>1, <2>2, <2>3, <2>7, <2>8 DEF Single
  <2>10. PICK y : y = [x EXCEPT !.pc = "creating", !.client = c,
                                !.created = TRUE, !.sent = TRUE]
    OBVIOUS
  <2>11. y \in Attempt /\ Whole(y) /\ Placed(y)'
    BY <1>4, <2>3, <2>10
  <2>12. Set(k, y)
    BY <1>2, <2>1, <2>10
  <2> QED  BY <2>1, <2>2, <2>3, <2>5, <2>6, <2>9, <2>11, <2>12, SetStep
<1> QED  BY <1>5, <1>6 DEF Connect

\* An attempt goes on to pc.  The set of fields that a step changes is wide
\* enough for every step of a call that does not fail and does not connect.
LEMMA Moves ==
  ASSUME FlowInv, NEW k \in Call,
         NEW y \in Attempt,
         y.attempt = call[k].attempt, y.client = call[k].client,
         Set(k, y), UNCHANGED <<given, pool, conn>>,
         call[k].pc \notin {"start", "failed"},
         Whole(y),
         y.pc \in {"handshaking", "writing", "waiting", "disconnecting",
                   "proving", "claiming", "claimed"}
           => conn[y.client].ws \in Up,
         y.pc = "proving" /\ y.srv = "open" => conn[y.client].ws \in Over
  PROVE  FlowInv'
<1>1. call[k].client \in Client
  BY CallFacts DEF Placed
<1>2. Placed(y)
  BY <1>1 DEF Placed
<1> QED  BY <1>2, CallStep

LEMMA CallSteps ==
  ASSUME FlowInv, NEW k \in Call, Progress(k)
  PROVE  FlowInv'
<1>x. PICK x : x = call[k] /\ x \in Attempt /\ Whole(x) /\ Placed(x)
  BY CallFacts
<1> USE <1>x
<1>1. CASE Connect(k)
  BY <1>1, ConnectStep
<1>2. CASE TunnelCreated(k)
  <2> DEFINE y == [x EXCEPT !.pc = "handshaking", !.srv = "open"]
  <2>1. /\ x.pc = "creating" /\ conn[x.client].ws = "open"
        /\ Set(k, y) /\ UNCHANGED <<given, pool, conn>>
    BY <1>2 DEF TunnelCreated, Online, At, isOpen
  <2>2. /\ y \in Attempt /\ y.pc = "handshaking" /\ y.client = x.client
        /\ y.attempt = x.attempt /\ y.complete = x.complete
        /\ y.closed = x.closed /\ y.allData = x.allData /\ y.err = x.err
    BY DEF Attempt
  <2> HIDE DEF y
  <2>3. Whole(y)
    BY <2>1, <2>2 DEF Whole
  <2> QED  BY <2>1, <2>2, <2>3, Moves DEF Up
<1>3. CASE TunnelRefused(k)
  <2>1. PICK err \in {"network", "badRequest"} :
          /\ Set(k, Failed(x, err))
          /\ conn' = IF x.created
                     THEN [conn EXCEPT ![x.client].doomed = err] ELSE conn
    BY <1>3 DEF TunnelRefused
  <2>2. x.pc = "creating" /\ UNCHANGED <<given, pool>>
    BY <1>3 DEF TunnelRefused, Online, At
  <2>3. err \in Error
    BY DEF Error
  <2>4. CASE conn' = conn
    BY <2>1, <2>2, <2>3, <2>4, FailureStep
  <2>5. CASE conn' = [conn EXCEPT ![x.client].doomed = err]
    <3>1. x.client \in Client /\ conn \in [Client -> Connection]
          /\ pool \in Client \cup {None}
      BY <2>2 DEF Placed, FlowInv, TypeOK
    <3> DEFINE d == [conn[x.client] EXCEPT !.doomed = err]
    <3>2. d \in Connection /\ d.ws = conn[x.client].ws
      BY <3>1 DEF Connection
    <3>3. conn' = [conn EXCEPT ![x.client] = d]
      BY <2>5, <3>1
    <3> HIDE DEF d
    <3>4. /\ conn' \in [Client -> Connection]
          /\ \A b \in Client : Ahead(b)
          /\ Single'
      BY <2>2, <3>1, <3>2, <3>3, ConnectionChange
    <3>5. PICK y : y = Failed(x, err)
      OBVIOUS
    <3>6. y \in Attempt /\ Whole(y) /\ Placed(y)'
      BY <2>2, <2>3, <3>5, FailureIsPlaced
    <3> QED  BY <2>1, <2>2, <3>1, <3>4, <3>5, <3>6, SetStep
  <2> QED  BY <2>1, <2>4, <2>5
<1>4. CASE Handshake(k)
  <2> DEFINE y == [x EXCEPT !.pc = "writing", !.allData = "pending"]
  <2>1. /\ x.pc = "handshaking" /\ UNCHANGED <<given, pool, conn>>
        /\ Set(k, y) \/ Set(k, Failed(x, "internal"))
    BY <1>4 DEF Handshake, Online, At
  <2>2. /\ y \in Attempt /\ y.pc = "writing" /\ y.client = x.client
        /\ y.attempt = x.attempt /\ y.complete = x.complete
        /\ y.closed = x.closed /\ y.allData = "pending" /\ y.err = x.err
        /\ y.srv = x.srv
    BY ZenonT(40) DEF Attempt
  <2> HIDE DEF y
  <2>3. Whole(y)
    BY <2>1, <2>2 DEF Whole
  <2>4. CASE Set(k, y)
    BY <2>1, <2>2, <2>3, <2>4, Moves DEF Placed
  <2>5. CASE Set(k, Failed(x, "internal"))
    BY <2>1, <2>5, FailureStep DEF Error
  <2> QED  BY <2>1, <2>4, <2>5
<1>5. CASE Written(k)
  <2> DEFINE y == [x EXCEPT !.pc = "waiting"]
  <2>1. /\ x.pc = "writing" /\ Set(k, y) /\ UNCHANGED <<given, pool, conn>>
    BY <1>5 DEF Written, At
  <2>2. /\ y \in Attempt /\ y.pc = "waiting" /\ y.client = x.client
        /\ y.attempt = x.attempt /\ y.complete = x.complete
        /\ y.closed = x.closed /\ y.allData = x.allData /\ y.err = x.err
        /\ y.srv = x.srv
    BY DEF Attempt
  <2> HIDE DEF y
  <2>3. Whole(y)
    BY <2>1, <2>2 DEF Whole
  <2> QED  BY <2>1, <2>2, <2>3, Moves DEF Placed
<1>6. CASE ResponseComplete(k)
  <2> DEFINE y == [x EXCEPT !.complete = TRUE]
  <2>1. /\ x.pc \in {"writing", "waiting"}
        /\ Set(k, y) /\ UNCHANGED <<given, pool, conn>>
    BY <1>6 DEF ResponseComplete, Online, At
  <2>2. /\ y \in Attempt /\ y.pc = x.pc /\ y.client = x.client
        /\ y.attempt = x.attempt /\ y.complete = TRUE
        /\ y.closed = x.closed /\ y.allData = x.allData /\ y.err = x.err
        /\ y.srv = x.srv
    BY DEF Attempt
  <2> HIDE DEF y
  <2>3. Whole(y)
    BY <2>1, <2>2 DEF Whole
  <2> QED  BY <2>1, <2>2, <2>3, Moves DEF Placed
<1>7. CASE ResponseTimer(k)
  <2> DEFINE y == [x EXCEPT !.allData = "resolved"]
  <2>1. /\ x.pc \in {"writing", "waiting"} /\ x.complete
        /\ Set(k, y) /\ UNCHANGED <<given, pool, conn>>
    BY <1>7 DEF ResponseTimer, At
  <2>2. /\ y \in Attempt /\ y.pc = x.pc /\ y.client = x.client
        /\ y.attempt = x.attempt /\ y.complete = x.complete
        /\ y.closed = x.closed /\ y.allData = "resolved" /\ y.err = x.err
        /\ y.srv = x.srv
    BY DEF Attempt
  <2> HIDE DEF y
  <2>3. Whole(y)
    BY <2>1, <2>2 DEF Whole
  <2> QED  BY <2>1, <2>2, <2>3, Moves DEF Placed
<1>8. CASE TlsEnd(k) \/ DisconnectEvent(k)
  <2>1. /\ x.pc \in {"handshaking", "writing", "waiting"}
        /\ UNCHANGED <<given, pool, conn>>
    BY <1>8 DEF TlsEnd, DisconnectEvent, Online, At
  <2>2. PICK err \in Error :
          Set(k, ConnectionClosed(x, err)) \/ Set(k, TunnelClosed(x, err))
    BY <1>8 DEF TlsEnd, DisconnectEvent, Error
  <2>3. PICK y :
          /\ y = ConnectionClosed(x, err) \/ y = TunnelClosed(x, err)
          /\ Set(k, y)
    BY <2>2
  <2>4. /\ y \in Attempt /\ Whole(y)
        /\ \/ y.pc = x.pc /\ y.client = x.client
           \/ y.pc \in {"start", "failed"}
    BY <2>1, <2>3, ConnectionClosedAttempt, TunnelClosedAttempt
  <2>5. Placed(y)
    BY <2>1, <2>4 DEF Placed
  <2> QED  BY <2>1, <2>3, <2>4, <2>5, CallStep
<1>9. CASE AllData(k)
  <2>1. x.pc = "waiting" /\ UNCHANGED <<given, pool, conn>>
    BY <1>9 DEF AllData, At
  <2>2. CASE x.allData = "rejected" /\ Set(k, Failed(x, x.err))
    <3>1. x.err \in Error
      BY <2>2 DEF Whole
    <3> QED  BY <2>1, <2>2, <3>1, FailureStep
  <2>3. CASE x.allData = "resolved"
    <3> DEFINE waits == ~x.closed /\ isOpen(x.client)
               pc == IF waits THEN "disconnecting" ELSE "proving"
               y == [x EXCEPT !.ended = TRUE, !.closed = TRUE, !.pc = pc]
    <3>1. Set(k, y)
      BY <1>9, <2>3 DEF AllData
    <3>0. pc \in {"disconnecting", "proving"}
      OBVIOUS
    <3>w. pc = "proving" => x.closed \/ ~isOpen(x.client)
      OBVIOUS
    <3> HIDE DEF pc, waits
    <3>2. /\ y \in Attempt /\ y.pc = pc /\ y.client = x.client
          /\ y.attempt = x.attempt /\ y.complete = x.complete
          /\ y.closed = TRUE /\ y.allData = x.allData /\ y.err = x.err
          /\ y.srv = x.srv
      BY ZenonT(40), <3>0 DEF Attempt
    <3> HIDE DEF y
    <3>3. Whole(y)
      BY <2>1, <2>3, <3>0, <3>2 DEF Whole
    <3>4. conn[x.client].ws \in Up
      BY <2>1 DEF Placed
    <3>5. pc = "proving" /\ x.srv = "open" => conn[x.client].ws \in Over
      BY <2>1, <3>4, <3>w DEF Whole, isOpen, Up
    <3> QED  BY <2>1, <3>1, <3>2, <3>3, <3>4, <3>5, Moves
  <2> QED  BY <1>9, <2>2, <2>3 DEF AllData
<1>10. CASE Disconnected(k)
  <2> DEFINE y == [x EXCEPT !.pc = "proving", !.srv = "closed"]
  <2>1. /\ x.pc = "disconnecting" /\ Set(k, y) /\ UNCHANGED <<given, pool, conn>>
    BY <1>10 DEF Disconnected, Online, At
  <2>2. /\ y \in Attempt /\ y.pc = "proving" /\ y.client = x.client
        /\ y.attempt = x.attempt /\ y.complete = x.complete
        /\ y.closed = x.closed /\ y.allData = x.allData /\ y.err = x.err
        /\ y.srv = "closed"
    BY ZenonT(40) DEF Attempt
  <2> HIDE DEF y
  <2>3. Whole(y)
    BY <2>1, <2>2 DEF Whole
  <2> QED  BY <2>1, <2>2, <2>3, Moves DEF Placed
<1>11. CASE Proved(k)
  <2>1. x.pc = "proving" /\ UNCHANGED <<given, pool, conn>>
    BY <1>11 DEF Proved, At
  <2>2. CASE ~isOpen(x.client)
    BY <1>11, <2>1, <2>2, FailureStep DEF Proved, Error
  <2>3. CASE isOpen(x.client)
    <3> DEFINE y == [x EXCEPT !.pc = "claiming"]
    <3>1. Set(k, y)
      BY <1>11, <2>3 DEF Proved
    <3>2. /\ y \in Attempt /\ y.pc = "claiming" /\ y.client = x.client
          /\ y.attempt = x.attempt /\ y.complete = x.complete
          /\ y.closed = x.closed /\ y.allData = x.allData /\ y.err = x.err
          /\ y.srv = x.srv
      BY DEF Attempt
    <3> HIDE DEF y
    <3>3. x.srv # "open"
      BY <2>1, <2>3 DEF Placed, isOpen, Over
    <3>4. Whole(y)
      BY <2>1, <3>2, <3>3 DEF Whole
    <3> QED  BY <2>1, <3>1, <3>2, <3>4, Moves DEF Placed
  <2> QED  BY <2>2, <2>3
<1>12. CASE NotProved(k) \/ ClaimRefused(k)
  <2>1. x.pc \in {"proving", "claiming"} /\ UNCHANGED <<given, pool, conn>>
    BY <1>12 DEF NotProved, NotProvedFor, ClaimRefused, Online, At
  <2>2. \E err \in Error : Set(k, Failed(x, err))
    BY <1>12 DEF NotProved, NotProvedFor, ProofError, ClaimRefused, Error
  <2> QED  BY <2>1, <2>2, FailureStep
<1>13. CASE Claimed(k)
  <2> DEFINE y == [x EXCEPT !.pc = "claimed"]
  <2>1. /\ x.pc = "claiming" /\ Set(k, y) /\ UNCHANGED <<given, pool, conn>>
    BY <1>13 DEF Claimed, Online, At
  <2>2. /\ y \in Attempt /\ y.pc = "claimed" /\ y.client = x.client
        /\ y.attempt = x.attempt /\ y.complete = x.complete
        /\ y.closed = x.closed /\ y.allData = x.allData /\ y.err = x.err
        /\ y.srv = x.srv
    BY DEF Attempt
  <2> HIDE DEF y
  <2>3. Whole(y)
    BY <2>1, <2>2 DEF Whole
  <2> QED  BY <2>1, <2>2, <2>3, Moves DEF Placed
<1> QED
  BY <1>1, <1>2, <1>3, <1>4, <1>5, <1>6, <1>7, <1>8, <1>9, <1>10, <1>11, <1>12,
     <1>13
  DEF Progress, Local, Remote

LEMMA FlowNext == FlowInv /\ [Next]_vars => FlowInv'
<1> SUFFICES ASSUME FlowInv, [Next]_vars PROVE FlowInv'
  OBVIOUS
<1>1. CASE Next
  BY <1>1, CallSteps, ConnectionSteps DEF Next
<1>2. CASE UNCHANGED vars
  <2>1. \A c \in Client : Ahead(c)
    BY <1>2 DEF vars, Ahead
  <2>2. Single' /\ conn' \in [Client -> Connection]
    BY <1>2 DEF vars, FlowInv, TypeOK, Single
  <2> QED  BY <1>2, <2>1, <2>2, CallsStay DEF vars
<1> QED  BY <1>1, <1>2

LEMMA FlowWhole ==
  ASSUME FlowInv
  PROVE  ClaimsWholeResponse
BY DEF FlowInv, Whole, ClaimsWholeResponse

\* The calls, the connections and the pool have their types.
THEOREM TypeCorrect == Spec => []TypeOK
<1>1. FlowInv => TypeOK
  BY DEF FlowInv
<1> QED  BY <1>1, FlowInit, FlowNext, PTL DEF Spec

\* A claim is made of a whole response, and its tunnel is closed before,
\* however the response, its timer, the TLS session, the tunnel and the
\* connection end.
THEOREM ClaimsAreWhole == Spec => []ClaimsWholeResponse
BY FlowInit, FlowNext, FlowWhole, PTL DEF Spec

\* One connection is in use, however many calls find none.
THEOREM OneConnection == Spec => []OneConnectionInUse
<1>1. FlowInv => OneConnectionInUse
  BY DEF FlowInv, Single, OneConnectionInUse
<1> QED  BY <1>1, FlowInit, FlowNext, PTL DEF Spec

\* A step of a call sets that call.
LEMMA OneCall ==
  ASSUME NEW k \in Call, Progress(k)
  PROVE  \E y : Set(k, y)
<1>1. CASE Connect(k)
  <2>1. CASE ConnectExisting(k)
    BY <2>1 DEF ConnectExisting
  <2>2. CASE ConnectNew(k)
    BY <2>2 DEF ConnectNew
  <2> QED  BY <1>1, <2>1, <2>2 DEF Connect
<1>2. CASE TunnelCreated(k) \/ TunnelRefused(k) \/ Handshake(k) \/ Written(k)
  BY <1>2 DEF TunnelCreated, TunnelRefused, Handshake, Written
<1>3. CASE ResponseComplete(k) \/ ResponseTimer(k) \/ Disconnected(k)
  BY <1>3 DEF ResponseComplete, ResponseTimer, Disconnected
<1>4. CASE TlsEnd(k) \/ DisconnectEvent(k)
  BY <1>4 DEF TlsEnd, DisconnectEvent
<1>5. CASE AllData(k)
  <2>1. CASE call[k].allData = "rejected"
    BY <1>5, <2>1 DEF AllData
  <2>2. CASE call[k].allData = "resolved"
    BY <1>5, <2>2 DEF AllData
  <2> QED  BY <1>5, <2>1, <2>2 DEF AllData
<1>6. CASE Proved(k) \/ NotProved(k) \/ Claimed(k) \/ ClaimRefused(k)
  BY <1>6 DEF Proved, NotProved, NotProvedFor, Claimed, ClaimRefused
<1> QED
  BY <1>1, <1>2, <1>3, <1>4, <1>5, <1>6 DEF Progress, Local, Remote

Settled(k) == call[k].pc \in {"claimed", "failed"}

\* Nothing that ends later reaches a call that is over.
LEMMA SettledStays ==
  ASSUME FlowInv, [Next]_vars, NEW k \in Call, Settled(k)
  PROVE  call'[k] = call[k]
<1>1. call \in [Call -> Attempt] /\ call[k].pc \in {"claimed", "failed"}
  BY DEF FlowInv, TypeOK, Settled
<1>2. ASSUME NEW j \in Call, Progress(j)
      PROVE  call'[k] = call[k]
  <2>1. CASE j = k
    <3>1. FALSE
      BY <1>1, <1>2, <2>1
      DEF Progress, Local, Remote, Connect, ConnectExisting, ConnectNew, TunnelCreated,
          TunnelRefused, Handshake, Written, ResponseComplete, ResponseTimer,
          TlsEnd, AllData, Disconnected, Proved, NotProved, NotProvedFor,
          Claimed, ClaimRefused, DisconnectEvent, Online, At
    <3> QED  BY <3>1
  <2>2. CASE j # k
    BY <1>1, <1>2, <2>2, OneCall DEF Set
  <2> QED  BY <2>1, <2>2
<1>3. ASSUME NEW err \in Error PROVE Terminated(call[k], err) = call[k]
  BY <1>1 DEF Terminated
<1>4. ASSUME NEW c \in Client,
             Answered(c) \/ Errored(c) \/ Closing(c) \/ Closed(c)
      PROVE  call'[k] = call[k]
  <2>1. CASE UNCHANGED call
    BY <2>1
  <2>2. CASE InitAccepted(c)
    BY <1>1, <2>2 DEF InitAccepted
  <2>3. CASE Alert(c) \/ Errored(c) \/ Closed(c)
    <3>1. PICK err \in Error :
            call' = [j \in Call |-> IF Uses(j, c) THEN Terminated(call[j], err)
                                                  ELSE call[j]]
      BY <2>3 DEF Alert, Errored, Closed, Terminate, Error
    <3> QED  BY <1>3, <3>1
  <2> QED
    BY <1>4, <2>1, <2>2, <2>3 DEF Answered, Opened, InitRefused, Closing
<1> QED  BY <1>2, <1>4 DEF Next, vars

Caller(k) == INSTANCE Promise WITH promise <- Outcome(k)

\* A call is to the application a promise that settles at most once: no retry,
\* no answer and no end of a connection reaches it after its claim or its error.
THEOREM CallsArePromises ==
  ASSUME NEW k \in Call
  PROVE  Spec => Caller(k)!Safety
<1>1. Init => Caller(k)!Init
  BY DEF Init, Fresh, Caller!Init, Outcome
<1>2. ASSUME FlowInv, [Next]_vars PROVE [Caller(k)!Next]_(Outcome(k))
  <2>1. CASE Settled(k)
    BY <1>2, <2>1, SettledStays DEF Outcome
  <2>2. CASE ~Settled(k)
    <3>1. Outcome(k) = "pending"
      BY <2>2 DEF Outcome, Settled
    <3>2. Outcome(k)' \in {"pending", "resolved", "rejected"}
      BY DEF Outcome
    <3> QED
      BY <3>1, <3>2 DEF Caller!Next, Caller!Resolve, Caller!Reject
  <2> QED  BY <2>1, <2>2
<1>3. FlowInv /\ [Next]_vars => [Caller(k)!Next]_(Outcome(k))
  BY <1>2
<1> QED  BY <1>1, <1>3, FlowInit, FlowNext, PTL DEF Spec, Caller!Safety

-----------------------------------------------------------------------------
(* The page that asks for the claims (WindowRpc).                           *)

Late == {"proving", "claiming", "claimed"}

\* An attempt comes to its proofs and passes them by the steps of its call, and
\* stays the same attempt.
LEMMA LateTermination ==
  ASSUME FlowInv, NEW c \in Client, NEW err \in Error,
         call' = [k \in Call |-> IF Uses(k, c) THEN Terminated(call[k], err)
                                               ELSE call[k]],
         NEW k \in Call, call'[k].pc \in Late
  PROVE  /\ call'[k].attempt = call[k].attempt
         /\ call'[k].pc = "proving" \/ call'[k].pc = call[k].pc
<1>1. PICK x : x = call[k] /\ x \in Attempt /\ Whole(x)
  BY CallFacts
<1>2. PICK y : y = call'[k] /\ (y = x \/ y = Terminated(x, err))
  BY <1>1
<1>3. \/ y.pc = x.pc /\ y.attempt = x.attempt
      \/ y.pc \in {"start", "failed"}
      \/ y.pc = "proving" /\ y.attempt = x.attempt
  BY <1>1, <1>2, TerminatedAttempt
<1> QED  BY <1>1, <1>2, <1>3 DEF Late

LEMMA LateSteps ==
  ASSUME FlowInv, NEW k \in Call, Progress(k),
         call'[k].pc \in Late
  PROVE  /\ call'[k].attempt = call[k].attempt
         /\ \/ call'[k].pc = "proving"
            \/ call[k].pc = "proving" /\ ~NotProved(k)
            \/ call[k].pc \in {"claiming", "claimed"}
<1>x. PICK x : x = call[k] /\ x \in Attempt /\ Whole(x) /\ Placed(x)
  BY CallFacts
<1>t. call \in [Call -> Attempt]
  BY DEF FlowInv, TypeOK
<1> USE <1>x, <1>t
<1>1. ASSUME NEW err \in Error, x.pc # "failed", Set(k, Failed(x, err))
      PROVE  FALSE
  <2>1. Failed(x, err).pc \in {"start", "failed"}
    BY <1>1, FailedAttempt DEF Whole
  <2> QED  BY <1>1, <2>1 DEF Set, Late
<1>2. CASE Connect(k)
  <2>1. x.pc = "start"
    BY <1>2 DEF Connect, ConnectExisting, ConnectNew, At
  <2>2. ~Set(k, Failed(x, "network"))
    BY <1>1, <2>1 DEF Error
  <2>3. PICK y, c, created, sent :
          /\ y = [x EXCEPT !.pc = "creating", !.client = c,
                           !.created = created, !.sent = sent]
          /\ Set(k, y)
    <3>1. CASE ConnectExisting(k)
      <4>1. PICK c \in Reusable :
              Set(k, [x EXCEPT !.pc = "creating", !.client = c,
                               !.sent = conn[c].init = "ok"])
        BY <2>2, <3>1 DEF ConnectExisting
      <4>2. PICK sent : sent = (conn[c].init = "ok")
        OBVIOUS
      <4>3. PICK y : y = [x EXCEPT !.pc = "creating", !.client = c, !.sent = sent]
        OBVIOUS
      <4>4. y = [x EXCEPT !.pc = "creating", !.client = c,
                          !.created = x.created, !.sent = sent]
        BY <4>3 DEF Attempt
      <4>5. Set(k, y)
        BY <4>1, <4>2, <4>3
      <4> QED  BY <4>4, <4>5
    <3>2. CASE ConnectNew(k)
      <4>1. PICK c \in Unused :
              Set(k, [x EXCEPT !.pc = "creating", !.client = c,
                               !.created = TRUE, !.sent = TRUE])
        BY <3>2 DEF ConnectNew
      <4> QED  BY <4>1
    <3> QED  BY <1>2, <3>1, <3>2 DEF Connect
  <2>4. y.pc = "creating"
    BY <2>3 DEF Attempt
  <2> QED  BY <2>3, <2>4 DEF Late, Set
<1>3. CASE TunnelCreated(k) \/ Handshake(k) \/ Written(k)
  <2>1. CASE TunnelCreated(k)
    BY <2>1 DEF TunnelCreated, Set, Attempt, Late
  <2>2. CASE Handshake(k)
    <3>1. x.pc = "handshaking"
      BY <2>2 DEF Handshake, Online, At
    <3>2. Set(k, [x EXCEPT !.pc = "writing", !.allData = "pending"])
      BY <1>1, <2>2, <3>1 DEF Handshake, Error
    <3> QED  BY <3>2 DEF Set, Attempt, Late
  <2>3. CASE Written(k)
    BY <2>3 DEF Written, Set, Attempt, Late
  <2> QED  BY <1>3, <2>1, <2>2, <2>3
<1>4. CASE TunnelRefused(k) \/ NotProved(k) \/ ClaimRefused(k)
  <2>1. x.pc \in {"creating", "proving", "claiming"}
    BY <1>4 DEF TunnelRefused, NotProved, NotProvedFor, ClaimRefused, Online, At
  <2>2. \E err \in Error : Set(k, Failed(x, err))
    BY <1>4 DEF TunnelRefused, NotProved, NotProvedFor, ProofError, ClaimRefused,
                Error
  <2> QED  BY <1>1, <2>1, <2>2
<1>5. CASE ResponseComplete(k) \/ ResponseTimer(k)
  <2>1. x.pc \in {"writing", "waiting"}
    BY <1>5 DEF ResponseComplete, ResponseTimer, Online, At
  <2>2. call'[k].pc = x.pc
    BY <1>5 DEF ResponseComplete, ResponseTimer, Set, Attempt
  <2> QED  BY <2>1, <2>2 DEF Late
<1>6. CASE TlsEnd(k) \/ DisconnectEvent(k)
  <2>1. x.pc \in {"handshaking", "writing", "waiting"}
    BY <1>6 DEF TlsEnd, DisconnectEvent, Online, At
  <2>2. PICK err \in Error :
          Set(k, ConnectionClosed(x, err)) \/ Set(k, TunnelClosed(x, err))
    BY <1>6 DEF TlsEnd, DisconnectEvent, Error
  <2>3. call'[k] = ConnectionClosed(x, err) \/ call'[k] = TunnelClosed(x, err)
    BY <2>2 DEF Set
  <2>4. call'[k].pc = x.pc \/ call'[k].pc \in {"start", "failed"}
    BY <2>1, <2>3, ConnectionClosedAttempt, TunnelClosedAttempt
  <2> QED  BY <2>1, <2>4 DEF Late
<1>7. CASE AllData(k)
  <2>1. x.pc = "waiting"
    BY <1>7 DEF AllData, At
  <2>2. CASE x.allData = "rejected"
    <3>1. x.err \in Error /\ Set(k, Failed(x, x.err))
      BY <1>7, <2>2 DEF AllData, Whole
    <3> QED  BY <1>1, <2>1, <3>1
  <2>3. CASE x.allData = "resolved"
    <3>1. PICK pc \in {"disconnecting", "proving"} :
            call'[k] = [x EXCEPT !.ended = TRUE, !.closed = TRUE, !.pc = pc]
      BY <1>7, <2>3 DEF AllData, Set
    <3>2. call'[k].pc = pc /\ call'[k].attempt = x.attempt
      BY <3>1 DEF Attempt
    <3> QED  BY <3>2 DEF Late
  <2> QED  BY <1>7, <2>2, <2>3 DEF AllData
<1>8. CASE Disconnected(k)
  <2>1. call'[k].pc = "proving" /\ call'[k].attempt = x.attempt
    BY <1>8 DEF Disconnected, Set, Attempt
  <2> QED  BY <2>1
<1>9. CASE Proved(k)
  <2>1. x.pc = "proving"
    BY <1>9 DEF Proved, At
  <2>2. ~Set(k, Failed(x, "network"))
    BY <1>1, <2>1 DEF Error
  <2>3. call'[k].attempt = x.attempt
    BY <1>9, <2>2 DEF Proved, Set, Attempt
  <2>4. ~NotProved(k)
    BY <1>1, <2>1 DEF NotProved, NotProvedFor, ProofError, Error
  <2> QED  BY <2>1, <2>3, <2>4
<1>10. CASE Claimed(k)
  <2>1. x.pc = "claiming" /\ call'[k].attempt = x.attempt
    BY <1>10 DEF Claimed, Online, At, Set, Attempt
  <2> QED  BY <2>1
<1> QED
  BY <1>2, <1>3, <1>4, <1>5, <1>6, <1>7, <1>8, <1>9, <1>10
  DEF Progress, Local, Remote

\* A message is answered when its handler ends, and a response never.
Conversation(r) ==
  /\ answers[r] # <<>> => handler[r] = "over"
  /\ Len(answers[r]) <= 1
  /\ req[r].data = "json" /\ req[r].isResponse
       => answers[r] = <<>> /\ handler[r] # "running"

\* The proofs of an attempt are all made before its claim is sent.
Bound(k) ==
  call[k].pc \in {"claiming", "claimed"} /\ inRpc(k) => proofsAre(k, {"resolved"})

MessagesInv ==
  /\ req \in [Request -> Message]
  /\ handler \in [Request -> {"none", "running", "over"}]
  /\ answers \in [Request -> Seq({"done", "error"})]
  /\ \A r \in Request : Conversation(r)

\* A proof is the answer to its own request.
ProofsInv ==
  /\ proofs \in [Id -> Proof]
  /\ \A id \in Id : proofs[id].state = "resolved" => proofs[id].of = id
  /\ \A k \in Call : Bound(k)

WindowInv == FlowInv /\ MessagesInv /\ ProofsInv

LEMMA TaskType ==
  ASSUME NEW state \in {"none", "queued", "waiting"} \cup ProofError
  PROVE  Task(state) \in Proof /\ Task(state).state = state /\ state # "resolved"
BY DEF Task, Proof, ProofError

LEMMA CurrentIds ==
  ASSUME FlowInv, NEW k \in Call, call[k].pc \in Late
  PROVE  current(k) \subseteq Id
<1>1. call[k].attempt \in Attempts
  <2>1. call[k].attempt \in 0 .. MaxRetries /\ call[k].attempt < MaxRetries
    BY CallFacts, AttemptFields DEF Whole, Late
  <2> QED  BY <2>1, ClaimAssumption DEF Attempts
<1> QED  BY <1>1 DEF current, Id

LEMMA WindowStart == WindowInit => WindowInv
<1> SUFFICES ASSUME WindowInit PROVE WindowInv
  OBVIOUS
<1>1. FlowInv
  BY FlowInit DEF WindowInit
<1>2. MessagesInv
  BY MessagesAssumption DEF WindowInit, MessagesInv, Conversation
<1>3. /\ proofs \in [Id -> Proof]
      /\ \A id \in Id : proofs[id].state # "resolved"
  <2>1. Task("none") \in Proof /\ Task("none").state # "resolved"
    BY TaskType
  <2>2. proofs = [id \in Id |-> Task("none")]
    BY DEF WindowInit
  <2> QED  BY <2>1, <2>2
<1>4. \A k \in Call : Bound(k)
  BY DEF WindowInit, Init, Fresh, Bound
<1> QED  BY <1>1, <1>2, <1>3, <1>4 DEF WindowInv, ProofsInv

\* What a step of a handler does: it goes on to "state", and may respond when
\* that is its end.
Handled(r, state) ==
  /\ handler[r] # "over"
  /\ handler' = [handler EXCEPT ![r] = state]
  /\ \/ answers' = answers
     \/ state = "over" /\ \E res \in {"done", "error"} :
                            answers' = [answers EXCEPT ![r] = Append(@, res)]
  /\ req[r].data = "json" /\ req[r].isResponse
       => state # "running" /\ answers' = answers
  /\ UNCHANGED <<req, proofs>>

LEMMA HandleSteps ==
  ASSUME MessagesInv, NEW r \in Request, Handle(r)
  PROVE  \E state \in {"running", "over"} : Handled(r, state)
<1>1. \A res, state : Respond(r, state, res)
        => /\ handler' = [handler EXCEPT ![r] = state]
           /\ \/ answers' = answers
              \/ answers' = [answers EXCEPT ![r] = Append(@, res)]
           /\ UNCHANGED <<req, proofs>>
  BY DEF Respond
<1>2. CASE Ignore(r)
  BY <1>2 DEF Ignore, Quietly, Handled
<1>3. CASE Unreadable(r)
  BY <1>1, <1>3 DEF Unreadable, Handled
<1>4. CASE CreateClaim(r)
  BY <1>1, <1>4 DEF CreateClaim, isRpc, isForUs, Quietly, Handled
<1>5. CASE Immediate(r)
  BY <1>1, <1>5 DEF Immediate, isRpc, isForUs, Handled
<1>6. CASE Measure(r)
  BY <1>6 DEF Measure, isRpc, isForUs, Quietly, Handled
<1>7. CASE Measured(r)
  <2>1. ~(req[r].data = "json" /\ req[r].isResponse)
    BY <1>7 DEF Measured, MessagesInv, Conversation
  <2> QED  BY <1>1, <1>7, <2>1 DEF Measured, Handled
<1>8. CASE UnknownType(r)
  BY <1>8 DEF UnknownType, isRpc, Quietly, Handled
<1> QED
  BY <1>2, <1>3, <1>4, <1>5, <1>6, <1>7, <1>8 DEF Handle

LEMMA DoneStep ==
  ASSUME MessagesInv, NEW k \in Call, ClaimDone(k)
  PROVE  Handled(k, "over")
<1>1. k \in Request
  BY WindowAssumption
<1>2. ~(req[k].data = "json" /\ req[k].isResponse)
  BY <1>1 DEF ClaimDone, MessagesInv, Conversation
<1> QED  BY <1>2 DEF ClaimDone, Respond, Handled

LEMMA HandledStep ==
  ASSUME MessagesInv, NEW r \in Request, NEW state \in {"running", "over"},
         Handled(r, state)
  PROVE  MessagesInv'
<1>1. /\ handler' \in [Request -> {"none", "running", "over"}]
      /\ req' \in [Request -> Message] /\ req' = req
  BY DEF MessagesInv, Handled
<1>2. answers[r] = <<>> /\ answers[r] \in Seq({"done", "error"})
  BY DEF MessagesInv, Conversation, Handled
<1>3. \A res \in {"done", "error"} :
        Append(answers[r], res) \in Seq({"done", "error"})
        /\ Len(Append(answers[r], res)) = 1
  BY <1>2
<1>4. answers' \in [Request -> Seq({"done", "error"})]
  BY <1>3 DEF MessagesInv, Handled
<1>5. ASSUME NEW q \in Request, q # r PROVE Conversation(q)'
  BY <1>1, <1>5 DEF MessagesInv, Conversation, Handled
<1>6. Conversation(r)'
  <2>1. CASE answers' = answers
    BY <1>1, <1>2, <2>1 DEF MessagesInv, Conversation, Handled
  <2>2. CASE answers' # answers
    <3>1. state = "over" /\ \E res \in {"done", "error"} :
                               answers'[r] = Append(answers[r], res)
      BY <2>2 DEF MessagesInv, Handled
    <3>2. Len(answers'[r]) <= 1
      BY <1>3, <3>1
    <3>3. handler'[r] = "over" /\ ~(req'[r].data = "json" /\ req'[r].isResponse)
      BY <1>1, <2>2, <3>1 DEF MessagesInv, Handled
    <3> QED  BY <3>2, <3>3 DEF Conversation
  <2> QED  BY <2>1, <2>2
<1> QED  BY <1>1, <1>4, <1>5, <1>6 DEF MessagesInv

\* A call that has sent its claim has all its proofs, and keeps them.
LEMMA BoundStep ==
  ASSUME WindowInv, req' = req, NEW k \in Call,
         \A id \in Id : proofs[id].state = "resolved" => proofs'[id] = proofs[id],
         call'[k].pc \in {"claiming", "claimed"} =>
           /\ call'[k].attempt = call[k].attempt /\ call[k].pc \in Late
           /\ call[k].pc = "proving" /\ inRpc(k) => proofsAre(k, {"resolved"})
  PROVE  Bound(k)'
<1> SUFFICES ASSUME call'[k].pc \in {"claiming", "claimed"}, inRpc(k)'
             PROVE  proofsAre(k, {"resolved"})'
  BY DEF Bound
<1>1. inRpc(k) /\ current(k)' = current(k)
  BY DEF inRpc, current
<1>2. proofsAre(k, {"resolved"})
  BY <1>1 DEF WindowInv, ProofsInv, Bound, Late
<1>3. current(k) \subseteq Id
  BY CurrentIds DEF WindowInv
<1> QED  BY <1>1, <1>2, <1>3 DEF proofsAre

\* A step of the calls leaves the proofs.
LEMMA ProgressBound ==
  ASSUME WindowInv, NEW k \in Call, Step(Local(k) \/ Settle(k)) \/ Step(Remote(k))
  PROVE  ProofsInv' /\ Progress(k)
<1>1. /\ proofs' = proofs /\ req' = req
      /\ Local(k) \/ Settle(k) \/ Remote(k)
  BY DEF Step
<1>2. ASSUME Settle(k)
      PROVE  \/ NotProved(k)
             \/ Proved(k) /\ (inRpc(k) => proofsAre(k, {"resolved"}))
  BY <1>2 DEF Settle, NotProved, ProofError, proofRejected
<1>3. Progress(k)
  BY <1>1, <1>2 DEF Progress
<1>4. FlowInv /\ call \in [Call -> Attempt]
  BY DEF WindowInv, FlowInv, TypeOK
<1>5. ASSUME NEW j \in Call, j # k PROVE Bound(j)'
  <2>1. call'[j] = call[j]
    BY <1>3, <1>4, <1>5, OneCall DEF Set
  <2>2. call[j].pc = "proving" => call'[j].pc = "proving"
    BY <2>1
  <2> QED  BY <1>1, <2>1, <2>2, BoundStep DEF Late
<1>6. Bound(k)'
  <2> SUFFICES ASSUME call'[k].pc \in {"claiming", "claimed"} PROVE Bound(k)'
    BY DEF Bound
  <2>1. /\ call'[k].attempt = call[k].attempt
        /\ \/ call[k].pc = "proving" /\ ~NotProved(k)
           \/ call[k].pc \in {"claiming", "claimed"}
    BY <1>3, <1>4, LateSteps DEF Late
  <2>2. ASSUME call[k].pc = "proving", inRpc(k) PROVE proofsAre(k, {"resolved"})
    <3>1. ~NotProved(k)
      BY <2>1, <2>2
    <3>2. CASE Settle(k)
      BY <1>2, <2>2, <3>1, <3>2
    <3>3. CASE Local(k) \/ Remote(k)
      <4>1. call[k].pc # "proving"
        BY <3>3
        DEF Local, Remote, Connect, ConnectExisting, ConnectNew, Written,
            ResponseTimer, AllData, TunnelCreated, TunnelRefused, Handshake,
            ResponseComplete, TlsEnd, DisconnectEvent, Disconnected, Claimed,
            ClaimRefused, Online, At
      <4> QED  BY <2>2, <4>1
    <3> QED  BY <1>1, <3>2, <3>3
  <2> QED  BY <1>1, <2>1, <2>2, BoundStep DEF Late
<1>7. \A j \in Call : Bound(j)'
  BY <1>5, <1>6
<1> QED  BY <1>1, <1>3, <1>7 DEF ProofsInv, WindowInv

LEMMA ConnectionBound ==
  ASSUME WindowInv, NEW c \in Client,
         Step(Answered(c) \/ Errored(c) \/ Closing(c) \/ Closed(c))
  PROVE  ProofsInv'
<1>1. /\ proofs' = proofs /\ req' = req
      /\ Answered(c) \/ Errored(c) \/ Closing(c) \/ Closed(c)
  BY DEF Step
<1>2. FlowInv /\ call \in [Call -> Attempt]
  BY DEF WindowInv, FlowInv, TypeOK
<1>3. ASSUME NEW k \in Call, call'[k].pc \in {"claiming", "claimed"}
      PROVE  call'[k].attempt = call[k].attempt /\ call'[k].pc = call[k].pc
  <2>1. CASE UNCHANGED call
    BY <2>1
  <2>2. CASE InitAccepted(c)
    <3>1. call'[k] = call[k] \/ call'[k] = [call[k] EXCEPT !.sent = TRUE]
      BY <2>2 DEF InitAccepted
    <3> QED  BY <1>2, <3>1 DEF Attempt
  <2>3. CASE Alert(c) \/ Errored(c) \/ Closed(c)
    <3>1. PICK err \in Error :
            call' = [j \in Call |-> IF Uses(j, c) THEN Terminated(call[j], err)
                                                  ELSE call[j]]
      BY <2>3 DEF Alert, Errored, Closed, Terminate, Error
    <3> QED  BY <1>2, <1>3, <3>1, LateTermination DEF Late
  <2> QED
    BY <1>1, <2>1, <2>2, <2>3 DEF Answered, Opened, InitRefused, Closing
<1>4. ASSUME NEW k \in Call PROVE Bound(k)'
  <2>1. call'[k].pc \in {"claiming", "claimed"} =>
          /\ call'[k].attempt = call[k].attempt
          /\ call[k].pc \in Late /\ call[k].pc # "proving"
    BY <1>3 DEF Late
  <2> QED  BY <1>1, <2>1, BoundStep
<1> QED  BY <1>1, <1>4 DEF ProofsInv, WindowInv

\* A step of the proofs, which leaves those that are there and, of a claim that
\* is sent, all.
LEMMA ProofsStep ==
  ASSUME WindowInv, UNCHANGED <<call, req>>, proofs' \in [Id -> Proof],
         \A id \in Id : proofs[id].state = "resolved" => proofs'[id] = proofs[id],
         \A id \in Id : proofs'[id].state = "resolved" => proofs'[id].of = id
  PROVE  ProofsInv'
<1>1. ASSUME NEW k \in Call PROVE Bound(k)'
  <2>1. CASE call[k].pc \in {"claiming", "claimed"}
    BY <2>1, BoundStep DEF Late
  <2>2. CASE call[k].pc \notin {"claiming", "claimed"}
    BY <2>2 DEF Bound
  <2> QED  BY <2>1, <2>2
<1> QED  BY <1>1 DEF ProofsInv

LEMMA EnqueueStep ==
  ASSUME WindowInv, NEW k \in Call, Enqueue(k)
  PROVE  ProofsInv'
<1>1. /\ proofs \in [Id -> Proof]
      /\ \A id \in Id : proofs[id].state = "resolved" => proofs[id].of = id
  BY DEF WindowInv, ProofsInv
<1>2. /\ UNCHANGED <<call, req>>
      /\ proofs' = [id \in Id |-> IF id \in current(k) THEN Task("queued") ELSE proofs[id]]
      /\ \A id \in current(k) : proofs[id].state = "none"
  BY DEF Enqueue, vars, proofsAre
<1>3. /\ proofs' \in [Id -> Proof]
      /\ \A id \in Id : proofs[id].state = "resolved" => proofs'[id] = proofs[id]
      /\ \A id \in Id : proofs'[id].state = "resolved" => proofs'[id].of = id
  BY <1>1, <1>2, TaskType
<1> QED  BY <1>2, <1>3, ProofsStep

LEMMA ProveStep ==
  ASSUME WindowInv, NEW k \in Call, NEW attempt \in Attempts, Prove(k, attempt)
  PROVE  ProofsInv'
<1>1. /\ proofs \in [Id -> Proof]
      /\ \A id \in Id : proofs[id].state = "resolved" => proofs[id].of = id
  BY DEF WindowInv, ProofsInv
<1>2. PICK n \in 1 .. Chunks, state \in {"waiting"} \cup ProofError :
        /\ proofs[<<k, attempt, n>>].state = "queued"
        /\ proofs' = [proofs EXCEPT ![<<k, attempt, n>>] = Task(state)]
  BY DEF Prove
<1>3. <<k, attempt, n>> \in Id /\ UNCHANGED <<call, req>>
  BY DEF Id, Prove, vars
<1>4. /\ proofs' \in [Id -> Proof]
      /\ \A id \in Id : proofs[id].state = "resolved" => proofs'[id] = proofs[id]
      /\ \A id \in Id : proofs'[id].state = "resolved" => proofs'[id].of = id
  BY <1>1, <1>2, <1>3, TaskType
<1> QED  BY <1>3, <1>4, ProofsStep

\* The listener of a proof takes the answer to its own request only.
LEMMA AnswerHeard ==
  ASSUME NEW id \in Id, NEW to \in Id, NEW type, proofs \in [Id -> Proof],
         proofs[id].state = "resolved" => proofs[id].of = id
  PROVE  LET p == waitForResponse(id, to, type)
         IN  /\ p \in Proof
             /\ proofs[id].state = "resolved" => p = proofs[id]
             /\ p.state = "resolved" => p.of = id
<1>1. CASE proofs[id].state # "waiting" \/ id # to
  BY <1>1 DEF waitForResponse
<1>2. CASE proofs[id].state = "waiting" /\ id = to
  <2> DEFINE state == CASE type = "zkProveDone" -> "resolved"
                        [] type = "error" -> "internal"
                        [] OTHER -> "lost"
  <2>1. waitForResponse(id, to, type) = [state |-> state, of |-> to]
    BY <1>2 DEF waitForResponse
  <2>2. state \in {"resolved", "internal", "lost"}
    OBVIOUS
  <2> HIDE DEF state
  <2> QED  BY <1>2, <2>1, <2>2 DEF Proof, ProofError
<1> QED  BY <1>1, <1>2

LEMMA AnswerStep ==
  ASSUME WindowInv, NEW to \in Id, ProofAnswered(to)
  PROVE  ProofsInv'
<1>1. /\ proofs \in [Id -> Proof]
      /\ \A id \in Id : proofs[id].state = "resolved" => proofs[id].of = id
  BY DEF WindowInv, ProofsInv
<1>2. PICK type \in AnswerTypes :
        proofs' = [id \in Id |-> waitForResponse(id, to, type)]
  BY DEF ProofAnswered
<1>3. UNCHANGED <<call, req>>
  BY DEF ProofAnswered, vars
<1>4. /\ proofs' \in [Id -> Proof]
      /\ \A id \in Id : proofs[id].state = "resolved" => proofs'[id] = proofs[id]
      /\ \A id \in Id : proofs'[id].state = "resolved" => proofs'[id].of = id
  BY <1>1, <1>2, AnswerHeard
<1> QED  BY <1>3, <1>4, ProofsStep

LEMMA WindowStep == WindowInv /\ [WindowNext]_windowVars => WindowInv'
<1> SUFFICES ASSUME WindowInv, [WindowNext]_windowVars PROVE WindowInv'
  OBVIOUS
<1>0. FlowInv /\ MessagesInv /\ ProofsInv
  BY DEF WindowInv
<1>1. ASSUME NEW r \in Request, NEW state \in {"running", "over"},
             Handled(r, state), UNCHANGED vars
      PROVE  WindowInv'
  <2>1. FlowInv'
    BY <1>0, <1>1, FlowNext
  <2>2. MessagesInv'
    BY <1>0, <1>1, HandledStep
  <2>3. ProofsInv'
    BY <1>0, <1>1
    DEF Handled, vars, ProofsInv, Bound, inRpc, proofsAre, current
  <2> QED  BY <2>1, <2>2, <2>3 DEF WindowInv
<1>2. ASSUME NEW r \in Request, Handle(r) PROVE WindowInv'
  <2>1. UNCHANGED vars
    BY <1>2 DEF Handle, Ignore, Unreadable, CreateClaim, Immediate, Measure,
                Measured, UnknownType
  <2> QED  BY <1>0, <1>1, <1>2, <2>1, HandleSteps
<1>3. ASSUME NEW k \in Call, ClaimDone(k) PROVE WindowInv'
  BY <1>0, <1>1, <1>3, DoneStep, WindowAssumption DEF ClaimDone
<1>4. ASSUME UNCHANGED <<req, handler, answers>> PROVE MessagesInv'
  BY <1>0, <1>4 DEF MessagesInv, Conversation
<1>5. ASSUME NEW k \in Call, Step(Local(k) \/ Settle(k)) \/ Step(Remote(k))
      PROVE  WindowInv'
  <2>1. ProofsInv' /\ Next
    BY <1>5, ProgressBound DEF Next
  <2> QED  BY <1>0, <1>4, <1>5, <2>1, FlowNext DEF WindowInv, Step
<1>6. ASSUME NEW c \in Client,
             Step(Answered(c) \/ Errored(c) \/ Closing(c) \/ Closed(c))
      PROVE  WindowInv'
  <2>1. Next
    BY <1>6 DEF Step, Next
  <2> QED
    BY <1>0, <1>4, <1>6, <2>1, FlowNext, ConnectionBound DEF WindowInv, Step
<1>7. ASSUME UNCHANGED <<vars, req, handler, answers>>, ProofsInv'
      PROVE  WindowInv'
  <2>1. FlowInv'
    BY <1>0, <1>7, FlowNext
  <2> QED  BY <1>4, <1>7, <2>1 DEF WindowInv
<1>8. ASSUME NEW k \in Call, Enqueue(k) PROVE WindowInv'
  BY <1>7, <1>8, EnqueueStep DEF Enqueue
<1>9. ASSUME NEW k \in Call, NEW attempt \in Attempts, Prove(k, attempt)
      PROVE  WindowInv'
  BY <1>7, <1>9, ProveStep DEF Prove
<1>11. ASSUME NEW id \in Id, ProofAnswered(id) PROVE WindowInv'
  BY <1>7, <1>11, AnswerStep DEF ProofAnswered
<1>10. CASE UNCHANGED windowVars
  <2>1. FlowInv'
    BY <1>0, <1>10, FlowNext DEF windowVars
  <2>2. ProofsInv'
    BY <1>0, <1>10
    DEF windowVars, vars, ProofsInv, Bound, inRpc, proofsAre, current
  <2> QED  BY <1>4, <1>10, <2>1, <2>2 DEF WindowInv, windowVars
<1> QED
  BY <1>2, <1>3, <1>5, <1>6, <1>8, <1>9, <1>10, <1>11
  DEF WindowNext, LocalProgress, Network

\* The messages, their handlers, the responses and the proofs have their types.
THEOREM WindowTypeCorrect == WindowSpec => []WindowTypeOK
<1>1. WindowInv => WindowTypeOK
  BY DEF WindowInv, MessagesInv, ProofsInv, WindowTypeOK
<1> QED  BY <1>1, WindowStart, WindowStep, PTL DEF WindowSpec

\* A message is answered at most once, and a response never.
THEOREM AnsweredAtMostOnce == WindowSpec => []AnsweredOnce
<1>1. WindowInv => AnsweredOnce
  BY DEF WindowInv, MessagesInv, Conversation, AnsweredOnce
<1> QED  BY <1>1, WindowStart, WindowStep, PTL DEF WindowSpec

\* A claim is sent with the proofs of its own attempt, each the answer to its
\* own request, however many attempts asked for proofs before, whatever becomes
\* of those and in whatever order all are answered.
THEOREM ProofsAreTheirOwn == WindowSpec => []ProofsAreOfTheAttempt
<1>1. ASSUME WindowInv PROVE ProofsAreOfTheAttempt
  <2> SUFFICES ASSUME NEW k \in Call, call[k].pc \in {"claiming", "claimed"},
                      inRpc(k), NEW id \in current(k)
               PROVE  proofs[id] = [state |-> "resolved", of |-> id]
    BY DEF ProofsAreOfTheAttempt
  <2>1. id \in Id
    BY <1>1, CurrentIds DEF WindowInv, Late
  <2>2. proofs[id] \in Proof /\ proofs[id].state = "resolved" /\ proofs[id].of = id
    BY <1>1, <2>1 DEF WindowInv, ProofsInv, Bound, proofsAre
  <2> QED  BY <2>2 DEF Proof
<1> QED  BY <1>1, WindowStart, WindowStep, PTL DEF WindowSpec

Sender(r) == INSTANCE Promise WITH promise <- replied(r)

\* A request is to its sender a promise that settles at most once: what it was
\* answered is never taken back or followed by another answer, though the
\* response and what the handler does after it may throw into one catch block.
THEOREM RequestsArePromises ==
  ASSUME NEW r \in Request
  PROVE  WindowSpec => Sender(r)!Safety
<1>1. WindowInit => Sender(r)!Init
  BY DEF WindowInit, Sender!Init, replied
<1>2. ASSUME WindowInv, [WindowNext]_windowVars
      PROVE  [Sender(r)!Next]_(replied(r))
  <2>1. MessagesInv
    BY <1>2 DEF WindowInv
  <2>2. CASE UNCHANGED answers
    BY <2>2 DEF replied
  <2>3. ASSUME NEW q \in Request, NEW state \in {"running", "over"},
               Handled(q, state)
        PROVE  [Sender(r)!Next]_(replied(r))
    <3>1. CASE answers'[r] = answers[r]
      BY <3>1 DEF replied
    <3>2. CASE answers'[r] # answers[r]
      <4>1. /\ q = r /\ handler[r] # "over"
            /\ \E res \in {"done", "error"} : answers'[r] = Append(answers[r], res)
        BY <2>1, <2>3, <3>2 DEF Handled, MessagesInv
      <4>2. answers[r] = <<>>
        BY <2>1, <4>1 DEF MessagesInv, Conversation
      <4>3. \E res \in {"done", "error"} : answers'[r] = <<res>>
        BY <4>1, <4>2
      <4>4. replied(r) = "pending" /\ replied(r)' \in {"resolved", "rejected"}
        BY <4>2, <4>3 DEF replied
      <4> QED  BY <4>4 DEF Sender!Next, Sender!Resolve, Sender!Reject
    <3> QED  BY <3>1, <3>2
  <2>4. ASSUME NEW q \in Request, Handle(q)
        PROVE  [Sender(r)!Next]_(replied(r))
    BY <2>1, <2>3, <2>4, HandleSteps
  <2>5. ASSUME NEW k \in Call, ClaimDone(k)
        PROVE  [Sender(r)!Next]_(replied(r))
    BY <2>1, <2>3, <2>5, DoneStep, WindowAssumption
  <2> QED
    BY <1>2, <2>2, <2>4, <2>5
    DEF WindowNext, windowVars, LocalProgress, Enqueue, Prove, ProofAnswered,
        Network, Step
<1>3. WindowInv /\ [WindowNext]_windowVars => [Sender(r)!Next]_(replied(r))
  BY <1>2
<1> QED
  BY <1>1, <1>3, WindowStart, WindowStep, PTL DEF WindowSpec, Sender!Safety
=============================================================================
