------------------------- MODULE Connection_proofs -------------------------
(* Theorems of TcpConnect, for hosts with any number of addresses, and of   *)
(* KeepAlive, for every choice of the intervals in which a ping and its      *)
(* answer fit into MaxNoData.                                                *)
EXTENDS TcpConnect, KeepAlive, TLAPS

Option == [geo : {"none", "valid", "invalid"}, proxyUrl : BOOLEAN]
Joining == {"connecting", "ending"}
State == {"none", "ending", "ended", "closed"} \cup Live

LEMMA AttemptZero == 0 \in Attempt
BY ConnectAssumption DEF Attempt

\* Ending the socket that is held, or not, leaves sockets.
LEMMA RejectTypes ==
  ASSUME NEW kind \in Failure, NEW socks \in [Attempt -> State],
         Reject(kind, socks),
         result \in {"pending", "connected"} \cup Failure, timer \in {"off", "armed"}
  PROVE  /\ sock' \in [Attempt -> State]
         /\ result' \in {"pending", "connected"} \cup Failure
         /\ timer' \in {"off", "armed"}
<1>1. CASE result = "pending"
  BY <1>1 DEF Reject, Ending, State
<1>2. CASE result # "pending"
  BY <1>2 DEF Reject
<1> QED BY <1>1, <1>2

LEMMA NextAddressTypes ==
  ASSUME NEW socks \in [Attempt -> State], NEW n \in Attempt, attempt \in Attempt,
         NextAddress(socks, n),
         result \in {"pending", "connected"} \cup Failure, timer \in {"off", "armed"}
  PROVE  /\ sock' \in [Attempt -> State]
         /\ attempt' \in Attempt
         /\ getting' \in {"proxy", "settled"}
         /\ result' \in {"pending", "connected"} \cup Failure
         /\ timer' \in {"off", "armed"}
<1>1. CASE attempt < n
  <2>1. attempt + 1 \in Attempt
    BY <1>1, ConnectAssumption DEF Attempt
  <2> QED BY <1>1, <2>1 DEF NextAddress, State, Live
<1>2. CASE ~(attempt < n)
  <2>1. getting' = "settled" /\ Reject("refused", socks) /\ attempt' = attempt
    BY <1>2 DEF NextAddress
  <2>2. "refused" \in Failure
    BY DEF Failure
  <2> QED BY <2>1, <2>2, RejectTypes
<1> QED BY <1>1, <1>2

LEMMA InitTypes == Init => TypeOK
BY AttemptZero DEF Init, TypeOK, Live

LEMMA NextTypes == TypeOK /\ [Next]_vars => TypeOK'
<1> SUFFICES ASSUME TypeOK, [Next]_vars PROVE TypeOK'
  OBVIOUS
<1>0. /\ opts \in Option /\ attempt \in Attempt /\ addrs \in Attempt
      /\ getting \in {"idle", "proxy", "dns", "settled"}
      /\ sock \in [Attempt -> State] /\ socket \in Attempt \cup {None}
      /\ timer \in {"off", "armed"} /\ result \in {"pending", "connected"} \cup Failure
  BY DEF TypeOK, Option, State
<1> DEFINE Good == /\ opts' \in Option /\ attempt' \in Attempt /\ addrs' \in Attempt
                   /\ getting' \in {"idle", "proxy", "dns", "settled"}
                   /\ sock' \in [Attempt -> State] /\ socket' \in Attempt \cup {None}
                   /\ timer' \in {"off", "armed"}
                   /\ result' \in {"pending", "connected"} \cup Failure
<1> SUFFICES Good
  BY DEF TypeOK, Option, State
<1>f. Failure = {"badRequest", "refused", "proxyError", "proxyDown", "dnsError",
                 "socketError", "timedOut"}
  BY DEF Failure
<1>1. CASE Connect
  <2>1. CASE Route = "direct"
    BY <1>0, <1>1, <2>1, AttemptZero DEF Connect, State, Live
  <2>2. CASE Route = "proxy"
    BY <1>0, <1>1, <2>2, AttemptZero DEF Connect, State, Live
  <2>3. CASE Route = "invalid"
    <3>1. getting' = "settled" /\ Reject("badRequest", sock) /\ UNCHANGED <<socket, opts, attempt, addrs>>
      BY <1>1, <2>3 DEF Connect
    <3> QED BY <1>0, <1>f, <3>1, RejectTypes
  <2> QED BY <2>1, <2>2, <2>3 DEF Route
<1>2. CASE SocketConnects
  BY <1>0, <1>2 DEF SocketConnects, Resolve, State, Live
<1>3. CASE SocketFails
  <2>1. [sock EXCEPT ![0] = "closed"] \in [Attempt -> State]
    BY <1>0 DEF State
  <2> QED BY <1>0, <1>3, <1>f, <2>1, RejectTypes DEF SocketFails
<1>4. CASE ProxyConnects
  BY <1>0, <1>4 DEF ProxyConnects, Resolve, State, Live
<1>5. ASSUME NEW kind \in {"refused", "proxyError", "proxyDown"}, ProxyFails(kind)
      PROVE  Good
  <2> DEFINE socks == [sock EXCEPT ![attempt] = "closed"]
  <2>1. socks \in [Attempt -> State]
    BY <1>0 DEF State
  <2>2. UNCHANGED <<opts, addrs, socket>>
    BY <1>5 DEF ProxyFails
  <2>3. CASE attempt > 0
    <3>1. NextAddress(socks, addrs)
      BY <1>5, <2>3 DEF ProxyFails
    <3> QED BY <1>0, <2>1, <2>2, <3>1, NextAddressTypes
  <2>4. CASE ~(attempt > 0) /\ attempt = 0 /\ kind = "refused"
    BY <1>0, <1>5, <2>1, <2>2, <2>4 DEF ProxyFails
  <2>5. CASE ~(attempt > 0) /\ ~(attempt = 0 /\ kind = "refused")
    <3>1. getting' = "settled" /\ Reject(kind, socks) /\ UNCHANGED attempt
      BY <1>5, <2>5 DEF ProxyFails
    <3> QED BY <1>0, <1>f, <2>1, <2>2, <3>1, RejectTypes
  <2> QED BY <2>3, <2>4, <2>5
<1>6. CASE Resolved
  <2>1. addrs' \in Attempt /\ NextAddress(sock, addrs') /\ UNCHANGED <<opts, socket>>
    BY <1>6 DEF Resolved
  <2> QED BY <1>0, <2>1, NextAddressTypes
<1>7. CASE NotResolved
  BY <1>0, <1>7, <1>f, RejectTypes DEF NotResolved
<1>8. CASE Timeout
  BY <1>0, <1>8, <1>f, RejectTypes DEF Timeout
<1>9. ASSUME NEW i \in Attempt, SocketCloses(i) PROVE Good
  BY <1>0, <1>9 DEF SocketCloses, State
<1>10. CASE UNCHANGED vars
  BY <1>0, <1>10 DEF vars
<1> QED BY <1>1, <1>2, <1>3, <1>4, <1>5, <1>6, <1>7, <1>8, <1>9, <1>10 DEF Next

\* Every reachable state of connectTcp is well typed.
THEOREM TypeCorrect == Spec => []TypeOK
BY InitTypes, NextTypes, PTL DEF Spec

-----------------------------------------------------------------------------
(* What every state keeps of the attempts.                                  *)

\* Only the attempt that is awaited, or the socket that is held, is alive.
Held ==
  \A i \in Attempt :
    sock[i] \in Live =>
      \/ getting = "proxy" /\ i = attempt
      \/ getting = "settled" /\ i = socket

\* The route that was taken.
Routed ==
  /\ \A i \in Attempt :
       sock[i] \in Joining =>
         Route = "direct" /\ getting = "settled" /\ i = socket
  /\ Route # "direct" => socket \in {None, attempt}
  /\ Route = "invalid" => socket = None
  /\ getting \in {"proxy", "dns"} => Route = "proxy" /\ socket = None
  /\ Route = "direct" /\ getting # "idle" => getting = "settled" /\ socket = 0
  /\ getting = "idle" => result = "pending" /\ timer = "off" /\ socket = None /\ attempt = 0

\* The attempts before the one that is awaited failed.
Tried ==
  /\ getting = "proxy" => \A i \in Attempt : i < attempt => sock[i] = "closed"
  /\ getting = "dns" => attempt = 0 /\ sock[0] = "closed"

\* Only the timer fails the call while getSocket goes on.
Over ==
  result \in Failure /\ (Route = "direct" \/ result # "timedOut")
    => getting = "settled"

\* What "catch" leaves of the sockets that connectTcp holds.
HeldIsEnded ==
  result \in Failure /\ (Route = "direct" \/ result # "timedOut")
    => \A i \in Attempt : sock[i] \notin Live

\* A socket that waits for its end is one of a call that failed.
Overtaken == \A i \in Attempt : sock[i] = "ending" => result \in Failure

Safe == HeldIsEnded /\ RefusedMeansAllTried /\ Overtaken

Inv == TypeOK /\ Held /\ Routed /\ Tried /\ Over /\ Safe

\* What a rejection does to the sockets.
LEMMA RejectSockets ==
  ASSUME NEW kind, NEW socks \in [Attempt -> State], Reject(kind, socks), NEW i \in Attempt
  PROVE  /\ sock'[i] \in Live => sock'[i] = socks[i] /\ (result = "pending" => i # socket)
         /\ socks[i] = "closed" => sock'[i] = "closed"
         /\ sock'[i] \in Joining => socks[i] \in Joining
         /\ sock'[i] = "ending" => socks[i] = "ending" \/ result = "pending"
         /\ result' = IF result = "pending" THEN kind ELSE result
<1>1. CASE result = "pending"
  <2>1. sock'[i] = (IF i = socket THEN Ending(socks[i]) ELSE socks[i]) /\ result' = kind
    BY <1>1 DEF Reject
  <2>2. CASE i = socket /\ socks[i] = "connecting"
    BY <1>1, <2>1, <2>2 DEF Ending, Live, Joining
  <2>3. CASE i = socket /\ socks[i] = "closed"
    BY <1>1, <2>1, <2>3 DEF Ending, Live, Joining
  <2>4. CASE i = socket /\ socks[i] \notin {"connecting", "closed"}
    <3>1. sock'[i] = "ended"
      BY <2>1, <2>4 DEF Ending
    <3> QED BY <1>1, <2>1, <2>4, <3>1 DEF Live, Joining
  <2>5. CASE i # socket
    BY <1>1, <2>1, <2>5
  <2> QED BY <2>2, <2>3, <2>4, <2>5
<1>2. CASE result # "pending"
  BY <1>2 DEF Reject
<1> QED BY <1>1, <1>2

\* A rejection after which getSocket is over and nothing else is alive.
LEMMA RejectOver ==
  ASSUME Inv, NEW kind \in Failure, NEW socks \in [Attempt -> State],
         Reject(kind, socks), getting' = "settled", UNCHANGED <<opts, socket, attempt>>,
         \A i \in Attempt : socks[i] \in Live => i = socket,
         \A i \in Attempt : socks[i] \in Joining => Route = "direct" /\ i = socket,
         \A i \in Attempt : socks[i] = "ending" => sock[i] = "ending",
         Route = "direct" => socket = 0,
         result # "pending" => socks = sock \/ \A i \in Attempt : socks[i] \notin Live
  PROVE  Held' /\ Routed' /\ Tried' /\ Over' /\ HeldIsEnded' /\ Overtaken'
<1>1. Route' = Route
  BY DEF Route
<1>2. \A i \in Attempt :
        /\ sock'[i] \in Live => sock'[i] = socks[i] /\ (result = "pending" => i # socket)
        /\ sock'[i] \in Joining => socks[i] \in Joining
        /\ sock'[i] = "ending" => socks[i] = "ending" \/ result = "pending"
        /\ result' = IF result = "pending" THEN kind ELSE result
  BY RejectSockets
<1>3. Held'
  BY <1>2 DEF Held
<1>4. Routed'
  BY <1>1, <1>2 DEF Inv, Routed
<1>5. Tried' /\ Over'
  BY DEF Tried, Over
<1>6. HeldIsEnded'
  <2>1. CASE result = "pending"
    BY <1>2, <2>1 DEF HeldIsEnded
  <2>2. CASE result # "pending"
    <3>1. result' = result
      BY <1>2, <2>2, AttemptZero
    <3> QED BY <1>1, <1>2, <2>2, <3>1 DEF Inv, Safe, HeldIsEnded
  <2> QED BY <2>1, <2>2
<1>7. Overtaken'
  BY <1>2 DEF Overtaken, Inv, Safe
<1> QED BY <1>3, <1>4, <1>5, <1>6, <1>7

LEMMA InvInit == Init => Inv
<1> SUFFICES ASSUME Init PROVE Inv
  OBVIOUS
<1>1. \A i \in Attempt : sock[i] = "none"
  BY DEF Init
<1>2. TypeOK
  BY InitTypes
<1> QED BY <1>1, <1>2 DEF Init, Inv, Held, Routed, Tried, Over, Safe, HeldIsEnded,
                          RefusedMeansAllTried, Overtaken, Live, Joining, Failure

\* The types and constants that the steps need.
LEMMA Known ==
  ASSUME Inv
  PROVE  /\ sock \in [Attempt -> State] /\ attempt \in Attempt /\ addrs \in Attempt
         /\ MaxAddrs \in Nat /\ Attempt = 0 .. MaxAddrs /\ 0 \in Attempt
         /\ None \notin Attempt
BY ConnectAssumption, AttemptZero DEF Inv, TypeOK, State, Attempt

\* The next address is asked for, or the refusal of the host name is thrown.
LEMMA NextAddressStep ==
  ASSUME Inv, getting \in {"proxy", "dns"}, NEW socks \in [Attempt -> State],
         NextAddress(socks, addrs'), addrs' \in Attempt, UNCHANGED <<opts, socket>>,
         \A i \in Attempt : socks[i] \notin Live \cup Joining,
         \A i \in Attempt : i <= attempt => socks[i] = "closed"
  PROVE  Held' /\ Routed' /\ Tried' /\ Over' /\ Safe'
<1>1. Route' = Route /\ Route = "proxy" /\ socket = None
  BY DEF Route, Inv, Routed
<1>2. result \in Failure => result = "timedOut"
  BY <1>1 DEF Inv, Over
<1>3. CASE attempt < addrs'
  <2>1. /\ attempt' = attempt + 1 /\ getting' = "proxy"
        /\ sock' = [socks EXCEPT ![attempt + 1] = "asking"] /\ UNCHANGED <<timer, result>>
    BY <1>3 DEF NextAddress
  <2>2. Held'
    BY <2>1, Known DEF Held
  <2>3. Routed'
    BY <1>1, <2>1, Known DEF Routed, Joining
  <2>4. Tried'
    <3>1. ASSUME NEW i \in Attempt, i < attempt' PROVE sock'[i] = "closed"
      <4>1. i \in Int /\ attempt \in Int
        BY Known
      <4>2. i <= attempt /\ i # attempt + 1
        BY <2>1, <3>1, <4>1
      <4> QED BY <2>1, <4>2
    <3> QED BY <2>1, <3>1 DEF Tried
  <2>5. Over' /\ Safe'
    BY <1>1, <1>2, <2>1, Known
    DEF Over, Safe, HeldIsEnded, RefusedMeansAllTried, Overtaken, Joining, Failure
  <2> QED BY <2>2, <2>3, <2>4, <2>5
<1>4. CASE ~(attempt < addrs')
  <2>1. getting' = "settled" /\ Reject("refused", socks) /\ attempt' = attempt
    BY <1>4 DEF NextAddress
  <2>2. Held' /\ Routed' /\ Tried' /\ Over' /\ HeldIsEnded' /\ Overtaken'
    BY <1>1, <2>1, RejectOver DEF Live, Joining, Failure
  <2>3. RefusedMeansAllTried'
    <3> SUFFICES ASSUME NEW i \in 0 .. addrs', result' = "refused" PROVE sock'[i] = "closed"
      BY DEF RefusedMeansAllTried
    <3>1. i \in Attempt /\ i <= attempt
      BY <1>4, Known
    <3> QED BY <2>1, <3>1, RejectSockets
  <2> QED BY <2>2, <2>3 DEF Safe
<1> QED BY <1>3, <1>4

LEMMA InvNext == Inv /\ [Next]_vars => Inv'
<1> SUFFICES ASSUME Inv, [Next]_vars PROVE Held' /\ Routed' /\ Tried' /\ Over' /\ Safe'
  BY NextTypes DEF Inv
<1>k. /\ sock \in [Attempt -> State] /\ attempt \in Attempt /\ addrs \in Attempt
      /\ MaxAddrs \in Nat /\ Attempt = 0 .. MaxAddrs /\ 0 \in Attempt /\ None \notin Attempt
  BY Known
<1>1. CASE Connect
  <2>1. \A i \in Attempt : sock[i] \notin Live \cup Joining
    BY <1>1 DEF Connect, Inv, Held, Routed
  <2>2. result = "pending" /\ Route' = Route /\ UNCHANGED <<opts, attempt, addrs>>
    BY <1>1 DEF Connect, Inv, Routed, Route
  <2>3. CASE Route = "direct"
    <3>1. /\ getting' = "settled" /\ sock' = [sock EXCEPT ![0] = "connecting"]
          /\ socket' = 0 /\ UNCHANGED result
      BY <1>1, <2>3 DEF Connect
    <3> QED BY <1>k, <2>1, <2>2, <2>3, <3>1
            DEF Held, Routed, Tried, Over, Safe, HeldIsEnded, RefusedMeansAllTried, Overtaken,
                Failure, Live, Joining
  <2>4. CASE Route = "proxy"
    <3>1. /\ getting' = "proxy" /\ sock' = [sock EXCEPT ![0] = "asking"]
          /\ UNCHANGED <<socket, result>>
      BY <1>1, <2>4 DEF Connect
    <3>2. attempt = 0 /\ socket = None
      BY <1>1 DEF Connect, Inv, Routed
    <3> QED BY <1>k, <2>1, <2>2, <2>4, <3>1, <3>2
            DEF Held, Routed, Tried, Over, Safe, HeldIsEnded, RefusedMeansAllTried, Overtaken,
                Failure, Live, Joining
  <2>5. CASE Route = "invalid"
    <3>1. /\ getting' = "settled" /\ Reject("badRequest", sock)
          /\ UNCHANGED <<socket, opts, attempt>>
      BY <1>1, <2>5 DEF Connect
    <3>2. Held' /\ Routed' /\ Tried' /\ Over' /\ HeldIsEnded' /\ Overtaken'
      BY <1>k, <2>1, <2>5, <3>1, RejectOver DEF Failure, Live
    <3>3. result' = "badRequest"
      BY <1>k, <2>2, <3>1, RejectSockets
    <3> QED BY <3>2, <3>3 DEF Safe, RefusedMeansAllTried
  <2> QED BY <2>3, <2>4, <2>5 DEF Route
<1>2. CASE SocketConnects
  <2>1. /\ sock[0] \in Joining
        /\ sock' = [sock EXCEPT ![0] = IF @ = "ending" THEN "ended" ELSE "open"]
        /\ UNCHANGED <<opts, getting, attempt, addrs, socket>> /\ Route' = Route
    BY <1>2 DEF SocketConnects, Route, Joining
  <2>2. Route = "direct" /\ getting = "settled" /\ socket = 0
    BY <1>k, <2>1 DEF Inv, Routed
  <2>3. \A i \in Attempt : i # 0 => sock'[i] = sock[i] /\ sock[i] \notin Live \cup Joining
    BY <1>k, <2>1, <2>2 DEF Inv, Held, Routed
  <2>4. sock'[0] \notin Joining
    BY <1>k, <2>1 DEF Joining
  <2>5. Held' /\ Routed' /\ Tried'
    <3>1. Held'
      BY <2>1, <2>2, <2>3 DEF Held
    <3>2. Routed'
      BY <2>1, <2>2, <2>3, <2>4 DEF Routed
    <3> QED BY <2>1, <2>2, <3>1, <3>2 DEF Tried
  <2>6. Over' /\ Overtaken'
    BY <2>1, <2>2, <2>3, <2>4 DEF Over, Overtaken, Joining
  <2>7. CASE sock[0] = "connecting"
    <3>1. result \notin Failure
      BY <1>k, <2>2, <2>7 DEF Inv, Safe, HeldIsEnded, Live
    <3>2. result' \notin Failure
      BY <1>2, <3>1 DEF SocketConnects, Resolve, Failure
    <3> QED BY <2>5, <2>6, <3>2 DEF Safe, HeldIsEnded, RefusedMeansAllTried, Failure
  <2>8. CASE sock[0] = "ending"
    <3>1. result \in Failure /\ result' = result
      BY <1>2, <1>k, <2>8 DEF Inv, Safe, Overtaken, SocketConnects, Resolve, Failure
    <3>2. sock'[0] = "ended"
      BY <1>k, <2>1, <2>8
    <3>3. HeldIsEnded'
      BY <2>3, <3>2 DEF HeldIsEnded, Live
    <3>4. RefusedMeansAllTried'
      <4>1. result = "refused" => sock[0] = "closed"
        BY <1>k DEF Inv, Safe, RefusedMeansAllTried
      <4> QED BY <2>8, <3>1, <4>1 DEF RefusedMeansAllTried
    <3> QED BY <2>5, <2>6, <3>3, <3>4 DEF Safe
  <2> QED BY <2>1, <2>7, <2>8 DEF Joining
<1>3. CASE SocketFails
  <2> DEFINE socks == [sock EXCEPT ![0] = "closed"]
  <2>1. /\ sock[0] \in Joining /\ Reject("socketError", socks)
        /\ UNCHANGED <<opts, getting, attempt, addrs, socket>>
    BY <1>3 DEF SocketFails, Joining
  <2>2. Route = "direct" /\ getting = "settled" /\ socket = 0
    BY <1>k, <2>1 DEF Inv, Routed
  <2>3. \A i \in Attempt : socks[i] \notin Live \cup Joining
    BY <1>k, <2>2 DEF Inv, Held, Routed, Live, Joining
  <2>4. socks \in [Attempt -> State]
    BY <1>k DEF State
  <2>5. Held' /\ Routed' /\ Tried' /\ Over' /\ HeldIsEnded' /\ Overtaken'
    BY <1>k, <2>1, <2>2, <2>3, <2>4, RejectOver DEF Failure, Joining
  <2>6. result' # "refused"
    <3>1. result # "refused"
      <4>1. sock[0] # "closed"
        BY <2>1 DEF Joining
      <4> QED BY <1>k, <4>1 DEF Inv, Safe, RefusedMeansAllTried
    <3>2. result' = IF result = "pending" THEN "socketError" ELSE result
      BY <1>k, <2>1, <2>4, RejectSockets
    <3> QED BY <3>1, <3>2
  <2> QED BY <2>5, <2>6 DEF Safe, RefusedMeansAllTried
<1>4. CASE ProxyConnects
  <2>1. /\ getting = "proxy" /\ getting' = "settled" /\ sock' = [sock EXCEPT ![attempt] = "open"]
        /\ socket' = attempt /\ UNCHANGED <<opts, attempt, addrs>> /\ Route' = Route
    BY <1>4 DEF ProxyConnects, Route
  <2>2. Route = "proxy" /\ (result \in Failure => result = "timedOut")
    BY <2>1 DEF Inv, Routed, Over
  <2>3. result' \in Failure => result' = "timedOut"
    BY <1>4, <2>2 DEF ProxyConnects, Resolve, Failure
  <2>4. \A i \in Attempt : sock'[i] = IF i = attempt THEN "open" ELSE sock[i]
    BY <1>k, <2>1
  <2>5. \A i \in Attempt : sock[i] \notin Joining
    BY <2>2 DEF Inv, Routed
  <2>6. Held' /\ Tried'
    BY <2>1, <2>4 DEF Inv, Held, Tried
  <2>7. Routed' /\ Overtaken'
    BY <2>1, <2>2, <2>4, <2>5 DEF Routed, Overtaken, Joining
  <2> QED BY <2>1, <2>2, <2>3, <2>6, <2>7
          DEF Over, Safe, HeldIsEnded, RefusedMeansAllTried, Failure
<1>5. ASSUME NEW kind \in {"refused", "proxyError", "proxyDown"}, ProxyFails(kind)
      PROVE  Held' /\ Routed' /\ Tried' /\ Over' /\ Safe'
  <2> DEFINE socks == [sock EXCEPT ![attempt] = "closed"]
  <2>1. /\ getting = "proxy" /\ UNCHANGED <<opts, addrs, socket>> /\ Route' = Route
        /\ socks \in [Attempt -> State]
    BY <1>k, <1>5 DEF ProxyFails, Route, State
  <2>2. Route = "proxy" /\ socket = None /\ (result \in Failure => result = "timedOut")
    BY <2>1 DEF Inv, Routed, Over
  <2>3. \A i \in Attempt : socks[i] \notin Live \cup Joining
    BY <1>k, <2>1, <2>2 DEF Inv, Held, Routed, Live, Joining
  <2>4. \A i \in Attempt : i <= attempt => socks[i] = "closed"
    BY <1>k, <2>1 DEF Inv, Tried
  <2>5. CASE attempt > 0
    <3>1. NextAddress(socks, addrs')
      BY <1>5, <2>1, <2>5 DEF ProxyFails
    <3> QED BY <1>k, <2>1, <2>3, <2>4, <3>1, NextAddressStep
  <2>6. CASE attempt = 0 /\ kind = "refused"
    <3>1. getting' = "dns" /\ sock' = socks /\ UNCHANGED <<attempt, timer, result>>
      BY <1>5, <2>6 DEF ProxyFails
    <3>2. Held' /\ Routed' /\ Tried'
      BY <1>k, <2>1, <2>2, <2>3, <2>6, <3>1 DEF Held, Routed, Tried
    <3> QED BY <2>1, <2>2, <2>3, <3>1, <3>2
            DEF Over, Safe, HeldIsEnded, RefusedMeansAllTried, Overtaken, Joining, Failure
  <2>7. CASE attempt = 0 /\ kind # "refused"
    <3>1. getting' = "settled" /\ Reject(kind, socks) /\ UNCHANGED attempt
      BY <1>5, <2>7 DEF ProxyFails
    <3>2. Held' /\ Routed' /\ Tried' /\ Over' /\ HeldIsEnded' /\ Overtaken'
      BY <2>1, <2>2, <2>3, <3>1, RejectOver DEF Failure, Joining
    <3>3. result' # "refused"
      BY <1>k, <2>1, <2>2, <2>7, <3>1, RejectSockets DEF Failure
    <3> QED BY <3>2, <3>3 DEF Safe, RefusedMeansAllTried
  <2> QED BY <1>k, <2>5, <2>6, <2>7
<1>6. CASE Resolved
  <2>1. /\ getting = "dns" /\ addrs' \in Attempt /\ NextAddress(sock, addrs')
        /\ UNCHANGED <<opts, socket>>
    BY <1>6 DEF Resolved
  <2>2. attempt = 0 /\ sock[0] = "closed" /\ \A i \in Attempt : sock[i] \notin Live \cup Joining
    BY <2>1 DEF Inv, Tried, Held, Routed
  <2>3. \A i \in Attempt : i <= attempt => sock[i] = "closed"
    BY <1>k, <2>2
  <2> QED BY <1>k, <2>1, <2>2, <2>3, NextAddressStep
<1>7. CASE NotResolved
  <2>1. /\ getting = "dns" /\ getting' = "settled" /\ Reject("dnsError", sock)
        /\ UNCHANGED <<opts, socket, addrs, attempt>>
    BY <1>7 DEF NotResolved
  <2>2. /\ Route = "proxy" /\ (result \in Failure => result = "timedOut")
        /\ \A i \in Attempt : sock[i] \notin Live \cup Joining
    BY <2>1 DEF Inv, Routed, Over, Held
  <2>3. Held' /\ Routed' /\ Tried' /\ Over' /\ HeldIsEnded' /\ Overtaken'
    BY <1>k, <2>1, <2>2, RejectOver DEF Failure, Joining
  <2>4. result' # "refused"
    BY <1>k, <2>1, <2>2, RejectSockets DEF Failure
  <2> QED BY <2>3, <2>4 DEF Safe, RefusedMeansAllTried
<1>8. CASE Timeout
  <2>1. Reject("timedOut", sock) /\ UNCHANGED <<opts, getting, attempt, addrs, socket>> /\ Route' = Route
    BY <1>8 DEF Timeout, Route
  <2>2. \A i \in Attempt :
          /\ sock'[i] \in Live => sock'[i] = sock[i] /\ (result = "pending" => i # socket)
          /\ sock[i] = "closed" => sock'[i] = "closed"
          /\ sock'[i] \in Joining => sock[i] \in Joining
          /\ sock'[i] = "ending" => sock[i] = "ending" \/ result = "pending"
    BY <1>k, <2>1, RejectSockets
  <2>3. result' = IF result = "pending" THEN "timedOut" ELSE result
    BY <1>k, <2>1, RejectSockets
  <2>4. Held' /\ Tried'
    BY <1>k, <2>1, <2>2 DEF Inv, Held, Tried
  <2>5. Routed'
    <3>1. getting = "idle" => timer # "armed"
      BY DEF Inv, Routed
    <3> QED BY <1>8, <2>1, <2>2, <3>1 DEF Inv, Routed, Timeout
  <2>6. Over'
    <3>1. CASE Route = "direct"
      <4>1. getting # "idle"
        BY <1>8 DEF Timeout, Inv, Routed
      <4> QED BY <2>1, <3>1, <4>1 DEF Inv, Routed, Over
    <3>2. CASE Route # "direct"
      BY <2>1, <2>3, <3>2 DEF Inv, Over, Failure
    <3> QED BY <3>1, <3>2
  <2>7. HeldIsEnded'
    <3>1. CASE result = "pending"
      <4> SUFFICES ASSUME Route = "direct", NEW i \in Attempt, sock'[i] \in Live PROVE FALSE
        BY <2>1, <2>3, <3>1 DEF HeldIsEnded
      <4>1. sock[i] \in Live /\ i # socket
        BY <2>2, <3>1
      <4>2. getting = "settled"
        BY <1>8 DEF Timeout, Inv, Routed
      <4> QED BY <4>1, <4>2 DEF Inv, Held
    <3>2. CASE result # "pending"
      BY <2>1, <2>2, <2>3, <3>2 DEF Inv, Safe, HeldIsEnded
    <3> QED BY <3>1, <3>2
  <2>8. RefusedMeansAllTried'
    <3> SUFFICES ASSUME result' = "refused", NEW i \in 0 .. addrs PROVE sock'[i] = "closed"
      BY <2>1 DEF RefusedMeansAllTried
    <3>1. i \in Attempt
      BY <1>k
    <3>2. result = "refused"
      BY <2>3
    <3> QED BY <2>2, <3>1, <3>2 DEF Inv, Safe, RefusedMeansAllTried
  <2>9. Overtaken'
    BY <2>2, <2>3 DEF Inv, Safe, Overtaken, Failure
  <2> QED BY <2>4, <2>5, <2>6, <2>7, <2>8, <2>9 DEF Safe
<1>9. ASSUME NEW i \in Attempt, SocketCloses(i)
      PROVE  Held' /\ Routed' /\ Tried' /\ Over' /\ Safe'
  <2>1. /\ sock' = [sock EXCEPT ![i] = "closed"] /\ Route' = Route
        /\ UNCHANGED <<opts, getting, attempt, addrs, socket, result>>
    BY <1>9 DEF SocketCloses, Route
  <2>2. \A j \in Attempt : sock'[j] \in {"closed", sock[j]}
    BY <1>k, <2>1
  <2>3. \A j \in Attempt :
          /\ sock'[j] \in {"closed", sock[j]}
          /\ sock'[j] \in Live => sock[j] \in Live
          /\ sock'[j] \in Joining => sock[j] \in Joining /\ sock'[j] = sock[j]
    BY <2>2 DEF Live, Joining
  <2>6. Held'
    BY <2>1, <2>3 DEF Inv, Held
  <2>7. Routed'
    <3>1. result # "pending" /\ timer' = timer
      BY <1>9 DEF SocketCloses
    <3> QED BY <2>1, <2>3, <3>1 DEF Inv, Routed
  <2>4. Tried' /\ Over'
    BY <1>k, <2>1, <2>2 DEF Inv, Tried, Over
  <2>5. Safe'
    BY <1>k, <2>1, <2>2, <2>3
    DEF Inv, Safe, HeldIsEnded, RefusedMeansAllTried, Overtaken, Joining
  <2> QED BY <2>4, <2>5, <2>6, <2>7
<1>10. CASE UNCHANGED vars
  BY <1>10 DEF vars, Inv, Held, Routed, Tried, Over, Safe, HeldIsEnded, RefusedMeansAllTried,
             Overtaken, Route
<1> QED BY <1>1, <1>2, <1>3, <1>4, <1>5, <1>6, <1>7, <1>8, <1>9, <1>10 DEF Next

LEMMA Invariance == Spec => []Inv
BY InvInit, InvNext, PTL DEF Spec

-----------------------------------------------------------------------------
\* However a call of connectTcp fails, "catch" leaves no socket alive, but for
\* the one of the proxy that the timer overtook.
THEOREM FailuresLeaveLateSocketOnly == Spec => []FailureLeavesLateSocketOnly
<1>1. ASSUME Inv, result \in Failure, NEW i \in Attempt, sock[i] \in Live
      PROVE  result = "timedOut" /\ Route = "proxy" /\ i = attempt
  <2>1. Route # "direct" /\ result = "timedOut"
    BY <1>1 DEF Inv, Safe, HeldIsEnded
  <2>2. i # None
    BY Known, <1>1
  <2>3. i = attempt /\ Route # "invalid"
    BY <1>1, <2>1, <2>2 DEF Inv, Held, Routed
  <2> QED BY <2>1, <2>3 DEF Route
<1>2. Inv => FailureLeavesLateSocketOnly
  BY <1>1 DEF FailureLeavesLateSocketOnly
<1> QED BY <1>2, Invariance, PTL

\* The refusal of a host name is thrown after every address of it was tried.
THEOREM RefusalIsEarned == Spec => []RefusedMeansAllTried
BY Invariance, PTL DEF Inv, Safe

\* getSocket asks for a socket when the one before it is gone, even if the
\* timer fired meanwhile.
THEOREM OneSocketAlive == Spec => []OneSocketAtATime
<1>1. Inv => OneSocketAtATime
  BY DEF Inv, Held, OneSocketAtATime
<1> QED BY <1>1, Invariance, PTL

\* What connectTcp returns is open, whichever event settled the promise.
THEOREM HandsOver == Spec => HandsOverOpenSocket
<1>1. ASSUME Inv, [Next]_vars, result # "connected", result' = "connected"
      PROVE  socket' # None /\ sock'[socket'] = "open"
  <2>k. /\ sock \in [Attempt -> State] /\ attempt \in Attempt /\ 0 \in Attempt
        /\ None \notin Attempt
    BY <1>1, Known
  <2>1. CASE SocketConnects
    <3>1. /\ sock[0] \in Joining /\ socket' = socket /\ result = "pending"
          /\ sock' = [sock EXCEPT ![0] = IF @ = "ending" THEN "ended" ELSE "open"]
      BY <1>1, <2>1 DEF SocketConnects, Resolve, Joining
    <3>2. socket = 0 /\ sock[0] # "ending"
      BY <1>1, <2>k, <3>1 DEF Inv, Routed, Safe, Overtaken, Failure
    <3> QED BY <2>k, <3>1, <3>2
  <2>2. CASE ProxyConnects
    BY <2>2, <2>k DEF ProxyConnects
  <2>3. ASSUME NEW kind, NEW socks, Reject(kind, socks), kind # "connected" PROVE FALSE
    BY <1>1, <2>3 DEF Reject
  <2>4. CASE Connect
    <3>1. CASE Route = "invalid"
      BY <2>3, <2>4, <3>1 DEF Connect
    <3>2. CASE Route = "direct"
      BY <1>1, <2>4, <3>2 DEF Connect
    <3>3. CASE Route = "proxy"
      BY <1>1, <2>4, <3>3 DEF Connect
    <3> QED BY <3>1, <3>2, <3>3 DEF Route
  <2>5. CASE SocketFails
    BY <2>3, <2>5 DEF SocketFails
  <2>6. ASSUME NEW socks, NEW n, NextAddress(socks, n) PROVE FALSE
    BY <1>1, <2>3, <2>6 DEF NextAddress
  <2>7. ASSUME NEW kind \in {"refused", "proxyError", "proxyDown"}, ProxyFails(kind) PROVE FALSE
    <3> DEFINE socks == [sock EXCEPT ![attempt] = "closed"]
    <3>1. CASE attempt > 0
      BY <2>6, <2>7, <3>1 DEF ProxyFails
    <3>2. CASE ~(attempt > 0) /\ attempt = 0 /\ kind = "refused"
      BY <1>1, <2>7, <3>2 DEF ProxyFails
    <3>3. CASE ~(attempt > 0) /\ ~(attempt = 0 /\ kind = "refused")
      <4>1. Reject(kind, socks)
        BY <2>7, <3>3 DEF ProxyFails
      <4> QED BY <2>3, <2>7, <4>1
    <3> QED BY <3>1, <3>2, <3>3
  <2>8. CASE Resolved \/ NotResolved \/ Timeout
    BY <2>3, <2>6, <2>8 DEF Resolved, NotResolved, Timeout
  <2>9. CASE (\E i \in Attempt : SocketCloses(i)) \/ UNCHANGED vars
    BY <1>1, <2>9 DEF SocketCloses, vars
  <2> QED BY <1>1, <2>1, <2>2, <2>4, <2>5, <2>7, <2>8, <2>9 DEF Next
<1>2. Inv /\ [Next]_vars => [result # "connected" /\ result' = "connected"
                               => socket' # None /\ sock'[socket'] = "open"]_vars
  BY <1>1
<1> QED BY <1>2, Invariance, PTL DEF Spec, HandsOverOpenSocket

\* What was settled stays settled.
LEMMA SettledStays == Inv /\ [Next]_vars => result' = result \/ result = "pending"
<1> SUFFICES ASSUME Inv, [Next]_vars, result # "pending" PROVE result' = result
  OBVIOUS
<1>1. ASSUME NEW kind, NEW socks, Reject(kind, socks) PROVE result' = result
  BY <1>1 DEF Reject
<1>2. ASSUME NEW socks, NEW n, NextAddress(socks, n) PROVE result' = result
  BY <1>1, <1>2 DEF NextAddress
<1>3. ~Connect
  BY DEF Inv, Routed, Connect
<1>4. CASE SocketConnects \/ ProxyConnects
  BY <1>4 DEF SocketConnects, ProxyConnects, Resolve
<1>5. CASE SocketFails \/ Resolved \/ NotResolved \/ Timeout
  BY <1>1, <1>2, <1>5 DEF SocketFails, Resolved, NotResolved, Timeout
<1>6. ASSUME NEW kind, ProxyFails(kind) PROVE result' = result
  <2>1. CASE attempt > 0
    BY <1>2, <1>6, <2>1 DEF ProxyFails
  <2>2. CASE ~(attempt > 0) /\ attempt = 0 /\ kind = "refused"
    BY <1>6, <2>2 DEF ProxyFails
  <2>3. CASE ~(attempt > 0) /\ ~(attempt = 0 /\ kind = "refused")
    BY <1>1, <1>6, <2>3 DEF ProxyFails
  <2> QED BY <2>1, <2>2, <2>3
<1>7. CASE (\E i \in Attempt : SocketCloses(i)) \/ UNCHANGED vars
  BY <1>7 DEF SocketCloses, vars
<1> QED BY <1>3, <1>4, <1>5, <1>6, <1>7 DEF Next

\* To createTunnel a call of connectTcp is a promise: it settles once, and a
\* late answer of the proxy or of the DNS server changes nothing of it.
THEOREM ImplementsPromise == Spec => Abstract!Safety
<1>1. Init => Abstract!Init
  BY DEF Init, promise, Abstract!Init
<1>2. ASSUME Inv, [Next]_vars PROVE [Abstract!Next]_promise
  <2>1. result \in {"pending", "connected"} \cup Failure
    BY <1>2 DEF Inv, TypeOK
  <2>2. CASE result' = result
    BY <2>2 DEF promise
  <2>3. CASE result = "pending"
    BY <2>3 DEF promise, Abstract!Next, Abstract!Resolve, Abstract!Reject
  <2> QED BY <1>2, <2>2, <2>3, SettledStays
<1>3. Inv /\ [Next]_vars => [Abstract!Next]_promise
  BY <1>2
<1> QED BY <1>1, <1>3, Invariance, PTL DEF Spec, Abstract!Safety

-----------------------------------------------------------------------------
(* KeepAlive.                                                               *)

USE IntervalAssumption

-----------------------------------------------------------------------------
(* The types.                                                               *)

LEMMA FrameTypes ==
  ASSUME KeepAliveTypeOK, Frame
  PROVE  /\ sendTimeout' \in 0 .. PingInterval \cup {Off}
         /\ killTimeout' \in 0 .. MaxNoData \cup {Off}
         /\ heard' \in BOOLEAN
         /\ silence' \in Silence
<1>1. CASE attached
  BY <1>1 DEF KeepAliveTypeOK, Frame, resetTimer, Silence
<1>2. CASE ~attached
  BY <1>2 DEF KeepAliveTypeOK, Frame, timers, Silence
<1> QED BY <1>1, <1>2 DEF KeepAliveTypeOK

LEMMA KeepAliveInitTypes == KeepAliveInit => KeepAliveTypeOK
<1> SUFFICES ASSUME KeepAliveInit PROVE KeepAliveTypeOK
  OBVIOUS
<1>1. attached \in BOOLEAN /\ alive \in BOOLEAN /\ heard \in BOOLEAN
  BY DEF KeepAliveInit
<1>2. silence \in Silence
  BY DEF KeepAliveInit, Silence
<1>3. /\ sendTimeout \in 0 .. PingInterval \cup {Off}
      /\ killTimeout \in 0 .. MaxNoData \cup {Off}
  BY DEF KeepAliveInit
<1>4. ws \in {"open", "closing", "closed"} /\ pongs \in SUBSET (0 .. RoundTrip)
  BY DEF KeepAliveInit
<1> QED BY <1>1, <1>2, <1>3, <1>4 DEF KeepAliveTypeOK

\* Every reachable state of the keep-alive is well typed.
THEOREM KeepAliveTypeCorrect == KeepAliveSpec => []KeepAliveTypeOK
<1>1. KeepAliveInit => KeepAliveTypeOK
  BY KeepAliveInitTypes
<1>2. KeepAliveTypeOK /\ [KeepAliveNext]_keepAliveVars => KeepAliveTypeOK'
  <2> SUFFICES ASSUME KeepAliveTypeOK, [KeepAliveNext]_keepAliveVars PROVE KeepAliveTypeOK'
    OBVIOUS
  <2>1. CASE addKeepAlive
    BY <2>1 DEF KeepAliveTypeOK, addKeepAlive, timers
  <2>2. CASE Message
    BY <2>2, FrameTypes DEF KeepAliveTypeOK, Message
  <2>3. CASE Pong
    BY <2>3, FrameTypes DEF KeepAliveTypeOK, Pong
  <2>4. CASE Ping
    BY <2>4 DEF KeepAliveTypeOK, Ping
  <2>5. CASE Kill
    BY <2>5 DEF KeepAliveTypeOK, Kill
  <2>6. CASE Die
    BY <2>6 DEF KeepAliveTypeOK, Die, timers
  <2>7. CASE Close
    BY <2>7 DEF KeepAliveTypeOK, Close, cleanup, timers
  <2>8. CASE Tick
    <3>1. sendTimeout' \in 0 .. PingInterval \cup {Off}
      BY <2>8 DEF KeepAliveTypeOK, Tick, Left
    <3>2. killTimeout' \in 0 .. MaxNoData \cup {Off}
      BY <2>8 DEF KeepAliveTypeOK, Tick, Left
    <3>3. pongs' \in SUBSET (0 .. RoundTrip)
      BY <2>8 DEF KeepAliveTypeOK, Tick
    <3>4. silence' \in Silence
      BY <2>8 DEF KeepAliveTypeOK, Tick, Silence
    <3> QED BY <2>8, <3>1, <3>2, <3>3, <3>4 DEF KeepAliveTypeOK, Tick
  <2>9. CASE UNCHANGED keepAliveVars
    BY <2>9 DEF KeepAliveTypeOK, keepAliveVars, timers
  <2> QED BY <2>1, <2>2, <2>3, <2>4, <2>5, <2>6, <2>7, <2>8, <2>9 DEF KeepAliveNext
<1> QED BY <1>1, <1>2, PTL DEF KeepAliveSpec

-----------------------------------------------------------------------------
(* What the timers say.                                                     *)

\* The kill timer counts what is left of the silence that is allowed.
Measured == killTimeout # Off => silence + killTimeout = MaxNoData

\* An open session that was heard has a kill timer.
Armed == ws = "open" /\ heard => killTimeout # Off

\* Before the kill timer of a living client fires, a pong comes, or a ping is
\* sent that is answered in time.
Answered ==
  alive /\ ws = "open" /\ killTimeout # Off =>
    \/ \E t \in pongs : t < killTimeout
    \/ sendTimeout # Off /\ sendTimeout + RoundTrip < killTimeout

\* Only the listeners start timers, and the end of the session clears them.
Idle ==
  /\ ~attached => ~heard /\ sendTimeout = Off /\ killTimeout = Off
  /\ ws = "closed" => pongs = {} /\ sendTimeout = Off /\ killTimeout = Off

KeepAliveInv == KeepAliveTypeOK /\ Measured /\ Armed /\ Answered /\ Idle

\* A frame starts everything anew.
LEMMA FrameKeepsInv ==
  ASSUME KeepAliveInv, Frame, ws # "closed", UNCHANGED <<ws, attached>>
  PROVE  Measured' /\ Armed' /\ Answered' /\ Idle'
<1>1. CASE attached
  BY <1>1 DEF KeepAliveInv, KeepAliveTypeOK, Frame, resetTimer, Measured, Armed, Answered, Idle
<1>2. CASE ~attached
  BY <1>2 DEF KeepAliveInv, KeepAliveTypeOK, Frame, timers, Measured, Armed, Answered, Idle
<1> QED BY <1>1, <1>2

LEMMA KeepAliveInvariance == KeepAliveSpec => []KeepAliveInv
<1>1. KeepAliveInit => KeepAliveInv
  BY KeepAliveInitTypes DEF KeepAliveInit, KeepAliveInv, Measured, Armed, Answered, Idle
<1>2. KeepAliveInv /\ KeepAliveTypeOK' /\ [KeepAliveNext]_keepAliveVars => KeepAliveInv'
  <2> SUFFICES ASSUME KeepAliveInv, KeepAliveTypeOK', [KeepAliveNext]_keepAliveVars
               PROVE  Measured' /\ Armed' /\ Answered' /\ Idle'
    BY DEF KeepAliveInv
  <2> USE DEF KeepAliveInv, KeepAliveTypeOK
  <2>1. CASE addKeepAlive
    BY <2>1 DEF addKeepAlive, timers, Measured, Armed, Answered, Idle
  <2>2. CASE Message
    BY <2>2, FrameKeepsInv DEF Message
  <2>3. CASE Pong
    BY <2>3, FrameKeepsInv DEF Pong
  <2>4. CASE Ping
    <3>1. Answered'
      BY <2>4 DEF Ping, Answered
    <3> QED BY <2>4, <3>1 DEF Ping, Measured, Armed, Idle
  <2>5. CASE Kill
    BY <2>5 DEF Kill, Measured, Armed, Answered, Idle
  <2>6. CASE Die
    BY <2>6 DEF Die, timers, Measured, Armed, Answered, Idle
  <2>7. CASE Close
    BY <2>7 DEF Close, cleanup, timers, Measured, Armed, Answered, Idle
  <2>8. CASE Tick
    <3>1. Measured'
      BY <2>8 DEF Tick, Left, Measured
    <3>2. Armed' /\ Idle'
      BY <2>8 DEF Tick, Left, Armed, Idle
    <3>3. Answered'
      <4> SUFFICES ASSUME alive, ws = "open", killTimeout # Off PROVE Answered'
        BY <2>8 DEF Tick, Left, Answered
      <4>1. killTimeout' = killTimeout - 1
        BY <2>8 DEF Tick, Left
      <4>2. CASE \E t \in pongs : t < killTimeout
        <5>1. PICK t \in pongs : t < killTimeout
          BY <4>2
        <5>2. t - 1 \in pongs' /\ t - 1 < killTimeout'
          BY <5>1, <4>1, <2>8 DEF Tick
        <5> QED BY <5>2 DEF Answered
      <4>3. CASE sendTimeout # Off /\ sendTimeout + RoundTrip < killTimeout
        BY <4>1, <4>3, <2>8 DEF Tick, Left, Answered
      <4> QED BY <4>2, <4>3 DEF Answered
    <3> QED BY <3>1, <3>2, <3>3
  <2>9. CASE UNCHANGED keepAliveVars
    BY <2>9 DEF keepAliveVars, timers, Measured, Armed, Answered, Idle
  <2> QED BY <2>1, <2>2, <2>3, <2>4, <2>5, <2>6, <2>7, <2>8, <2>9 DEF KeepAliveNext
<1> QED BY <1>1, <1>2, KeepAliveTypeCorrect, PTL DEF KeepAliveSpec

-----------------------------------------------------------------------------
\* A client that was heard once is silent for at most MaxNoData while its
\* session is open: it is then that the kill timer of addKeepAlive fires.
THEOREM HeardClientIsDropped == KeepAliveSpec => []HeardClientIsNotSilentForLong
<1>1. KeepAliveInv => HeardClientIsNotSilentForLong
  BY DEF KeepAliveInv, KeepAliveTypeOK, Silence, Measured, Armed, HeardClientIsNotSilentForLong
<1> QED BY <1>1, KeepAliveInvariance, PTL

\* The keep-alive never closes the session of a client that answers pings in
\* time, for every interval with room for a ping and its answer.
THEOREM ResponsiveClientIsNotKilled == KeepAliveSpec => ResponsiveClientIsKept
<1>1. KeepAliveInv /\ [KeepAliveNext]_keepAliveVars => [ws = "open" /\ ws' = "closing" => ~alive]_keepAliveVars
  <2> SUFFICES ASSUME KeepAliveInv, KeepAliveNext, ws = "open", ws' = "closing" PROVE ~alive
    BY DEF keepAliveVars, timers
  <2>1. Kill
    BY DEF KeepAliveNext, addKeepAlive, Message, Pong, Ping, Die, Close, Tick
  <2> QED BY <2>1 DEF Kill, KeepAliveInv, KeepAliveTypeOK, Answered
<1> QED BY <1>1, KeepAliveInvariance, PTL DEF KeepAliveSpec, ResponsiveClientIsKept

\* Once the session is closed no timer runs and no pong is under way.
THEOREM ClosedSessionStaysQuiet == KeepAliveSpec => ClosedSessionIsQuiet
<1>1. KeepAliveInv /\ [KeepAliveNext]_keepAliveVars => [ws = "closed" => UNCHANGED <<timers, pongs>>]_keepAliveVars
  <2> SUFFICES ASSUME KeepAliveInv, KeepAliveNext, ws = "closed" PROVE UNCHANGED <<timers, pongs>>
    BY DEF keepAliveVars, timers
  <2> USE DEF KeepAliveInv, KeepAliveTypeOK, Idle, timers
  <2>1. CASE addKeepAlive
    BY <2>1 DEF addKeepAlive
  <2>2. CASE Message \/ Pong \/ Close
    BY <2>2 DEF Message, Pong, Close
  <2>3. CASE Ping \/ Kill
    BY <2>3 DEF Ping, Kill
  <2>4. CASE Die
    BY <2>4 DEF Die
  <2>5. CASE Tick
    BY <2>5 DEF Tick, Left
  <2> QED BY <2>1, <2>2, <2>3, <2>4, <2>5 DEF KeepAliveNext
<1> QED BY <1>1, KeepAliveInvariance, PTL DEF KeepAliveSpec, ClosedSessionIsQuiet
=============================================================================
