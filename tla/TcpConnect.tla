---------------------------- MODULE TcpConnect ----------------------------
(***************************************************************************)
(* One call of connectTcp (server/tunnels/make-tcp-tunnel.js): a direct    *)
(* connection or one through the proxy of a country, the second attempt by *)
(* address when the proxy refuses the host name, and the timer that may    *)
(* fire before, between and after all of them.                             *)
(*                                                                         *)
(* Attempt 0 uses the host name, attempt n the n-th address of the host.   *)
(***************************************************************************)
EXTENDS Integers

CONSTANTS
  MaxAddrs,   \* addresses a host may have
  None        \* no socket

ASSUME ConnectAssumption == MaxAddrs \in Nat /\ None \notin 0 .. MaxAddrs

VARIABLES
  opts,       \* the geoLocation asked for, and whether HTTPS_PROXY_URL is set
  getting,    \* what getSocket waits for
  attempt,    \* the attempt it waits for
  addrs,      \* the number of addresses resolved
  sock,       \* the net.Socket of every attempt; "ending" is one that end()
              \* was called of before it connected
  socket,     \* the one connectTcp holds
  timer,      \* connectTimeout
  result      \* of the promise that connectTcp awaits

vars == <<opts, getting, attempt, addrs, sock, socket, timer, result>>

Attempt == 0 .. MaxAddrs

Failure == {"badRequest", "refused", "proxyError", "proxyDown", "dnsError",
            "socketError", "timedOut"}

Live == {"asking", "connecting", "open"}

\* _getSocket: a location counts only if there is a proxy.
Route == CASE opts.geo = "none" \/ ~opts.proxyUrl -> "direct"
           [] opts.geo = "invalid" -> "invalid"
           [] OTHER -> "proxy"

\* Mutant: the socket is not ended.
RejectOnly(kind, socks) ==
  /\ sock' = socks
  /\ IF result = "pending" THEN result' = kind /\ timer' = "off"
                           ELSE UNCHANGED <<result, timer>>

\* end() of a socket: one that still connects goes on, and ends when it has.
Ending(state) == CASE state = "connecting" -> "ending"
                   [] state = "closed" -> "closed"
                   [] OTHER -> "ended"

\* The promise is rejected.  If that settles it, connectTcp ends the socket it
\* holds and clears the timer before anything else can happen.
Reject(kind, socks) ==
  IF result = "pending"
  THEN /\ result' = kind
       /\ timer' = "off"
       /\ sock' = [i \in Attempt |-> IF i = socket THEN Ending(socks[i])
                                                   ELSE socks[i]]
  ELSE sock' = socks /\ UNCHANGED <<result, timer>>

\* The 'connect' event of the socket that connectTcp holds or will hold.
Resolve ==
  IF result = "pending" THEN result' = "connected" /\ timer' = "off"
                        ELSE UNCHANGED <<result, timer>>

Init ==
  /\ opts \in [geo : {"none", "valid", "invalid"}, proxyUrl : BOOLEAN]
  /\ getting = "idle"
  /\ attempt = 0
  /\ addrs = 0
  /\ sock = [i \in Attempt |-> "none"]
  /\ socket = None
  /\ timer = "off"
  /\ result = "pending"

\* connectTcp up to its first await.
Connect ==
  /\ getting = "idle"
  /\ CASE Route = "direct" ->
            /\ getting' = "settled"
            /\ sock' = [sock EXCEPT ![0] = "connecting"]
            /\ socket' = 0
            /\ timer' = "armed"
            /\ UNCHANGED result
       [] Route = "proxy" ->
            /\ getting' = "proxy"
            /\ sock' = [sock EXCEPT ![0] = "asking"]
            /\ timer' = "armed"
            /\ UNCHANGED <<socket, result>>
       [] Route = "invalid" ->
            /\ getting' = "settled"
            /\ Reject("badRequest", sock)
            /\ UNCHANGED socket
  /\ UNCHANGED <<opts, attempt, addrs>>

\* The direct connection is made, in time or after the timer fired.
SocketConnects ==
  /\ sock[0] \in {"connecting", "ending"}
  /\ sock' = [sock EXCEPT ![0] = IF @ = "ending" THEN "ended" ELSE "open"]
  /\ Resolve
  /\ UNCHANGED <<opts, getting, attempt, addrs, socket>>

\* It is not.
SocketFails ==
  /\ sock[0] \in {"connecting", "ending"}
  /\ Reject("socketError", [sock EXCEPT ![0] = "closed"])
  /\ UNCHANGED <<opts, getting, attempt, addrs, socket>>

\* The proxy connected attempt.  getSocket returns the socket whatever became
\* of the promise, connectTcp listens to it, and then it emits 'connect'.
ProxyConnects ==
  /\ getting = "proxy"
  /\ getting' = "settled"
  /\ sock' = [sock EXCEPT ![attempt] = "open"]
  /\ socket' = attempt
  /\ Resolve
  /\ UNCHANGED <<opts, attempt, addrs>>

\* Mutant: one address only.
FirstAddress(socks, n) ==
  IF attempt = 0 /\ n > 0
  THEN /\ attempt' = 1
       /\ getting' = "proxy"
       /\ sock' = [socks EXCEPT ![1] = "asking"]
       /\ UNCHANGED <<timer, result>>
  ELSE getting' = "settled" /\ Reject("refused", socks) /\ UNCHANGED attempt

\* The loop of getSocket over the n addresses; after the last one the refusal
\* of the host name is thrown.
NextAddress(socks, n) ==
  IF attempt < n
  THEN /\ attempt' = attempt + 1
       /\ getting' = "proxy"
       /\ sock' = [socks EXCEPT ![attempt + 1] = "asking"]
       /\ UNCHANGED <<timer, result>>
  ELSE getting' = "settled" /\ Reject("refused", socks) /\ UNCHANGED attempt

\* An attempt fails: the proxy is down, or answers with another status.  Only
\* a refused host name is tried again.
ProxyFails(kind) ==
  /\ getting = "proxy"
  /\ LET socks == [sock EXCEPT ![attempt] = "closed"]
     IN  CASE attempt > 0 -> NextAddress(socks, addrs)
           [] attempt = 0 /\ kind = "refused" ->
                /\ getting' = "dns"
                /\ sock' = socks
                /\ UNCHANGED <<attempt, timer, result>>
           [] OTHER ->
                /\ getting' = "settled"
                /\ Reject(kind, socks)
                /\ UNCHANGED attempt
  /\ UNCHANGED <<opts, addrs, socket>>

\* resolveHostnames gives the addresses of the host.
Resolved ==
  /\ getting = "dns"
  /\ addrs' \in Attempt
  /\ NextAddress(sock, addrs')
  /\ UNCHANGED <<opts, socket>>

NotResolved ==
  /\ getting = "dns"
  /\ getting' = "settled"
  /\ Reject("dnsError", sock)
  /\ UNCHANGED <<opts, attempt, addrs, socket>>

\* Mutant: the timer is only looked at while a socket is there.
TimeoutOfSocket ==
  /\ timer = "armed"
  /\ socket # None
  /\ Reject("timedOut", sock)
  /\ UNCHANGED <<opts, getting, attempt, addrs, socket>>

\* CONNECTION_TIMEOUT_MS have passed.
Timeout ==
  /\ timer = "armed"
  /\ Reject("timedOut", sock)
  /\ UNCHANGED <<opts, getting, attempt, addrs, socket>>

\* After connectTcp is over, a socket ends or fails.
SocketCloses(i) ==
  /\ result # "pending"
  /\ sock[i] \in {"open", "ended"}
  /\ sock' = [sock EXCEPT ![i] = "closed"]
  /\ UNCHANGED <<opts, getting, attempt, addrs, socket, timer, result>>

Next ==
  \/ Connect \/ SocketConnects \/ SocketFails \/ ProxyConnects
  \/ \E kind \in {"refused", "proxyError", "proxyDown"} : ProxyFails(kind)
  \/ Resolved \/ NotResolved \/ Timeout
  \/ \E i \in Attempt : SocketCloses(i)

Spec == Init /\ [][Next]_vars

\* connectTcp runs when it is called and the event loop runs the timers that
\* are due; nothing is assumed of the network.
FairSpec == Spec /\ WF_vars(Connect) /\ WF_vars(Timeout)

-----------------------------------------------------------------------------
TypeOK ==
  /\ opts \in [geo : {"none", "valid", "invalid"}, proxyUrl : BOOLEAN]
  /\ getting \in {"idle", "proxy", "dns", "settled"}
  /\ attempt \in Attempt
  /\ addrs \in Attempt
  /\ sock \in [Attempt -> {"none", "ending", "ended", "closed"} \cup Live]
  /\ socket \in Attempt \cup {None}
  /\ timer \in {"off", "armed"}
  /\ result \in {"pending", "connected"} \cup Failure

\* A call that failed has ended every socket it made, or end() is pending until
\* the socket connects; whatever failed, and when.  What can be lost is one
\* socket: the one that getSocket is at when the timer fires, which the proxy
\* may still connect.
FailureLeavesLateSocketOnly ==
  result \in Failure =>
    \A i \in Attempt : sock[i] \in Live =>
      result = "timedOut" /\ Route = "proxy" /\ i = attempt

\* Whatever the timer overtook, at most one socket is alive: an address is
\* tried when the attempt before it is over.
OneSocketAtATime ==
  \A i, j \in Attempt : sock[i] \in Live /\ sock[j] \in Live => i = j

\* The refusal of a host name is reported only when every address that it
\* resolves to was tried through the proxy and failed.
RefusedMeansAllTried ==
  result = "refused" => \A i \in 0 .. addrs : sock[i] = "closed"

\* What connectTcp returns is an open socket, the one it holds.
HandsOverOpenSocket ==
  [][result # "connected" /\ result' = "connected"
       => socket' # None /\ sock'[socket'] = "open"]_vars

\* To createTunnel a call of connectTcp is a promise that settles, once, whether
\* or not the proxy, the DNS server or the host ever answer.
promise == CASE result = "pending" -> "pending"
             [] result = "connected" -> "resolved"
             [] OTHER -> "rejected"

Abstract == INSTANCE Promise

ConnectTcpSettles == Abstract!Spec

(* What the repository says of this code and the code does not do.          *)

\* make-tcp-tunnel.js:71: the timeout ensures that the connection does not hang.
TimeoutLeavesNothing ==
  result = "timedOut" => \A i \in Attempt : sock[i] # "open"
=============================================================================
