----------------------------- MODULE KeepAlive -----------------------------
(***************************************************************************)
(* The keep-alive of a session (server/utils/keep-alive.js, attached by    *)
(* handleNewClient of server/create-server.js) against a client that       *)
(* answers pings within RoundTrip, until it dies.                          *)
(*                                                                         *)
(* Time is counted in ticks.  A timer that is due, and a pong whose time   *)
(* has come, go before the next tick.                                      *)
(***************************************************************************)
EXTENDS Integers, FiniteSets

CONSTANTS
  PingInterval,  \* PING_INTERVAL_MS
  MaxNoData,     \* MAX_NO_DATA_INTERVAL_MS
  RoundTrip,     \* the longest time to the answer of a ping
  Off            \* no timer

ASSUME IntervalAssumption ==
  /\ PingInterval \in Nat \ {0}
  /\ MaxNoData \in Nat
  /\ RoundTrip \in Nat
  /\ PingInterval + RoundTrip < MaxNoData
  /\ Off \notin Nat

VARIABLES
  ws,           \* readyState of the WebSocket
  attached,     \* addKeepAlive was called
  sendTimeout,  \* ticks left to the next ping, or Off
  killTimeout,  \* ticks left until the connection is closed, or Off
  alive,        \* the client is there
  pongs,        \* ticks left to the answers under way
  heard,        \* a frame came after addKeepAlive
  silence       \* ticks since the last frame

keepAliveVars == <<ws, attached, sendTimeout, killTimeout, alive, pongs, heard, silence>>

timers == <<sendTimeout, killTimeout>>

Silence == 0 .. MaxNoData + 1

cleanup == sendTimeout' = Off /\ killTimeout' = Off

\* Mutant: the ping is not scheduled.
resetKill == killTimeout' = MaxNoData /\ UNCHANGED sendTimeout

resetTimer == sendTimeout' = PingInterval /\ killTimeout' = MaxNoData

KeepAliveInit ==
  /\ ws = "open"
  /\ attached = FALSE
  /\ sendTimeout = Off
  /\ killTimeout = Off
  /\ alive = TRUE
  /\ pongs = {}
  /\ heard = FALSE
  /\ silence = 0

\* acceptConnection returned, and the listeners are added.
addKeepAlive ==
  /\ ~attached
  /\ attached' = TRUE
  /\ UNCHANGED <<ws, timers, alive, pongs, heard, silence>>

\* A frame comes, and the 'message' or 'pong' listener runs if it is there.
Frame ==
  /\ silence' = 0
  /\ IF attached THEN resetTimer /\ heard' = TRUE
                 ELSE UNCHANGED <<timers, heard>>

Message ==
  /\ alive
  /\ ws # "closed"
  /\ Frame
  /\ UNCHANGED <<ws, attached, alive, pongs>>

Pong ==
  /\ ws # "closed"
  /\ \E t \in pongs : pongs' = pongs \ {t}
  /\ Frame
  /\ UNCHANGED <<ws, attached, alive>>

\* Mutant: a ping counts as traffic.
PingAndReset ==
  /\ sendTimeout = 0
  /\ resetTimer
  /\ pongs' = IF alive /\ ws = "open" THEN pongs \cup {RoundTrip} ELSE pongs
  /\ UNCHANGED <<ws, attached, alive, heard, silence>>

\* sendTimeout is due.  A ping on a socket that is closing is dropped.
Ping ==
  /\ sendTimeout = 0
  /\ sendTimeout' = PingInterval
  /\ pongs' = IF alive /\ ws = "open" THEN pongs \cup {RoundTrip} ELSE pongs
  /\ UNCHANGED <<ws, attached, killTimeout, alive, heard, silence>>

\* killTimeout is due.
Kill ==
  /\ killTimeout = 0
  /\ killTimeout' = Off
  /\ ws' = IF ws = "open" THEN "closing" ELSE ws
  /\ UNCHANGED <<attached, sendTimeout, alive, pongs, heard, silence>>

\* The client is gone and nothing more comes from it.
Die ==
  /\ alive
  /\ alive' = FALSE
  /\ pongs' = {}
  /\ UNCHANGED <<ws, attached, timers, heard, silence>>

\* The 'close' event, or an error that ends the socket.
Close ==
  /\ ws # "closed"
  /\ ws' = "closed"
  /\ pongs' = {}
  /\ IF attached THEN cleanup ELSE UNCHANGED timers
  /\ UNCHANGED <<attached, alive, heard, silence>>

Left(timer) == IF timer = Off THEN Off ELSE timer - 1

Tick ==
  /\ sendTimeout # 0 /\ killTimeout # 0 /\ 0 \notin pongs
  /\ sendTimeout' = Left(sendTimeout)
  /\ killTimeout' = Left(killTimeout)
  /\ pongs' = {t - 1 : t \in pongs}
  /\ silence' = IF silence \in 0 .. MaxNoData THEN silence + 1 ELSE silence
  /\ UNCHANGED <<ws, attached, alive, heard>>

KeepAliveNext == addKeepAlive \/ Message \/ Pong \/ Ping \/ Kill \/ Die \/ Close \/ Tick

KeepAliveSpec == KeepAliveInit /\ [][KeepAliveNext]_keepAliveVars

-----------------------------------------------------------------------------
KeepAliveTypeOK ==
  /\ ws \in {"open", "closing", "closed"}
  /\ attached \in BOOLEAN
  /\ sendTimeout \in 0 .. PingInterval \cup {Off}
  /\ killTimeout \in 0 .. MaxNoData \cup {Off}
  /\ alive \in BOOLEAN
  /\ pongs \in SUBSET (0 .. RoundTrip)
  /\ heard \in BOOLEAN
  /\ silence \in Silence

\* A client that answers its pings is never closed for want of data, however
\* its messages, its pongs and the two timers fall together.
ResponsiveClientIsKept == [][ws = "open" /\ ws' = "closing" => ~alive]_keepAliveVars

\* A client that was heard once is silent for at most MAX_NO_DATA_INTERVAL_MS
\* while its session is open: the pings that are sent do not count as data.
HeardClientIsNotSilentForLong ==
  ws = "open" /\ heard => silence <= MaxNoData

\* No timer of a session that is closed fires any more.
ClosedSessionIsQuiet ==
  [][ws = "closed" => UNCHANGED <<timers, pongs>>]_keepAliveVars

(* What the repository says of this code and the code does not do.          *)

\* config/index.js:37: after MAX_NO_DATA_INTERVAL_MS without data the connection
\* is taken to be dead.
SilentClientIsDropped == ws = "open" => silence <= MaxNoData
=============================================================================
