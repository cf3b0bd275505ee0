# Witness SDK: specifications

The repository is the compiled JavaScript of the Reclaim witness SDK
(`src/lib`). A *client* (a browser, a phone or a Node.js process) asks a
*witness* for a signed claim about an HTTPS response. It opens a WebSocket
session to the witness and, through it, a TCP *tunnel* to the host; it speaks
TLS with the host through the tunnel; it reveals some bytes of the exchange to
the witness, directly or with zero-knowledge proofs; and the witness compares
what it is shown with what went through its tunnel and signs the claim.

This directory holds TLA+ models of that system, the TLC configurations that
check them, and TLAPS proofs. `PROJECT.json` lists the runs, which lines each
definition models, the hazards, and a mutant for every checked property: a
definition changed the way a bug would change it, under which the run fails.

## Inventory

| Part | Source (`src/lib`) | State | Operations |
|---|---|---|---|
| Server session | `server/socket.js`, `client/message-handler.js`, `client/socket.js` | WebSocket, `isInitialised`, `tunnels`, promises of packets | packets of RPC messages, initial messages in the query, alerts, termination |
| RPC handlers | `server/handlers/*` | none of their own | `init`, `createTunnel`, `disconnectTunnel`, `claimTunnel` |
| TCP tunnel | `server/tunnels/make-tcp-tunnel.js` L24-62 | socket, transcript, `onClose` | `write`, `close`, events `data`, `end`, `error` |
| Connecting | `make-tcp-tunnel.js` L64-178 | socket held, timer, attempt | direct or by the proxy of a country, fallback by address |
| Keep-alive | `server/utils/keep-alive.js`, `server/create-server.js` | two timers | ping, reset, kill, cleanup |
| Client connection and pool | `client/index.js`, `create-claim/witness-pool.js` | WebSocket, `waitForInitPromise`, `POOL` | `rpc`, `waitForResponse`, reuse of a client |
| Client tunnels | `tunnels/*` | open or closed, TLS session, transcript | create with the first TLS packet, handshake, write, close |
| Claim creation | `create-claim/create-claim-on-witness.js`, `utils/retries.js` | progress of an attempt, `revealMap` | the whole flow, its retries |
| Redaction of responses | `utils/redactions.js` | two cursors | `getBlocksToReveal`, `redactSlices` |
| Reveal and ZK proofs | `utils/prepare-packets.js`, `utils/zk.js` | queue of proofs, progress | export keys, cut chunks, prove, verify |
| Claim verification | `server/utils/assert-valid-claim-request.js`, `server/handlers/claimTunnel.js`, `utils/claims.js` | none | compare transcripts, decrypt, check, sign |
| HTTP parser | `utils/http-parser.js` | rest, indices, body | `onChunk`, `streamEnded`, reading a request |
| HTTP provider | `providers/http/*` | none | build the request, find the redactions, check the receipt |
| Redaction of the request | `create-claim/create-claim-on-witness.js` L168-331 | key in use, marks of packets | update the keys, write a section, mark its packet |
| Choice of witnesses, beacons | `utils/beacon.js`, `beacon/*` | caches of promises | `fetchWitnessListForClaim`, `getState`, `getBeacon` |
| Window RPC | `window-rpc/*` | listeners by request id | requests from a page, ZK proofs by the native application |
| Everything else | logging, metrics, configuration, generated code, scripts, `node_modules` | | not modelled |

How they interact. All calls between client and witness are protobuf messages in
WebSocket frames (*packets*); the first messages travel in the query string of
the connection request. Inside a process the parts share state through closures
and events: `connection-terminated` closes the tunnels of the session and
rejects every response that is waited for; `tunnel-message` and
`tunnel-disconnect-event` feed the RPC tunnels. A process has one thread. What
interleaves are the stretches of code between two awaits.

What is hard, and the property each part is correct by:

* *Session*: packets of one session interleave at every await, with sockets that
  end at any moment. Each request must be answered once, a failure must end its
  packet, nothing may be done for a client before `init`, the client must be
  told once that a tunnel ended, the transcript must be what the client saw, and
  a signed claim must agree with it.
* *Connecting*: a timer races a chain of attempts. A failure must leave nothing
  open that can be closed; the call must settle.
* *Keep-alive*: two timers that reset each other. A live client must be kept, a
  dead one dropped, and nothing may fire after the end.
* *Claim creation*: five awaited steps, each of which may fail because of its
  own tunnel or because of the session that it shares with other calls. The call
  must settle, and a claim must follow only a whole response on a closed tunnel.
* *Redaction and proofs*: bytes are counted in the response, in its blocks and
  in chunks, and the proofs are made in any order. What the witness sees must be
  exactly what was not redacted.
* *HTTP parser and redaction of the response*: a response is cut anywhere, within a
  line end, a size or a chunk. What is known of it must not depend on the cuts, it
  must be over when its last byte is there and not before, and what the witness
  sees of it is what the rules select, in whatever chunks that came.
* *Request*: templates are replaced one after the other, each moving the next; the
  sections between secrets are written under keys of their own, and a write may stop
  anywhere. A key that is given away must never protect a secret, and the witness
  must accept what an honest client has checked itself.
* *Beacons*: callers share promises, states and lists while the contract moves on or
  fails. Whoever asks must be given the same witnesses for the same claim.
* *Window RPC*: a claim waits for connections and for proofs that another program
  makes, and is retried while earlier proofs are still asked for and answered. A page
  must be answered once, and the proofs of one attempt must not end in another one.

## Modules

| Module | Models | Checked by | Proved in |
|---|---|---|---|
| `ServerSession` | one session of the witness: packets, handlers, tunnels | `session_*` | `ServerSession_proofs` |
| `TcpConnect` | one call of `connectTcp` | `connect` | `Connection_proofs` |
| `KeepAlive` | the keep-alive of one session | `keepalive` | `Connection_proofs` |
| `ClaimFlow` | concurrent calls of `createClaimOnWitness`, pool, client connections | `claims`, `window` | `ClaimFlow_proofs` |
| `WindowRpc` | the RPC of a page, composed with `ClaimFlow` | `window` | `ClaimFlow_proofs` |
| `HttpParser` | the response parser, as operators | `response` | `HttpResponse_proofs` |
| `HttpResponse` | a response that arrives in pieces, and its redaction | `response` | `HttpResponse_proofs` |
| `HttpRequest` | the request, its secrets, and how it is read, as operators | `request*` | |
| `RequestReveal` | from the request to the claim: keys, packets, marks, the witness | `request*` | `RequestReveal_proofs` |
| `BlocksToReveal` | `getBlocksToReveal`, byte by byte | `blocks` | `BlocksToReveal_proofs` |
| `ZkReveal` | keys, chunks and proofs of the client, verification by the witness | `zk` | `ZkReveal_proofs` |
| `Beacon` | caches of beacons, the choice of witnesses | `beacon` | `Beacon_proofs` |
| `Promise` | abstract: a promise that settles once | `connect`, `zk` | with each implementation |
| `ResponseReader` | abstract: a body that is read in order and whole | `response` | |
| `MC*` | values of the constants for TLC | | |

`Promise` is the abstract specification of an asynchronous call: pending, then
resolved or rejected, for good, and under fairness not pending for ever.
`TcpConnect` and `ZkReveal` define the expression `promise` from their own state and
are checked to implement it: `ConnectTcpSettles`, `TranscriptSettles`. A call of
`createClaimOnWitness` and the request of a page settle at most once too
(`CallsArePromises`, `RequestsArePromises`), but they may wait for ever; when they do
`RequestsAreAnswered` says. `ServerSession` takes the outcome of `connectTcp` as one step that succeeds or
fails at any later time, and `ClaimFlow` takes the preparation of the transcript
and the responses of the witness the same way: that is what these refinements
license. `ResponseReader` is what `ClaimFlow` takes the arrival of a response to
be: it is complete once, and only when all of it is there. `HttpResponse` is
checked and proved to implement it (`ReadsInOrder`).

### ServerSession

| Variable | Code |
|---|---|
| `ws` | `readyState` of the WebSocket; `broken` is open, with a connection on which no write succeeds |
| `isInitialised` | `client.isInitialised` |
| `packet`, `phase`, `pos` | the packets received, and for each the await of the loop in `wsMessageHandler` (or `acceptConnection`, packet 0) it is at |
| `replies` | what was sent in response to each request (a history) |
| `tunnels` | `client.tunnels` |
| `conn` | closure of each `makeTcpTunnel`: socket, `onClose`, transcript; and, as history, what was forwarded, written and told to the client |

A request is named `<<packet, index>>`, and so is the TCP connection that it
asks for. A handler is one action up to its first await and one after it:
`CreateTunnel` (the checks) then `TunnelConnected` or `TunnelRefused`;
`ClaimTunnel` (the comparison of the transcripts) then `ClaimVerified`.
`Respond` models `respond(res)`: it resolves or rejects the message's promise, which
decides whether the packet goes on, and then sends. If the write fails, the `catch`
calls `respond` again, whose reply is lost too: the promise is settled already.
`Quiet` says that
no promise job is left; sockets, timers and workers report only then, because
Node.js drains promise jobs before it returns to the event loop. `Written`,
`Received`, `Ended`, `Errored` and `Closed` are the closures of a tunnel as
functions from a connection to a connection. `Ended` sets `readableEnded`
before it calls `Closed`, because Node.js does.

### TcpConnect

`getting` is the await `getSocket` is at, `sock` the socket of each attempt
(0 for the host name, n for the n-th address), `socket` the one that the `catch`
of `connectTcp` would end, `timer` the connection timeout, `result` the outcome.
`Reject` does in one step what the code does before anything else can run: settle,
clear the timer, end the socket held. Node.js defers the `end()` of a socket that is
still connecting: it is `ending`, goes on connecting, and ends when it connects. The proxy, DNS and the host may answer at
any time or never.

### KeepAlive

Discrete time: `Tick` passes one unit, a timer that is due goes first. `pongs`
are the answers under way, `silence` the time since the last frame, `heard`
whether a frame came after `addKeepAlive`. The client may die at any moment. Its
specification is `KeepAliveSpec`: the module is read next to `TcpConnect` in
`Connection_proofs`, so its names say whose they are.

### ClaimFlow

`conn` are the WitnessClients, `pool` the pooled one, `given` says that the
application passes its own, and `call` is the current attempt of each call: the
await it is at (`pc`), what it knows of its tunnel and its TLS session, and
`allData`, the promise `waitForAllData`. A retry starts with a new tunnel id, so
nothing of the earlier attempt reaches the new one and only the current attempt
has a state. A failure of the proofs is a `ProofError`: that of fetching the circuit
or its keys is a network error, which is retried. `Terminated` is what the listeners of `connection-terminated` do to
an attempt, by the await it is at. Messages of the witness are nondeterministic:
each may be accepted, refused, or never come.

### WindowRpc

The module extends `ClaimFlow`: a message `createClaim` of a page is a call, and
the handler's `await` of `createClaimOnWitness` is that call until it is claimed or
failed. `req` is what each message says, `handler` where its `handleMessage` is,
`answers` what its sender receives. `Ignore`, `Unreadable`, `CreateClaim`,
`Immediate`, `Measure`, `UnknownType` are the branches of `handleMessage`;
`Measured` and `ClaimDone` what follows an await. In `zkOperatorMode` `rpc`, the
step from `proving` to `claiming` of `ClaimFlow` needs the proofs: `proofs` are the
tasks of its queue, each tagged with the attempt that started it; `Prove` sends a
request to the application and `ProofAnswered` is the listener that takes the
answer, whichever attempt it is for: when one proof fails the call goes on or starts
again at once (`proofRejected`, `Settle`), and the queue of the attempt before goes on
asking, and is answered, next to that of the current one. `Local` and `Remote` are the
steps of a call that the page's own process makes and those that it is sent.

A message without a channel and a source throws in the `catch` block too, so it
has no answer (`to = "nobody"`); an answer for a channel that is gone is dropped. An
unreadable text is answered with an error whoever sent it, an unknown type is not
answered at all, and an answer of a wrong type leaves a proof waiting for ever
(`lost`).

### HttpParser and HttpResponse

`HttpParser` is `makeHttpResponseParser` as functions of a record `p`, with the
names of the code: `onChunk`, `readBody`, `getLine`, `streamEnded`. A byte is a
string. A header line is its key and its value, one byte each, and a chunk size is
one digit, so that line ends, half line ends and sizes can be cut, and appear in
bodies, while the text of headers is left out. `take` is the pair of assignments
that consumes bytes, `currentByteIdx` and `remaining`. `headerTurn` and `chunkTurn`
are one turn of the two loops over lines; a turn takes a line or is the last one, so
as many turns as there are bytes are the whole loop. The digits are a constant: with
more of them, sizes are larger.

`HttpResponse` has a host send one of `Responses` with a content-length, in
chunks, or to the end of the stream. A stream is not plain (`hasPlainStream`) if its
body has a line: the parser takes such lines for headers when they come with the end of
the headers, and for the body when they come later. `Receive` gives the parser any number of the
bytes that are left, `Finish` is the end of the stream or the timer after a complete
response: what was received is parsed again as a whole, and
`getResponseRedactions` is applied with rules that select parts of the body.
`Message` remembers what each byte is part of and which byte of the body it is, and
that is what the properties compare with. `sorted` gives each slice its place in the
order of `toIndex`, as a stable sort does.

### HttpRequest and RequestReveal

`HttpRequest` holds the operators of the HTTP provider: `createRequest` with
`extractAndReplaceTemplateValues`, which returns the text and its `hiddenParts`;
`redactSlices`; `getHttpRequestDataFromTranscript`; `matchRedactedStrings`, as the
loop of its two cursors; and `assertValidProviderReceipt`. A body is
a sequence of parts (text, public or secret parameters), each with its bytes and with the
length of it as a string, which is what the code computes the positions with; beyond
ASCII a string is shorter than its bytes. The secret headers, a run of bytes of their
own, have such a length too. The request line with the public headers is one byte.

`RequestReveal` runs a claim on them. `Write` and `WriteUpdated` are
`writeWithReveal` before and after the await of the key update, `Mark` is
`setRevealOfLastSentBlock`, `WriteFails` the `catch` that logs and goes on, and
`AddReveals` is `addServerSideReveals` with the client's own check of the receipt.
`transcript` are the client's packets, each with the key that protects it and its
reveal. `Claim` is the witness: `view` is what `decryptTranscript` and
`extractApplicationDataFromTranscript` leave to it, and the claim carries the
parameters that it extracts and the identifier that it signs. The TLS library is
external: a write is one packet, an update of the keys one handshake packet under
the old key. How it splits a write longer than a record is not modelled.

### Beacon

`caller` is a call of `getBeacon`, `getState` and `fetchWitnessListForClaim` by one
claim: `GetState` asks the cache or the contract, `Settled` goes on with what the
shared promise gave, `Select` is one turn of the loop, with `without` the swap of the
last witness into the place of the selected one. `fetches` are the calls of the
contract, `cache` which of them `makeBeaconCacheable` keeps for an epoch. The
contract is external (`NewEpoch`, `Answered`, `NotAnswered`). The hash is the
constant operator `Hash`: any function of the claim, the epoch and the number of
witnesses to words.

### BlocksToReveal

One step per iteration of the two loops of `redactBlocks`. Bytes are positions;
`redacted` is the set of `<<block, byte>>` that were overwritten, `stars` those that
are stars without it, and `revealed` the blocks that are returned, which are those that
are not all stars. `Layouts` and
`Redactions` are constants: the ways a response comes in blocks and what a
provider's `redact` may return.

### ZkReveal

The client's side is `preparePacketsForReveal` and the proof generator:
`exporting` keys, the `queue` of proofs with at most `Concurrency` `running`,
`reveal` of each packet. The witness's side is `decryptTranscript` with
`verifyZkPacket`: proofs being checked, packets refused, bytes seen. A proof is
the range it covers, the positions redacted in it and the redacted ciphertext
it was made for; a byte is its position. `packets[i].given` is the length of the
redacted plaintext that the claim flow attached, which differs from the length of
the packet when TLS adds a content type or splits what was written.

## Runs

Bounds are named in the `.cfg` files. Deadlock is not an error in the models of
one-shot work (a call that is over, a session that is closed); in `keepalive`,
where time never stops, it is.

| Run | Bounds | Checks |
|---|---|---|
| `session_tunnel` | one tunnel id, query and 2 packets of up to 2 messages from 5 packets, 2 chunks from the host | `OneReply`, `DisconnectEventOnce`, `ClientSeesTranscript`, `ClaimsAreBacked` |
| `session_ids` | two ids, query and 2 packets from 5 packets that create, close, alert | `FailureEndsPacket`, `NothingBeforeInit`, `ConfirmedTunnelsClose`, `OrphansAreOvertaken`, `DisconnectIsFinal`, and under fairness `PacketsFinish` |
| `connect` | up to 5 addresses, every option | `FailureLeavesLateSocketOnly`, `RefusedMeansAllTried`, `ConnectTcpSettles` |
| `keepalive` | ping every 3, kill after 9, answer within 5 | `HeardClientIsNotSilentForLong`, `ResponsiveClientIsKept` |
| `claims` | 2 calls (symmetric), 2 attempts each, 2 connections | `ClaimsWholeResponse`, `OneConnectionInUse` |
| `window` | a claim and another message, 2 attempts, 2 connections, 2 proofs in each, one at a time, answers of every type | `ProofsAreOfTheAttempt`, `RequestsAreAnswered` |
| `response` | bodies of up to 4 bytes with line ends, halves of them and what looks like a size; every framing, every chunking, every cut; up to 2 header lines; up to 2 rules | `CutsDoNotMatter`, `PositionsAreTrue`, `EndsWithItsLength`, `HidesTheRest`, `RevealsSelected`, `ReadsInOrder` |
| `request` | 21 bodies of up to 3 parts, of ASCII and not, four of them matched by stars alone, 1 or 2 bytes of secret headers, both versions and modes, matches that are seen, hidden or inverted | `HiddenKeysStaySecret`, `SecretsStaySecret`, `WitnessSeesRequest`, `HonestClaimIsAccepted`, `ClaimedBodyWasSent`, `MatchesAsDocumented` |
| `request_secret` | the same | **violated**: `HonestSecretBodyIsAccepted` |
| `blocks` | up to 3 blocks of 0 to 2 bytes, up to 2 slices of any place | `RedactsWhatIsAsked` |
| `zk` | 1 or 2 packets of 3 bytes, chunks of 2, 2 workers, every redaction of 2 to 4 bytes | `TranscriptIsWhole`, `WitnessSeesRedaction`, `HonestProofsAreValid`, `TranscriptSettles` |
| `beacon` | 2 callers, 2 epochs, lists of 2 or 3 witnesses, 1 or 3 required, hashes of 2 words | `SelectionIsComplete`, `OneFetchPerEpoch`, `StateIsOfEpoch`, `SameClaimSameWitnesses` |

What the runs show, in short. `session_*`: whatever packets interleave with the
events of sockets, a session answers each request once, tells the end of a tunnel
once, keeps a transcript that is what the client saw, and signs only what that
transcript backs. `connect`, `keepalive`: timers that race leave nothing behind but the one socket that
a proxy connects too late, and drop only the dead. `claims`, `window`: a claim follows
only a whole response and proofs of its own attempt, and its page is told once, or its
claim waits for the witness, the host or the application, and for nothing else.
`response`, `blocks`, `zk`, `request`: what the witness is shown is what was selected,
byte for byte, and never a secret. `beacon`: the
witnesses of a claim do not depend on who asks, when, or with whom.

Each module states more than the runs list, and these hold in the same instances:
`TypeOK` of every module (`WindowTypeOK`, `KeepAliveTypeOK`), `TranscriptsGrow` and
`RejectedConnectionCloses` of `ServerSession`, `HandsOverOpenSocket` and
`OneSocketAtATime` of `TcpConnect`, `ClosedSessionIsQuiet` of `KeepAlive`,
`CursorsAgree` and `ThrowsBeyondTheEnd` of `BlocksToReveal`, `RevealIsWhole` and
`ProgressIsComplete` of `ZkReveal`, `SlicesInOrder` of `HttpResponse`,
`RedactionsAreSecrets` of `RequestReveal`, `AnsweredOnce` of `WindowRpc` and `CallersSettle` of `Beacon` (under `FairSpec`). Add them to the
`.cfg` of the module's run to check them again. All are proved below but the
liveness properties `RejectedConnectionCloses` and `CallersSettle`.

Why the bounds are enough. A hazard of the session needs two packets that
interleave and the query (three packets), two messages in a packet (what comes
after a failure), and two ids or one id twice; a longer packet repeats the same
step. Two chunks tell the order of data from its amount. In `connect` the loop
over the addresses is entered, repeated, left early and left late. The intervals
of `keepalive` keep the order of the configured ones and a round trip that is
longer than a ping interval, so that two pings are under way. In `claims` two
calls are enough for one to end the other's session, two attempts for the second
to find the first one's connection, two connections for the pool to be refilled;
the bound on connections blocks a third one, which is why `RequestsAreAnswered` is
checked with one call and as many connections as attempts. In `window` two proofs
that are made one at a time let one fail while the other waits in the queue, and two
attempts let that one be asked for and answered while the other attempt asks for its
own. In `response` a body of four bytes holds a line
end within it, at its start, at its end, and cut; two chunks have a boundary for a
rule to reach across, and two rules may be apart, adjacent, overlapping or nested. In
`request` there are secrets at the start, at the end, next to each other, next to
public parameters and to an empty one, text and parameters whose strings are shorter
than their bytes; three parts are enough for a replacement to
move one that follows. An empty body, one that starts with a star and one that starts
as a template does are those that `ClaimedBodyWasSent` has to leave out; the last, a
parameter whose value is itself a template, is why `MatchesAsDocumented` speaks of what
opens as a template. In `beacon` two callers ask for the same epoch, for different
ones and for the current one while it changes; three witnesses and two words let the
words be used again, and a list of two with three required is exhausted. In `blocks` a slice begins or ends
within, at the end of and beyond a block, and covers one, two or no blocks. In
`zk` the last chunk is short, a chunk is hidden whole, in part or not at all, and
two packets have their proofs mixed.

### Fairness

* `ServerSession`: `WF(Work(p))` for each packet: a promise job that can run
  does; `connectTcp` settles (it has a timeout: `ConnectTcpSettles`) and the
  signing of a claim ends. `WF(TerminateRejected)` and `WF(CloseRejected)`: the
  `catch` and `finally` of `acceptConnection` run. Nothing is assumed of the
  client, the hosts or the network.
* `TcpConnect`: the call runs and timers that are due fire. Nothing is assumed of
  the proxy, DNS or the host.
* `WindowRpc`: a message that was received is handled, promise jobs and timers run,
  the queue starts its tasks, and a WebSocket that is closing closes. Nothing is
  assumed of the witness, the host or the application, because the code has no timeout
  on any of them: a host that just closes its TCP side without a `close_notify` leaves
  `waitForAllData` pending (`RemoteEndIsReported` is why the client is not told), and
  an answer of a wrong type leaves its proof pending. `RequestsAreAnswered` names these
  waits (`AwaitsWitness`, `AwaitsHost`, `AwaitsProof`): a request is answered unless its
  claim is in one of them from some time on.
* `ClaimFlow`, `RequestReveal`, `HttpResponse`: only safety is checked, without fairness.
* `Beacon` (`CallersSettle` only): promise jobs run, and a call of the contract ends.
* `ZkReveal`: keys are exported and proofs are computed by calls that end.
* `BlocksToReveal`: the loops run.

### Where the code does not do what the repository says

The run marked **violated** shows one counterexample; `findings` in `PROJECT.json`
quotes the lines. A request with a secret in its body is checked by the client with
the secret at hand and then refused by the witness, which does not have it
(`request_secret`).

The modules state more such claims of comments, messages and types, which the code
does not satisfy either and for which no run is listed; each is at the end of its
module under the heading "What the repository says of this code and the code does
not do":

| Claim | What happens instead |
|---|---|
| `ServerSession!NoTunnelOutlivesSession` | a connection being made when the session ends is registered afterwards and stays open |
| `ServerSession!RemoteEndIsReported` | the end of the remote stream is never told to the client |
| `ServerSession!OneTunnelPerId` | two requests of one id both pass the check |
| `ServerSession!TranscriptIsWhatWasSent` | data for a closed tunnel enters the transcript |
| `TcpConnect!TimeoutLeavesNothing` | a proxy that connects after the timeout leaves an open socket |
| `KeepAlive!SilentClientIsDropped` | a client that never sends a frame is never pinged |
| `ClaimFlow!StreamEndIsAwaited` | the end of the session during the write rejects a promise without a listener |
| `ClaimFlow!OtherCallsErrorIsRetried` | an error of another call ends the shared session, and this call is not retried |
| `ClaimFlow!InitFailureIsHandled` | the failed `init` of a client that nobody waits for is unhandled |
| `BlocksToReveal!RedactsAnyBlocks` | a block without a byte shifts what follows |
| `ZkReveal!ChunksAreLimited` | the limit is compared before anything is counted |
| `HttpResponse!EndIsComplete` | a chunked response that ends between two chunks passes for complete (`http-parser.js:124`) |
| `HttpResponse!StreamIsBody` | a body that ends with its stream is read as headers up to its last line end (`http-parser.js:61`) |
| `HttpResponse!RevealsNested` | what follows a rule that lies within another one is hidden (`providers.gen.d.ts:56`) |

The properties that hold are stated so as to be true next to these: what
`OrphansAreOvertaken` grants to a second tunnel of one identifier, `heard`,
`NoEmptyBlock`, `NotNested`, the restriction of `EndsWithItsLength` to responses with a
length, and the late proxy of `FailureLeavesLateSocketOnly` name the circumstances.
Two more conditions mark where the code does not do what it is for, and TLC finds a
counterexample in the run of the module when the condition is dropped:

* `hasPlainStream` in `CutsDoNotMatter`, `PositionsAreTrue`, `HidesTheRest`,
  `RevealsSelected`: of a body that ends with its stream and has lines, what is known,
  and so what is hidden and revealed, depends on the cuts.
* `isAscii` in `SecretsStaySecret`, `RedactionsAreSecrets`: `createRequest` and
  `extractAndReplaceTemplateValues` add lengths of strings to positions of bytes
  (`providers/http/index.js:63-65, 89, 93-98, 386-391`), so that slices of a request with
  other characters start too early or end too early and show bytes of the secrets.

Two more are left to the types alone. The trusted beacon ignores the epoch it is asked
for, where `types/beacon.d.ts:15` says that `getState` is of that epoch; and more
witnesses than an epoch has are `undefined`, where `utils/beacon.d.ts:10` promises
`WitnessData[]` (`SelectionIsComplete` says which witnesses are there).

Behaviour that no document contradicts, and that a reader should know: two secrets
next to each other, or an empty one, do not match their template (`isPlain`); the
secret headers are found by the first occurrence of their text in the request
(`index.js:85`; the model's requests have no other), and an empty object of them passes
the check that some header is secret (`index.js:36-40`); a write that fails is logged
and the claim goes on (`ClaimedBodyWasSent` says why a claim about a body cannot come of
it); an epoch whose fetch failed stays rejected in the cache.

## Theorems

| Theorem | States | Assumes |
|---|---|---|
| `ServerSession_proofs!TypeCorrect` | `TypeOK` | `SessionAssumption`: any ids, data, packets and bounds |
| `RepliesAreUnique` | `OneReply` | |
| `FailureIsLast` | `FailureEndsPacket` | |
| `DisconnectEventIsUnique` | `DisconnectEventOnce` | |
| `ClientFollowsTranscript` | `ClientSeesTranscript` | |
| `InitComesFirst` | `NothingBeforeInit` | |
| `OrphansWereOvertaken` | `OrphansAreOvertaken` | |
| `DisconnectionIsFinal` | `DisconnectIsFinal`, an action property | |
| `ConfirmedTunnelsAreClosed` | `ConfirmedTunnelsClose` | |
| `SignedClaimsAreBacked` | `ClaimsAreBacked` | |
| `TranscriptsOnlyGrow` | `TranscriptsGrow`, an action property | |
| `Connection_proofs!TypeCorrect` | `TypeOK` of `TcpConnect` | `ConnectAssumption`: a host has any number of addresses |
| `FailuresLeaveLateSocketOnly` | `FailureLeavesLateSocketOnly` | |
| `OneSocketAlive` | `OneSocketAtATime` | |
| `RefusalIsEarned` | `RefusedMeansAllTried` | |
| `HandsOver` | `HandsOverOpenSocket` | |
| `ImplementsPromise` | `Abstract!Safety`, the safety half of `ConnectTcpSettles` | |
| `ClaimFlow_proofs!TypeCorrect` | `TypeOK` | `ClaimAssumption`: any calls, attempts and connections |
| `ClaimsAreWhole` | `ClaimsWholeResponse` | |
| `OneConnection` | `OneConnectionInUse` | |
| `CallsArePromises` | `Caller(k)!Safety`: each call is a `Promise` | |
| `WindowTypeCorrect` | `WindowTypeOK` | `WindowAssumption`, `MessagesAssumption`: any messages, chunks, answers |
| `AnsweredAtMostOnce` | `AnsweredOnce` | |
| `ProofsAreTheirOwn` | `ProofsAreOfTheAttempt` | |
| `RequestsArePromises` | `Sender(r)!Safety`: each request of a page is a `Promise` | |
| `Connection_proofs!KeepAliveTypeCorrect` | `KeepAliveTypeOK` | `IntervalAssumption`: a ping interval and a round trip are less than `MaxNoData` |
| `HeardClientIsDropped` | `HeardClientIsNotSilentForLong` | |
| `ResponsiveClientIsNotKilled` | `ResponsiveClientIsKept` | |
| `ClosedSessionStaysQuiet` | `ClosedSessionIsQuiet` | |
| `BlocksToReveal_proofs!TypeCorrect` | `TypeOK` | `BlocksAssumption`: blocks follow each other, slices are in order |
| `CursorsNameOneByte` | `CursorsAgree` | |
| `RedactionIsExact` | `RedactsWhatIsAsked` | |
| `ThrowsOnlyBeyondTheEnd` | `ThrowsBeyondTheEnd` | |
| `ZkReveal_proofs!TypeCorrect` | `TypeOK` | `ZkAssumption`: packets, chunks, redactions and workers of any number |
| `RedactionIsRespected` | `WitnessSeesRedaction` | |
| `HonestProofsPass` | `HonestProofsAreValid` | |
| `RevealsAreWhole` | `RevealIsWhole` | |
| `TranscriptsAreWhole` | `TranscriptIsWhole` | |
| `ProgressEnds` | `ProgressIsComplete` | |
| `ImplementsPromise` | `Caller!Safety`, the safety half of `TranscriptSettles` | |
| `RequestReveal_proofs!TypeCorrect` | `TypeOK` | `RequestAssumption`: bodies of text, parameters and secrets, no string longer than its bytes; some byte of secret headers |
| `HiddenStaysHidden` | `HiddenKeysStaySecret` | nothing: any requests and answers |
| `RedactionsAreTheSecrets` | `RedactionsAreSecrets` | `RequestAssumption` |
| `SecretsStay` | `SecretsStaySecret` | `RequestAssumption` |
| `WitnessSeesIt` | `WitnessSeesRequest` | `RequestAssumption` |
| `BodyWasSent` | `ClaimedBodyWasSent` | `RequestAssumption`, `NoneAssumption`: no claim is `None` |
| `HonestIsAccepted` | `HonestClaimIsAccepted` | the same and `AnswerAssumption`: what is shown of a response is part of it |
| `TemplatesMatchAsDocumented` | `MatchesAsDocumented`: a template matches a string exactly if it can be cut into the parts of the body | `RequestAssumption` |
| `HttpResponse_proofs!CutsMakeNoDifference` | `CutsDoNotMatter` | `DigitsAssumption`, `ResponseAssumption`: any responses |
| `PositionsAreTheHosts` | `PositionsAreTrue` | |
| `ClaimsTheWholeLength` | `EndsWithItsLength` | |
| `WitnessSeesNoMore` | `HidesTheRest` | |
| `WitnessSeesTheSelected` | `RevealsSelected` | |
| `ParserReadsInOrder` | `ReadsInOrder`: the parser implements `ResponseReader` | |
| `ResponseTypeCorrect` | `TypeOK`, of plain streams | |
| `RedactionsInOrder` | `SlicesInOrder`, of plain streams, which is `BlocksToReveal!InOrder` of the slices | |
| `Beacon_proofs!TypeCorrect` | `TypeOK` | `BeaconAssumption`: lists without repetition, any hash |
| `EpochsAreFetchedOnce` | `OneFetchPerEpoch` | |
| `StatesAreOfTheirEpoch` | `StateIsOfEpoch` | |
| `SelectionsAreComplete` | `SelectionIsComplete` | |
| `SameWitnessesForAll` | `SameClaimSameWitnesses` | |

*ServerSession.* `TypeInv` adds to the types that the current message of a running
packet exists. The lemma `ConnectionStep` says what any step may do to one
connection: leave it, start it by the request that names it, or apply one of the
closures; every invariant about connections needs only this. `OneReply` is not
inductive: it needs `Ahead` (what the packet has not reached is unanswered and
not connected), `Awaited` (nor is what it waits for) and `FailedLast` (a packet
with a failed request does not move). `DisconnectEventOnce` needs `EventInv`: a
connection that can still tell its end (`onClose`) has told nothing.
`ClientSeesTranscript` is `ForwardInv` for every connection: the WebSocket never
reopens, so a chunk that was not forwarded is followed by none that was.
`SessionInv` adds what the rest needs. `NothingBeforeInit` is inductive only together
with `Origins` (a connection belongs to a createTunnel, and `client.tunnels` maps an
identifier to a request for that identifier) and with what `ConnectionStep` says of a
connection that is over. An identifier under which a tunnel was connected stays taken
(`Taken`, `TakenKept`), and what `client.tunnels` names was connected. So an open socket
that is not there was overtaken, and not by a request of its own packet: `Attempts` says
that a connection being made is awaited by its packet and that a failed one ended it,
`OnceInPacket` that no packet makes two connections under one identifier.
`DisconnectIsFinal` is `ConfirmsDisconnect` (the confirming step closes the tunnel that
has the identifier) and `NothingBegins` (under an identifier that is taken nothing
begins). `ClaimsAreBacked` speaks of claims that are answered; `ClaimInv` says the same
from the moment the transcripts were compared, and of the tunnel that was compared, also
when another one has taken its identifier since; transcripts only grow
(`ConnectionsGrow`). `TranscriptsGrow` is this and `TunnelsKept`. *TcpConnect.* The invariant `Inv` says where a socket can be alive at all: `Held`,
the attempt that `getSocket` waits for or, once it is over, the socket that
`connectTcp` holds. `Routed` says what belongs to a direct and to a proxied call,
`Tried` that all attempts before the current one failed, and `Over` that only the
timer settles the call while `getSocket` goes on. Without `Over` neither
`FailureLeavesLateSocketOnly` nor `RefusedMeansAllTried` is inductive: a failed call could
still start an attempt. The lemmas `RejectSockets`, `RejectOver` and
`NextAddressStep` say what a rejection and a further attempt do, and every action
uses them. `ImplementsPromise` needs that a settled result never changes
(`SettledStays`), which rests on `Inv` only for the call that is not made yet.

*ClaimFlow and WindowRpc.* `ClaimsWholeResponse` speaks of the last awaits of an
attempt. `Whole` says what is already true at the earlier ones: how `allData` was
settled, and that an attempt whose tunnel has closed either has noticed it or waits
where `Terminated` will tell it. `Placed` puts every attempt on a connection that was
at least open, and one whose tunnel the witness still holds after its disconnection on
a connection that is ending; this is why a claim is sent only when the tunnel is closed.
`Single` names the one connection in use: the application's or the pooled one.
`FlowInv` is the three together. A step of a connection touches all of its attempts, so
the lemmas (`TerminatedAttempt`, `TerminateStep`, `ConnectionChange`) are about one
attempt at any await, and `CallStep` about a step of one call that leaves the others.
`SettledStays` (no step moves a call that is claimed or failed) gives
`CallsArePromises`. In the composition `ProofsInv` says that a proof is the answer to its own request,
whenever it comes, and `Bound` that those of the attempt are all there from `claiming` on: `LateSteps` says that no attempt gets there other than through the step
that starts its proofs, and that what ends a connection leaves it or fails it.
`Conversation` is the protocol of a handler and its answers: the answer and the end of
the handler are one step, whichever branch or `catch` makes it.

*KeepAlive.* Silence is not bounded by any one timer. `Measured` ties `silence`
to the time that `killTimeout` has left. `Armed` says which timers run, and
`Answered` that for a client that is alive either an answer is under way in time
or the next ping, plus a round trip, comes before the kill. `Idle` is the
invariant of a closed session.

*BlocksToReveal.* The loop invariant is `LoopInv`: the two cursors name one byte;
all slices before `next` are behind the cursor, those from `next` on are not; and
what is redacted is what is asked for of the bytes before the cursor. That the
blocks follow each other, for blocks that are not neighbours too, is stated as an
assumption about layouts because it needs an induction over their number. `LeavesOutStars`
is what `Return` leaves out.

*ZkReveal.* Everything is about sets of proofs: `Work(i)` is the set of proofs that
the packet needs, one for each of its chunks that is not hidden whole, and `AllWork`
that of all packets. `WorkShowsAll` is the arithmetic of the chunks: the bytes that these
proofs show are those that are not hidden, for every length, chunk size and
redaction; `ProofsAreApart`, that the proofs of two chunks or packets differ.
`ProofsToGenerate` proves that the loop of the generator makes each of them exactly
once: the loop is a recursive function, `LoopExists` that there is one and
`LoopMakes` what it holds after each round. The client's invariant says that a proof
is queued, being made or made, never two of these (`Apart`), that none of it before
the packet's key is there (`NothingBeforeKey`), that none is forgotten until
something fails (`NothingIsLost`), that a reveal is set by the last proof (`Delivered`),
and that progress counts them (`Counted`, with cardinalities). The witness's says that
what it sees of a packet that is not refused is what the proofs that it has verified
show (`Verified`); when none is left to check that is all of them. `HonestProofsPass`
needs that the redacted ciphertext the witness computes is the one the proof was made
for, which is the case when what was given of a packet fits in it
(`FittingProofsAreValid`).

*RequestReveal.* `HiddenKeysStaySecret` speaks of packets that are marked; it needs
to know of those that are not marked yet. `KeyInUse` says that what the key in use
has protected so far is of one kind, the kind of the last section, and that a fresh
key has protected nothing; `OneKindPerKey` that every earlier key protected only
revealed or only hidden sections; `KeysGrow` that keys never come back and that the
packet of a key update is the last one under its key, so that the handshake, which is
revealed whole in the end, shares no key with data. `Marks` says which packets are
revealed by their key. `SendStep` treats both kinds of packets that are sent,
`StillInv` the steps that mark and send nothing. No step depends on what the
sections are, so the theorem holds for any of them and wherever the write stops.

`SecretsStaySecret` adds to this, with `InvIsSecret`, what the sections are; the
argument follows the code from the body to the packets. The loop over the body
(`TemplateLoop`, `TemplateHides`) keeps `InPlace`, that a template stands where its
value comes to be, and `Covers`, that the hidden parts are in order and cover the
bytes of the secrets and no others. Of `createRequest`, `RedactStep` and
`BodyRedactions` say that one slice is made of each hidden part (`Redacts`), and
`RequestHides` that together with the slice of the headers they hide what `isSecret`
says and nothing else, if strings are as long as their bytes; `RedactionsAreTheSecrets`
is this. Between
two slices in order lies no hidden byte (`Between`), so no section that
`SectionsAreSafe` is about shows one when it is revealed. `Sections` says that what is
written are the sections of the request and that a packet carries a section, `Rest`
types what comes after. A byte of a packet that the witness sees is then one whose key
is exported, and by `HiddenKeysStaySecret` and `Marks` its section is a revealed one,
or one that the redacted plaintext has, where the slices are replaced by stars.

`WitnessSeesRequest` is about the whole transcript. `Tiles` says that the sections
follow each other from the first byte to the last, `Shape` which packets there are:
what precedes a section is the section before it, with one update between them
exactly if they differ in what they reveal (`Follows`), how far the write has come
(`Position`), and how a packet is marked (`Marked`). What the witness reads up to a
section is then, without runs of stars, the request up to the end of it (`ViewUpTo`,
by induction over the sections): strings that agree without their runs do so with
what is appended to both (`RunsOfConcatenation`), and the star that an update reads as
stands next to a hidden section, with which it merges (`StarAfterRun`,
`StarBeforeRun`).

`ClaimedBodyWasSent` and `HonestClaimIsAccepted` rest on what the answer of the
witness means (`Receipt`: it is a claim exactly if the witness accepts what it sees)
and on what a request with no secret in its body is: three sections, the first byte,
the secret headers and the rest, or one (`PlainSections`). Until the last section goes
out the witness reads the first byte, once, and stars (`TopFirstBefore`), hence no end
of the headers; what follows the first byte passes for the body, and stars do not match
a template (`StarsDoNotMatch`, the loop of `matchRedactedStrings` stays where it is).
The proof does not go through for every body, and TLC showed why: an empty body is not
compared, one that starts with a star meets the stars of the headers, and one that
starts with `{{` is taken for a template of them. A write that stops after the secret
headers is then claimed. The property leaves these bodies out (`mayBeStars`) and the
instance of the run has them. When all of the request went out, the first empty line
that the witness finds is that of the headers (`BytesAfterBlank`), what follows is the
body of the request, and a string matches itself (`MatchesItself`).

`MatchesAsDocumented` gives the loop of `matchRedactedStrings` its meaning: a template
matches a string exactly if the string can be cut into the parts of the body, each
secret being one star or more. It is not true of every text, and the exceptions are
conditions of it: a secret that touches another one, an empty part or a star has no end
that the loop could find; and `{{` in a text or in the value of a parameter is taken for
a template, or is matched by itself where a template is meant (`isPlain` and `opens`;
the run has a body for each). `TemplatePlaces` says where the parts are in the template
and that only a secret opens one there; `TextTurns` and `SecretTurns` are the turns over
a part, which either go over just what the part is or get stuck (`StuckInside`);
`PartsAreRead` and `CutIsRead` are the two inductions over the parts, with as many turns
at most as the template has characters (`LandsAt`).

*HttpResponse.* A host sends any header lines, each key once, and a body of any bytes:
with a length, in any chunks, or until the stream ends. `StaysPlain` says that a response
does not change, so that the invariant is one of the responses with a plain stream. What a size is written
with is any sequence of digits. The proof has three parts.

First, where things are. `TopIs`, `ChunksAt` and `MessageIs` unfold the flattened
message into `MessageHolds`: line k of the top, and chunk i, with its size, its bytes of
the body and its line end, are at places that are computed from the response. `LineAhead`
is the reason that cuts are harmless: if what is next is a line, as far as it has come,
then the first line end that the parser finds is that of this line, or it finds none. It
holds although bodies may contain line ends, sizes and halves of both, because the parser
looks for a line only where one starts.

Second, what the parser knows. `Quiet` is its state when it waits for more: before line k
of the top, which has not come whole; in a body that is not chunked, having taken all;
or, of chunk i, before its size or within its bytes. `TopIsRead` and `ChunksAreRead` are
the loops (`headerTurn` and `chunkTurn` take one line each and there are turns enough,
`TurnsEnough`), `PlainRead` and `ChunkIsTaken` the calls of `readBody`; `OnChunk` puts
them together: from one such state, any number of bytes leads to another. `ParserInv` is
`Quiet` for what has been received. `KnownOnce` says that the bytes received determine
that state completely. As parsing them at once leads to such a state too,
`CutsDoNotMatter` follows, and no proof ever compares two ways to cut.
`EndsWithItsLength` and `PositionsAreTrue` read off the same description
(`ParsedLength`, `WholePositions`). For the refinement, `QuietReadsOn` compares the
states before and after a piece: the body grows by what follows in it, or is complete;
`QuietIsNotThrown` says that no response of a host makes the parser throw.

Third, what is revealed. `ParsedIs` says what a parsed response knows, also one that ended
between two chunks. `ConvertsTo` is what the conversion of a position in the body
has to give: a place in the response that has just so many bytes of the body before it
(`Converted`; at the border of two chunks both ends would do, and the code takes the
first). `SortedIs` says that `sorted` holds the same slices in the order of their ends;
its ranks are cardinalities, and `PlacesGrow` that two slices never share one.
`GapsBetween` describes the gaps, `GapsHide` that what no gap holds is in a slice,
whatever the slices, and `GapsReveal` the converse for slices that start in the order in
which they end; `NotNested` is what gives that order (`RevealsAgree`). `RevealKinds`,
`RuleSliceHolds` and `HeadIsBefore` say what the slices hold. `SlicesInOrder`, that the
gaps follow one another within what has come, needs no condition on the rules and is
what `BlocksToReveal` assumes of the redactions that it is given.

*Beacon.* `OneFetchPerEpoch` needs `Cached` (the cache of an epoch names the fetch of
that epoch, and an epoch that was fetched is cached), `StateIsOfEpoch` needs
`Fetched` (a fetch that is resolved has the state of an epoch of the contract, of the
one it named) and `Waiting` (a caller waits for a fetch of what it asked for, whose
answer is no older than the asking). The choice rests on `Choosing`: the
witnesses selected and those left are all different and together are the list, as
long as any are left, which the swap of the last into the place of the selected one
keeps, whatever index the hash gives. `SameClaimSameWitnesses` relates two callers that
may be at different turns: `Paths` says that there is one sequence of turns for each
claim and state, as long as the farthest caller has come, and that every caller is on
it. A caller that is behind takes a turn that is there already, because a turn depends
on nothing but the claim, the state and what is left; the farthest extends the path.
Two callers that are done have both taken all turns of one path.

Where an induction over a number is needed (the chunks of a packet, the parts of a
body, the slices of a request, the turns of a loop), it is over the set of the numbers for which the claim
holds (`InductionOverNat`) and not over an operator. Loops are recursive functions and
not `SelectSeq` or a fold, of which the provers know nothing; `LoopExists` gives each of
them its equations, and `Flattened` does so for `FlattenSeq`.

Every safety property and every action property that a run checks is proved. Out of the
prover's reach and only model-checked are liveness and fairness (`PacketsFinish`,
`RequestsAreAnswered`, and the liveness half of the implementations of `Promise`) and
whatever needs `ENABLED`.

## Plan

Done: the modules above and the proofs listed. What is left, by importance:

1. The caches of the ZK operators (`utils/zk.js` L205-240).
2. The composition of an attempt of `ClaimFlow` with `ServerSession`: the claim of an
   honest client is never refused for its transcript.

## What is not modelled, and why

TLS, the WebSocket and net libraries, the ZK circuits, hashes and signatures are
external: the models say only what the code relies on. What XPath, JSON paths and
regular expressions select is an input. Encoding of messages, logging, metrics,
configuration, static files and generated code have no behaviour of their own.

In `ServerSession` the content of a claim's verification is nondeterministic
(`RequestReveal` and `ZkReveal` have it), in `ClaimFlow` the choice of the packets that
are revealed is left out (`RequestReveal` has it). Templates in the URL, the location
and the rules are replaced like those of the body and left out; so are header names and
values that are not ASCII. The logs and the steps of a claim that a page receives are
messages that nothing waits for, and may come after its answer; `groth16Verify` of the
operator of the window and `assertValidClaimSignatures` are called by no module of the
repository. The order in which a browser decodes Blobs on the client, and the caches of
the ZK operators, are not modelled.
