----------------------------- MODULE WindowRpc -----------------------------
(***************************************************************************)
(* The RPC of a page with its host window or native application            *)
(* (window-rpc/setup-window-rpc.js): messages come in, requests among them *)
(* are handled and answered.  A request createClaim is a call of ClaimFlow *)
(* whose proofs the application may make itself (window-rpc-zk.js).        *)
(*                                                                         *)
(* The logs, and the steps of a claim, are messages too; they are left     *)
(* out.  The application answers a proof with its own identifier.          *)
(***************************************************************************)
EXTENDS ClaimFlow, Sequences

CONSTANTS
  Request,        \* the messages that the page receives, the calls among them
  Messages,       \* what they may say
  Chunks,         \* proofs of an attempt
  ZkConcurrency,  \* proofs that are made at a time
  AnswerTypes     \* types of the answers that the application gives

ASSUME WindowAssumption ==
  /\ Call \subseteq Request
  /\ Chunks \in Nat /\ ZkConcurrency \in Nat \ {0}

VARIABLES
  req,      \* the data of each message
  handler,  \* its handleMessage
  answers,  \* the responses that its sender receives
  proofs    \* the proofs of every attempt

windowVars == <<vars, req, handler, answers, proofs>>

Types == {"createClaim", "extractHtmlElement", "extractJSONValueIndex",
          "getCurrentMemoryUsage", "setLogLevel", "benchmarkZK"}

Message ==
  [data : {"none", "text", "json"}, module : {"witness-sdk", "other"},
   isResponse : BOOLEAN, hasId : BOOLEAN, type : Types \cup {"other"},
   zkOperatorMode : {"default", "rpc"}, contextParses : BOOLEAN,
   to : {"page", "gone", "nobody"}]

ASSUME MessagesAssumption == Messages \subseteq Message

Attempts == 0 .. MaxRetries - 1

\* A request zkProve: its call, its attempt and its chunk.
Id == Call \X Attempts \X (1 .. Chunks)

\* The task of a proof; "of" is the request whose answer it took.
Proof == [state : {"none", "queued", "waiting", "resolved", "lost"} \cup ProofError,
          of : Id \cup {<<>>}]

Task(state) == [state |-> state, of |-> <<>>]

WindowInit ==
  /\ Init /\ given = FALSE
  /\ req \in [Request -> Messages]
  /\ \A r \in Request : req[r].type = "createClaim" <=> r \in Call
  /\ handler = [r \in Request |-> "none"]
  /\ answers = [r \in Request |-> <<>>]
  /\ proofs = [id \in Id |-> Task("none")]

-----------------------------------------------------------------------------
(* handleMessage.                                                           *)

isRpc(r) == handler[r] = "none" /\ req[r].data = "json"

\* Messages of others and responses are ignored.
isForUs(r) == req[r].module = "witness-sdk" /\ ~req[r].isResponse /\ req[r].hasId

\* The handler of r goes on to "state" and responds.  The response to a channel
\* that does not exist is dropped; without a channel and a source, postMessage
\* throws, in the catch block too.
Respond(r, state, res) ==
  /\ handler' = [handler EXCEPT ![r] = state]
  /\ answers' = IF req[r].to = "page" THEN [answers EXCEPT ![r] = Append(@, res)]
                                      ELSE answers
  /\ UNCHANGED <<req, proofs>>

Quietly(r, state) ==
  /\ handler' = [handler EXCEPT ![r] = state]
  /\ UNCHANGED <<req, answers, proofs>>

Ignore(r) ==
  /\ handler[r] = "none"
  /\ \/ req[r].data = "none"
     \/ isRpc(r) /\ ~isForUs(r)
  /\ Quietly(r, "over")
  /\ UNCHANGED vars

\* A text that is no JSON throws, whoever sent it.
Unreadable(r) ==
  /\ handler[r] = "none"
  /\ req[r].data = "text"
  /\ Respond(r, "over", "error")
  /\ UNCHANGED vars

\* The first step of a claim is sent at once, and throws when there is nobody.
CreateClaim(r) ==
  /\ isRpc(r) /\ isForUs(r)
  /\ req[r].type = "createClaim"
  /\ IF req[r].contextParses /\ req[r].to # "nobody"
     THEN Quietly(r, "running")
     ELSE Respond(r, "over", "error")
  /\ UNCHANGED vars

\* extractHtmlElement, extractJSONValueIndex, setLogLevel: answered at once, or
\* an error.
Immediate(r) ==
  /\ isRpc(r) /\ isForUs(r)
  /\ req[r].type \in {"extractHtmlElement", "extractJSONValueIndex", "setLogLevel"}
  /\ \E res \in {"done", "error"} : Respond(r, "over", res)
  /\ UNCHANGED vars

\* getCurrentMemoryUsage, benchmarkZK.
Measure(r) ==
  /\ isRpc(r) /\ isForUs(r)
  /\ req[r].type \in {"getCurrentMemoryUsage", "benchmarkZK"}
  /\ Quietly(r, "running")
  /\ UNCHANGED vars

Measured(r) ==
  /\ handler[r] = "running"
  /\ req[r].type \in {"getCurrentMemoryUsage", "benchmarkZK"}
  /\ \E res \in {"done", "error"} : Respond(r, "over", res)
  /\ UNCHANGED vars

UnknownType(r) ==
  /\ isRpc(r) /\ isForUs(r)
  /\ req[r].type \notin Types
  /\ Quietly(r, "over")
  /\ UNCHANGED vars

\* The call is over: mapToCreateClaimResponse throws when the witness answered
\* with an error instead of a claim.
ClaimDone(k) ==
  /\ handler[k] = "running"
  /\ call[k].pc \in {"claimed", "failed"}
  /\ \E hasClaim \in BOOLEAN :
       Respond(k, "over", IF call[k].pc = "claimed" /\ hasClaim THEN "done" ELSE "error")
  /\ UNCHANGED vars

-----------------------------------------------------------------------------
(* The proofs of a claim, in zkOperatorMode "rpc".                          *)

inRpc(k) == req[k].zkOperatorMode = "rpc"

\* The proofs of the current attempt.
current(k) == {<<k, call[k].attempt, n>> : n \in 1 .. Chunks}

proofsAre(k, states) == \A id \in current(k) : proofs[id].state \in states

\* Mutant: any answer is the one that is waited for.
waitForAnyResponse(id, to, type) ==
  IF proofs[id].state # "waiting" THEN proofs[id]
  ELSE [state |-> CASE type = "zkProveDone" -> "resolved"
                    [] type = "error" -> "internal"
                    [] OTHER -> "lost",
        of |-> to]

\* The answer type to the request "to", as the listener of the proof id hears
\* it; an answer of another type ends the wait without settling it.
waitForResponse(id, to, type) ==
  IF proofs[id].state # "waiting" \/ id # to THEN proofs[id]
  ELSE [state |-> CASE type = "zkProveDone" -> "resolved"
                    [] type = "error" -> "internal"
                    [] OTHER -> "lost",
        of |-> to]

\* A proof of the current attempt is rejected: Promise.all and what awaits it
\* are promise jobs, which run before another message or a fetch is over.
proofRejected(k, id) ==
  At(k, "proving") /\ inRpc(k) /\ proofs[id].state \in ProofError

Idle == \A k \in Call : At(k, "proving") => ~\E id \in current(k) : proofRejected(k, id)

\* generateProofs: the packets are prepared and every chunk has a task in the
\* queue of the attempt.
Enqueue(k) ==
  /\ handler[k] = "running"
  /\ At(k, "proving") /\ inRpc(k) /\ proofsAre(k, {"none"})
  /\ proofs' = [id \in Id |-> IF id \in current(k) THEN Task("queued") ELSE proofs[id]]
  /\ UNCHANGED <<vars, req, handler, answers>>

\* The next task of the queue of an attempt, which goes on though another proof
\* of it was rejected and the call started again: generateWitness fails, or
\* groth16Prove sends a request.
Prove(k, attempt) ==
  LET at(states) == {n \in 1 .. Chunks : proofs[<<k, attempt, n>>].state \in states}
  IN  /\ Idle
      /\ Cardinality(at({"waiting", "lost"})) < ZkConcurrency
      /\ \E n \in at({"queued"}) :
           /\ \A m \in at({"queued"}) : n <= m
           /\ \E state \in {"waiting"} \cup ProofError :
                proofs' = [proofs EXCEPT ![<<k, attempt, n>>] = Task(state)]
      /\ UNCHANGED <<vars, req, handler, answers>>

\* The application answers the request "to", now or after the attempt is over:
\* the listeners of all proofs see the message.
ProofAnswered(to) ==
  /\ Idle
  /\ proofs[to].state = "waiting" /\ req[to[1]].to = "page"
  /\ \E type \in AnswerTypes :
       proofs' = [id \in Id |-> waitForResponse(id, to, type)]
  /\ UNCHANGED <<vars, req, handler, answers>>

\* An attempt is over with its proofs: they are all there (the signature may
\* fail then), one was rejected, or the transcript is refused before.
Settle(k) ==
  /\ At(k, "proving")
  /\ \/ ~inRpc(k) /\ (Proved(k) \/ NotProved(k))
     \/ inRpc(k) /\ proofsAre(k, {"resolved"}) /\ Proved(k)
     \/ /\ inRpc(k) /\ (proofsAre(k, {"none"}) \/ proofsAre(k, {"resolved"}))
        /\ NotProvedFor(k, "internal")
     \/ \E id \in current(k) :
          proofRejected(k, id) /\ NotProvedFor(k, proofs[id].state)

Step(A) == A /\ UNCHANGED <<req, handler, answers, proofs>>

LocalProgress(k) ==
  /\ handler[k] = "running"
  /\ Step(Local(k) \/ Settle(k))

-----------------------------------------------------------------------------
Handle(r) ==
  \/ Ignore(r) \/ Unreadable(r) \/ CreateClaim(r) \/ Immediate(r)
  \/ Measure(r) \/ Measured(r) \/ UnknownType(r)

Network ==
  \/ \E k \in Call : handler[k] = "running" /\ Step(Remote(k))
  \/ \E c \in Client : Step(Answered(c) \/ Errored(c) \/ Closing(c) \/ Closed(c))

WindowNext ==
  \/ \E r \in Request : Handle(r)
  \/ \E k \in Call : LocalProgress(k) \/ Enqueue(k) \/ ClaimDone(k)
  \/ \E k \in Call, attempt \in Attempts : Prove(k, attempt)
  \/ \E id \in Id : ProofAnswered(id)
  \/ Network

WindowSpec == WindowInit /\ [][WindowNext]_windowVars

\* Messages are handled, promise jobs and timers run, a queue starts its tasks,
\* and a socket that is closing closes.  Nothing is assumed of the witness, of
\* the host or of the application: none of them need answer anything.
FairWindowSpec ==
  /\ WindowSpec
  /\ \A r \in Request : WF_windowVars(Handle(r))
  /\ \A k \in Call : /\ WF_windowVars(LocalProgress(k) \/ Enqueue(k))
                     /\ WF_windowVars(ClaimDone(k))
                     /\ \A a \in Attempts : WF_windowVars(Prove(k, a))
  /\ \A c \in Client : WF_windowVars(Step(Closed(c)))

-----------------------------------------------------------------------------
WindowTypeOK ==
  /\ req \in [Request -> Message]
  /\ handler \in [Request -> {"none", "running", "over"}]
  /\ \A r \in Request : answers[r] \in Seq({"done", "error"})
  /\ proofs \in [Id -> Proof]

\* A message is answered at most once, with a result or an error, though the
\* response itself, and what follows it, may throw into the same catch block; a
\* response is no request, so that two pages never answer each other's answers.
AnsweredOnce ==
  \A r \in Request :
    /\ Len(answers[r]) <= 1
    /\ req[r].isResponse /\ req[r].data = "json" => answers[r] = <<>>

\* The proofs that go to the witness are the answers to the requests of the same
\* attempt, each to its own, all of them, though a claim that was retried goes
\* on asking for its earlier proofs and their answers come to every listener.
ProofsAreOfTheAttempt ==
  \A k \in Call :
    call[k].pc \in {"claiming", "claimed"} /\ inRpc(k) =>
      \A id \in current(k) : proofs[id] = [state |-> "resolved", of |-> id]

\* What the sender of a message sees of its request.
replied(r) == CASE answers[r] = <<>> -> "pending"
                [] answers[r] = <<"done">> -> "resolved"
                [] OTHER -> "rejected"

\* The handler answers in the end unless the message is not for it.
expectsAnswer(r) ==
  /\ req[r].data = "json" /\ isForUs(r)
  /\ req[r].type \in Types
  /\ req[r].to = "page"

\* What a call may wait for without end, for the code has no timeouts: the
\* witness or the host on a connection that is not over, or the application.
AwaitsWitness(k) ==
  call[k].pc \in {"creating", "disconnecting", "claiming"} /\ ~isClosed(call[k].client)

AwaitsHost(k) ==
  /\ \/ At(k, "handshaking")
     \/ At(k, "waiting") /\ call[k].allData = "pending" /\ ~call[k].complete
  /\ ~isClosed(call[k].client)

AwaitsProof(k) ==
  /\ At(k, "proving") /\ inRpc(k)
  /\ \E id \in current(k) : proofs[id].state \in {"waiting", "lost"}

\* Every request is answered that can be, or else it is a claim that waits from
\* some time on for an answer that does not come: no end of the connection, of
\* the tunnel or of the TLS session, no refusal and no failure of a proof, in
\* any order and in any attempt, leaves it without a result.
RequestsAreAnswered ==
  \A r \in Request : expectsAnswer(r) =>
    \/ <>(answers[r] # <<>>)
    \/ r \in Call /\ <>[](AwaitsWitness(r) \/ AwaitsHost(r) \/ AwaitsProof(r))
=============================================================================
