--------------------------- MODULE RequestReveal ---------------------------
(***************************************************************************)
(* From the request to the claim: how createClaimOnWitness                 *)
(* (create-claim-on-witness.js) writes the request in sections, changes    *)
(* keys between them and marks the packets to reveal, and what the witness *)
(* (assert-valid-claim-request.js, claimTunnel.js) makes of the packets.   *)
(*                                                                         *)
(* The TLS library is external: a write becomes one packet, and an update  *)
(* of the keys one handshake packet under the old key.  Key 0 protects the *)
(* handshake; in TLS 1.2 it protects the data too.                         *)
(***************************************************************************)
EXTENDS HttpRequest

CONSTANTS
  Requests,   \* bytes of secret headers, parts of the body, responseMatches
  Answers,    \* responses of the host: isOk, isOld, texts
  None

ASSUME RequestAssumption ==
  \A r \in Requests :
    /\ r.secrets \in Nat \ {0} /\ r.secretsLength \in 1 .. r.secrets
    /\ r.body \in Seq([kind : {"text", "param", "secret"}, value : Seq(STRING),
                      length : Nat])
    /\ \A i \in DOMAIN r.body : r.body[i].length <= Len(r.body[i].value)
    /\ r.matches \in Seq([value : STRING, invert : BOOLEAN, group : STRING])

\* What the witness is shown of a response is part of it.
ASSUME AnswerAssumption ==
  \A a \in Answers :
    /\ a \in [isOk : BOOLEAN, isOld : BOOLEAN, texts : SUBSET STRING, shown : SUBSET STRING]
    /\ a.shown \subseteq a.texts

VARIABLES
  request,          \* params and secretParams
  tlsVersion,
  redactionMode,
  sections,         \* what is written: from and to, and whether to reveal it
  next,             \* the section to write
  key,              \* the key in use
  lastMsgRevealed,
  transcript,       \* the client's packets, with their reveals
  response,         \* the response of the host
  result,           \* the answer of the witness
  pc

vars == <<request, tlsVersion, redactionMode, sections, next, key,
          lastMsgRevealed, transcript, response, result, pc>>

data == createRequest(request).data
redactions == createRequest(request).redactions

-----------------------------------------------------------------------------
(* The sections of a request.                                               *)

Section(from, to, reveal) == [from |-> from, to |-> to, reveal |-> reveal]
Block(from, to) == IF from < to THEN <<Section(from, to, TRUE)>> ELSE <<>>

\* writeRedactedWithKeyUpdate: what is hidden and the blocks between.
sectionsOf(r) ==
  LET req == createRequest(r)
      end(i) == IF i = 0 THEN 0 ELSE req.redactions[i].toIndex
      part(i) == Block(end(i - 1), req.redactions[i].fromIndex)
                   \o <<Section(req.redactions[i].fromIndex, end(i), FALSE)>>
      n == Len(req.redactions)
  IN  FlattenSeq([i \in 1 .. n |-> part(i)]) \o Block(end(n), Len(req.data))

\* writeRedactedZk: all of it.
wholeOf(r) == <<Section(0, Len(createRequest(r).data), TRUE)>>

\* Mutant: TLS 1.2 keeps the mode that the provider asks for.
modeAsAsked(version, mode) == mode

\* TLS 1.2 has no updates of its keys.
modeOf(version, mode) == IF version = "TLS1_2" THEN "zk" ELSE mode

Packet(type, section) ==
  [type |-> type, section |-> section, key |-> key, reveal |-> "none"]

Init ==
  /\ request \in Requests
  /\ tlsVersion \in {"TLS1_2", "TLS1_3"}
  /\ \E mode \in {"zk", "key-update"} : redactionMode = modeOf(tlsVersion, mode)
  /\ sections = IF redactionMode = "zk" THEN wholeOf(request) ELSE sectionsOf(request)
  /\ next = 1
  /\ key = IF tlsVersion = "TLS1_2" THEN 0 ELSE 1
  /\ lastMsgRevealed = FALSE
  /\ transcript = <<[type |-> "handshake", section |-> 0, key |-> 0, reveal |-> "none"]>>
  /\ response = None
  /\ result = None
  /\ pc = "writing"

-----------------------------------------------------------------------------
(* The client.                                                              *)

\* Mutant: the keys are updated before a section that is revealed only.
updatesKeysToReveal(section) ==
  redactionMode = "key-update" /\ section.reveal /\ ~lastMsgRevealed

updatesKeys(section) ==
  redactionMode = "key-update" /\ section.reveal # lastMsgRevealed

\* writeWithReveal up to the write; the keys of TLS 1.2 stay.
Write ==
  /\ pc = "writing"
  /\ next <= Len(sections)
  /\ IF updatesKeys(sections[next]) /\ tlsVersion = "TLS1_3"
     THEN /\ transcript' = Append(transcript, Packet("handshake", 0))
          /\ key' = key + 1
          /\ pc' = "updated"
     ELSE /\ transcript' = Append(transcript, Packet("data", next))
          /\ pc' = "marking"
          /\ UNCHANGED key
  /\ UNCHANGED <<request, tlsVersion, redactionMode, sections, next,
                 lastMsgRevealed, response, result>>

WriteUpdated ==
  /\ pc = "updated"
  /\ transcript' = Append(transcript, Packet("data", next))
  /\ pc' = "marking"
  /\ UNCHANGED <<request, tlsVersion, redactionMode, sections, next, key,
                 lastMsgRevealed, response, result>>

setReveal(section) ==
  CASE redactionMode = "zk" -> "zk"
    [] redactionMode = "key-update" /\ section.reveal -> "complete"
    [] OTHER -> "none"

\* setRevealOfLastSentBlock, when the write is over.
Mark ==
  /\ pc = "marking"
  /\ transcript' = [transcript EXCEPT ![Len(transcript)].reveal =
                      setReveal(sections[next])]
  /\ lastMsgRevealed' = sections[next].reveal
  /\ next' = next + 1
  /\ pc' = "writing"
  /\ UNCHANGED <<request, tlsVersion, redactionMode, sections, key, response, result>>

\* An update or a write fails: the error is logged, and the response awaited.
WriteFails ==
  /\ pc \in {"writing", "updated", "marking"}
  /\ next <= Len(sections)
  /\ pc' = "written"
  /\ UNCHANGED <<request, tlsVersion, redactionMode, sections, next, key,
                 lastMsgRevealed, transcript, response, result>>

Written ==
  /\ pc = "writing"
  /\ next > Len(sections)
  /\ pc' = "written"
  /\ UNCHANGED <<request, tlsVersion, redactionMode, sections, next, key,
                 lastMsgRevealed, transcript, response, result>>

Bytes(p) == SubSeq(data, sections[p.section].from + 1, sections[p.section].to)
isApplicationData(p) == p.type = "data"

\* Mutant: only the first packet of the handshake is revealed.
isFirstHandshake(i) == i = 1

\* The client's packets up to its first application data.
isHandshake(i) == \A j \in 1 .. i : ~isApplicationData(transcript[j])

\* addServerSideReveals: the client checks the receipt itself, and reveals its
\* handshake.
AddReveals ==
  /\ pc = "written"
  /\ response' \in Answers
  /\ LET sent == SelectSeq(transcript, isApplicationData)
         msgs == [i \in 1 .. Len(sent) |-> Bytes(sent[i])]
         mark == IF redactionMode = "zk" THEN "zk" ELSE "complete"
     IN  IF assertValidProviderReceipt(msgs, response', request, TRUE)
         THEN /\ transcript' = [i \in 1 .. Len(transcript) |->
                   IF isHandshake(i) THEN [transcript[i] EXCEPT !.reveal = mark]
                                     ELSE transcript[i]]
              /\ pc' = "claiming"
         ELSE pc' = "failed" /\ UNCHANGED transcript
  /\ UNCHANGED <<request, tlsVersion, redactionMode, sections, next, key,
                 lastMsgRevealed, result>>

-----------------------------------------------------------------------------
(* The witness.                                                             *)

\* Mutant: the packets of the handshake are taken for data.
seenWithHandshake(p) ==
  IF p.reveal = "none" \/ ~isApplicationData(p) THEN <<Star>>
  ELSE SubSeq(redactSlices(data, redactions),
              sections[p.section].from + 1, sections[p.section].to)

\* decryptTranscript and extractApplicationDataFromTranscript: what a packet of
\* the client says to the witness.  A handshake packet that can be read says nothing.
seen(p) ==
  CASE p.reveal = "none" ->
         IF isApplicationData(p) THEN [i \in DOMAIN Bytes(p) |-> Star] ELSE <<Star>>
    [] p.reveal # "none" /\ ~isApplicationData(p) -> <<>>
    [] p.reveal = "complete" /\ isApplicationData(p) -> Bytes(p)
    [] p.reveal = "zk" /\ isApplicationData(p) ->
         SubSeq(redactSlices(data, redactions),
                sections[p.section].from + 1, sections[p.section].to)

view == [i \in 1 .. Len(transcript) |-> seen(transcript[i])]

\* A context is known by the parameters extracted and the hash of the provider.
info == [parameters |-> request, context |-> [extracted |-> {}, providerHash |-> None]]

getIdentifierFromClaimInfo(claim) == [parameters |-> claim.parameters, context |-> claim.context]

claimOf(newInfo) ==
  [parameters |-> newInfo.parameters, context |-> newInfo.context,
   identifier |-> getIdentifierFromClaimInfo(newInfo)]

\* The body and its parameters are not part of what is hashed.
hashProviderParams(r) == <<r.matches>>

\* A claim is something.
ASSUME NoneAssumption ==
  LET Context == [extracted : SUBSET (STRING \cup {"p"}),
                  providerHash : {None} \cup {hashProviderParams(r) : r \in Requests}]
      Info == [parameters : Requests, context : Context]
  IN  /\ None \notin Info
      /\ None \notin [parameters : Requests, context : Context, identifier : Info]

\* assertValidProviderTranscript, of a receipt that is valid.
newInfoOf(shown) ==
  LET extracted == extractedParameters(shown, request)
  IN  IF extracted = {} THEN info
      ELSE [info EXCEPT !.context = [extracted |-> extracted,
                                     providerHash |-> hashProviderParams(request)]]

\* The signature of the request and the host of its transcript are the client's.
assertValidClaimRequest(shown) ==
  IF assertValidProviderReceipt(view, shown, request, FALSE)
  THEN newInfoOf(shown) ELSE None

\* claimTunnel, once the transcripts match: the claim or an error, signed.  The
\* date of the response ages on its way, and the clocks may differ.
Claim ==
  /\ pc = "claiming"
  /\ \E isAhead \in BOOLEAN, isOld \in {TRUE, response.isOld} :
       LET shown == [response EXCEPT !.texts = response.shown, !.isOld = isOld]
           newInfo == IF isAhead THEN None ELSE assertValidClaimRequest(shown)
           claim == IF newInfo = None THEN None ELSE claimOf(newInfo)
       IN  result' = [claim |-> claim, isAhead |-> isAhead, isOld |-> isOld]
  /\ pc' = "claimed"
  /\ UNCHANGED <<request, tlsVersion, redactionMode, sections, next, key,
                 lastMsgRevealed, transcript, response>>

Next ==
  \/ Write \/ WriteUpdated \/ Mark \/ WriteFails \/ Written
  \/ AddReveals \/ Claim

Spec == Init /\ [][Next]_vars

-----------------------------------------------------------------------------
(* Properties.                                                              *)

TypeOK ==
  /\ request \in Requests
  /\ tlsVersion \in {"TLS1_2", "TLS1_3"}
  /\ redactionMode \in {"zk", "key-update"}
  /\ \A i \in DOMAIN sections :
       sections[i] \in [from : 0 .. Len(data), to : 1 .. Len(data), reveal : BOOLEAN]
  /\ next \in 1 .. Len(sections) + 1
  /\ key \in Nat
  /\ lastMsgRevealed \in BOOLEAN
  /\ \A i \in DOMAIN transcript :
       transcript[i] \in [type : {"handshake", "data"}, section : 0 .. Len(sections),
                          key : 0 .. key, reveal : {"none", "complete", "zk"}]
  /\ response \in Answers \cup {None}
  /\ pc \in {"writing", "updated", "marking", "written", "claiming", "claimed", "failed"}

isSecret(r) ==
  <<FALSE>> \o [i \in 1 .. r.secrets |-> TRUE] \o <<FALSE>>
    \o FlattenSeq([i \in 1 .. Len(r.body) |->
                     [k \in DOMAIN r.body[i].value |-> r.body[i].kind = "secret"]])

\* Its strings are as long as their bytes.
isAscii(r) ==
  /\ r.secretsLength = r.secrets
  /\ \A i \in DOMAIN r.body : r.body[i].length = Len(r.body[i].value)

wasWritten == next > Len(sections)

\* A key that is exported to reveal a packet protects no section that is hidden,
\* wherever the write stops ("update the traffic keys to not accidentally reveal
\* a packet not meant to be revealed", writeWithReveal).
HiddenKeysStaySecret ==
  \A i, j \in DOMAIN transcript :
    (/\ transcript[i].reveal = "complete"
     /\ transcript[j].type = "data"
     /\ transcript[i].key = transcript[j].key)
    => sections[transcript[j].section].reveal

\* Neither the exported keys nor the redacted plaintexts show a byte of a secret
\* header or of a secret parameter, whatever the version and the mode asked for.
\* The request is of ASCII: of others the slices fall short of the secrets.
SecretsStaySecret ==
  LET exported == {transcript[i].key : i \in {k \in DOMAIN transcript :
                                               transcript[k].reveal = "complete"}}
      shownAt(i) ==
        LET section == sections[transcript[i].section]
            at == section.from + 1 .. section.to
        IN  CASE transcript[i].key \in exported -> at
              [] transcript[i].reveal = "zk" ->
                   {k \in at : redactSlices(data, redactions)[k] # Star}
              [] OTHER -> {}
  IN  isAscii(request) =>
        \A i \in DOMAIN transcript :
          isApplicationData(transcript[i]) =>
            \A k \in shownAt(i) : ~isSecret(request)[k]

\* createRequest hides the secrets and nothing else of a request of ASCII, though
\* each parameter that it replaces moves those that follow.
RedactionsAreSecrets ==
  isAscii(request) =>
    \A k \in DOMAIN data :
      isSecret(request)[k] <=>
        \E i \in DOMAIN redactions :
          redactions[i].fromIndex < k /\ k <= redactions[i].toIndex

withoutRuns(s) ==
  LET isRepeated(n) == n > 1 /\ s[n] = Star /\ s[n - 1] = Star
      upTo[n \in 0 .. Len(s)] ==
        IF n = 0 THEN <<>>
        ELSE IF isRepeated(n) THEN upTo[n - 1] ELSE Append(upTo[n - 1], s[n])
  IN  upTo[Len(s)]

\* A request that was written whole reads at the witness as it does with its
\* secrets redacted, but for the lengths of what is redacted: the updates of the
\* keys add to the hidden runs only.
WitnessSeesRequest ==
  (pc \in {"claiming", "claimed"} /\ wasWritten) =>
    withoutRuns(FlattenSeq(view)) = withoutRuns(redactSlices(data, redactions))

isHonest(bodyOK) ==
  /\ result # None
  /\ wasWritten
  /\ ~result.isAhead /\ ~result.isOld
  /\ bodyOK
  /\ \A i \in DOMAIN request.matches :
       request.matches[i].value \in response.texts \ response.shown
         => request.matches[i].invert

\* The witness accepts what the client accepted before it asked: a request that
\* was written whole, with no secret in its body, a response that shows what has
\* to match, and a date that is near.
HonestClaimIsAccepted ==
  isHonest(hasValues(request.body, FALSE)) => result.claim # None

\* The same, with secrets in the body.
HonestSecretBodyIsAccepted == isHonest(TRUE) => result.claim # None

\* Stars alone may match: a body that is not compared, starts with a star or
\* starts as a template does.
mayBeStars(body) ==
  \/ body = <<>>
  \/ body[1] = Star
  \/ Len(body) > 1 /\ body[1] = Open /\ body[2] = Open

\* A claim about a body is given only when all of the request went out, though
\* the client goes on to claim when its write fails: what is hidden of a request
\* that stops short is not taken for its body.
ClaimedBodyWasSent ==
  (/\ result # None /\ result.claim # None
   /\ ~mayBeStars(extractAndReplaceTemplateValues(request.body).newParam))
  => 1 .. Len(sections) \subseteq {transcript[i].section : i \in DOMAIN transcript}

templateOf(part) == IF part.kind = "secret" THEN Braces ELSE part.value

template(body) == FlattenSeq([i \in 1 .. Len(body) |-> templateOf(body[i])])

\* Which bytes of the template stand for a secret.
inSecret(body) ==
  FlattenSeq([i \in 1 .. Len(body) |->
                [k \in 1 .. Len(templateOf(body[i])) |-> body[i].kind = "secret"]])

\* Where two braces open, as a template does.
opens(s) == {i \in 1 .. Len(s) - 1 : s[i] = Open /\ s[i + 1] = Open}

redactedBody(r) ==
  LET req == createRequest(r)
      whole == redactSlices(req.data, req.redactions)
  IN  SubSeq(whole, Len(headerStr(r)) + 1, Len(whole))

\* The string is cut into the parts: a secret is one star or more.
hasParts(body, s) ==
  \E cut \in [0 .. Len(body) -> 0 .. Len(s)] :
    /\ cut[0] = 0 /\ cut[Len(body)] = Len(s)
    /\ \A i \in DOMAIN body :
         LET part == SubSeq(s, cut[i - 1] + 1, cut[i])
         IN  /\ cut[i - 1] <= cut[i]
             /\ IF body[i].kind = "secret"
                THEN part # <<>> /\ \A k \in DOMAIN part : part[k] = Star
                ELSE part = body[i].value

\* No secret is empty or next to another one or to a star, and nothing but a
\* secret opens as a template does.
isPlain(body) ==
  /\ \A i \in DOMAIN body : body[i].kind = "secret" =>
       /\ body[i].value # <<>>
       /\ i < Len(body) => /\ body[i + 1].kind # "secret"
                           /\ body[i + 1].value # <<>>
                           /\ body[i + 1].value[1] # Star
  /\ \A i \in opens(template(body)) : inSecret(body)[i]

\* matchRedactedStrings matches a template with what is redacted of a body as its
\* comment says, a body of its own or another's ("Try to match strings that contain
\* templates like {{param}} against redacted string that has *** instead").
MatchesAsDocumented ==
  (pc = "writing" /\ next = 1 /\ isPlain(request.body)) =>
    \A r \in Requests : opens(redactedBody(r)) = {} =>
      (matchRedactedStrings(template(request.body), redactedBody(r))
         <=> hasParts(request.body, redactedBody(r)))
=============================================================================
