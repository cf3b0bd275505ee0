---------------------------- MODULE HttpRequest ----------------------------
(***************************************************************************)
(* The request of the HTTP provider (providers/http): how it is made of    *)
(* templates and secrets, which slices of it are hidden, and how the       *)
(* witness reads what it is shown of it.                                   *)
(*                                                                         *)
(* A byte is a string.  The request line with the public headers is one    *)
(* byte, Top, and the empty line that ends the headers another, Blank.  A  *)
(* body is a sequence of parts: text, a public parameter or a secret one,  *)
(* with the bytes of its value and the length of it, which is that of a    *)
(* string: a character beyond ASCII has more bytes than it counts there.   *)
(***************************************************************************)
EXTENDS Integers, SequencesExt

Star == "*"
Open == "{"
Close == "}"
Braces == <<Open, Open, "p", Close, Close>>
Top == "h"
Blank == "e"
Secret == "s"

Slice(from, to) == [fromIndex |-> from, toIndex |-> to]

-----------------------------------------------------------------------------
(* The templates.                                                           *)

\* param.replace: "offset" is the position of a template in the original,
\* "totalOffset" how much the earlier replacements have moved it.  Both count as
\* strings do, and so does what is noted of a secret.
extractAndReplaceTemplateValues(parts) ==
  LET step(acc, part) ==
        IF part.kind = "text"
        THEN [acc EXCEPT !.newParam = @ \o part.value, !.offset = @ + part.length]
        ELSE [acc EXCEPT
                !.newParam = @ \o part.value,
                !.hiddenParts = IF part.kind = "param" THEN @
                                ELSE Append(@, [index |-> acc.offset + acc.totalOffset,
                                                length |-> part.length]),
                !.totalOffset = @ + part.length - Len(Braces),
                !.offset = @ + Len(Braces)]
      upTo[n \in 0 .. Len(parts)] ==
        IF n = 0 THEN [newParam |-> <<>>, hiddenParts |-> <<>>, offset |-> 0, totalOffset |-> 0]
        ELSE step(upTo[n - 1], parts[n])
  IN  upTo[Len(parts)]

\* A secret whose value is not known is an error.
hasValues(parts, secretParams) ==
  secretParams \/ \A i \in DOMAIN parts : parts[i].kind # "secret"

-----------------------------------------------------------------------------
(* createRequest, of r.secrets bytes of secret headers, a string of        *)
(* r.secretsLength, and a body.  Some header is secret, and the headers    *)
(* before do not hold the same bytes: the slice starts where they are.     *)

\* buildHeaders, of the secret headers.
secHeadersStr(r) == [i \in 1 .. r.secrets |-> Secret]

headerStr(r) == <<Top>> \o secHeadersStr(r) \o <<Blank>>

\* The slices are of bytes, but end and start at lengths of strings.
createRequest(r) ==
  LET body == extractAndReplaceTemplateValues(r.body)
      at == Len(headerStr(r))
      upTo[n \in 0 .. Len(body.hiddenParts)] ==
        IF n = 0 THEN <<Slice(1, 1 + r.secretsLength)>>
        ELSE LET part == body.hiddenParts[n]
             IN  IF part.length = 0 THEN upTo[n - 1]
                 ELSE Append(upTo[n - 1], Slice(at + part.index, at + part.index + part.length))
  IN  [data |-> headerStr(r) \o body.newParam, redactions |-> upTo[Len(body.hiddenParts)]]

redactSlices(data, slices) ==
  [i \in 1 .. Len(data) |->
     IF \E k \in DOMAIN slices : slices[k].fromIndex < i /\ i <= slices[k].toIndex
     THEN Star ELSE data[i]]

-----------------------------------------------------------------------------
(* What is read of the transcript.                                          *)

\* Mutant: a string that ends early matches.
matchBeginning(t, r) ==
  LET ends == {j \in DOMAIN r : r[j] = Star}
  IN  Len(r) <= Len(t) /\ (ends # {} \/ \A j \in DOMAIN r : r[j] = t[j])

\* Mutant: stars are not followed to their end.
matchOneStar(t, r) ==
  LET closes(i) == {k \in i + 2 .. Len(t) : t[k] = Close}
      second(i) == Min(closes(i) \ {Min(closes(i))})
      m[i \in 1 .. Len(t) + 1, j \in 1 .. Len(r) + 1] ==
        CASE i > Len(t) \/ j > Len(r) -> i > Len(t) /\ j > Len(r)
          [] i <= Len(t) /\ j <= Len(r) /\ t[i] = r[j] -> m[i + 1, j + 1]
          [] OTHER -> /\ t[i] = Open /\ r[j] = Star
                      /\ i < Len(t) /\ t[i + 1] = Open
                      /\ Cardinality(closes(i)) > 1
                      /\ m[second(i) + 1, j + 1]
  IN  m[1, 1]

\* The cursors ts and rs, in each turn at the next characters of the template and
\* of the redacted string; they stay when the strings do not match.
matchRedactedStrings(t, r) ==
  LET closes(i) == {k \in i + 2 .. Len(t) : t[k] = Close}
      second(i) == Min(closes(i) \ {Min(closes(i))})
      starsEnd(j) == Min({k \in j + 1 .. Len(r) : r[k] # Star} \cup {Len(r) + 1})
      isTemplate(i) == /\ t[i] = Open /\ i < Len(t) /\ t[i + 1] = Open
                       /\ Cardinality(closes(i)) > 1
      turn(at) ==
        CASE at.ts > Len(t) \/ at.rs > Len(r) -> at
          [] at.ts <= Len(t) /\ at.rs <= Len(r) /\ t[at.ts] = r[at.rs] ->
               [ts |-> at.ts + 1, rs |-> at.rs + 1]
          [] OTHER -> IF isTemplate(at.ts) /\ r[at.rs] = Star
                      THEN [ts |-> second(at.ts) + 1, rs |-> starsEnd(at.rs)] ELSE at
      upTo[n \in 0 .. Len(t)] == IF n = 0 THEN [ts |-> 1, rs |-> 1] ELSE turn(upTo[n - 1])
  IN  upTo[Len(t)] = [ts |-> Len(t) + 1, rs |-> Len(r) + 1]

\* The client's messages, in one.  The method, the URL, the host and the
\* connection are in the first byte; what follows the headers is the body, or
\* what is left of them if they do not end.
getHttpRequestDataFromTranscript(msgs) ==
  LET buffer == FlattenSeq(msgs)
      ends == {i \in DOMAIN buffer : buffer[i] = Blank}
      from == IF ends = {} THEN 2 ELSE Min(ends) + 1
  IN  [isValid |-> msgs # <<>> /\ buffer # <<>> /\ buffer[1] = Top,
       body |-> SubSeq(buffer, from, Len(buffer))]

\* The response is known by its status, the age of its date and the strings the
\* witness can see; a match may name a parameter that it extracts.
matched(response, match) == match.value \in response.texts

bodyParameters(r) ==
  IF \E i \in DOMAIN r.body : r.body[i].kind = "param" THEN {"p"} ELSE {}

groups(response, matches) ==
  {matches[i].group : i \in {k \in DOMAIN matches : matched(response, matches[k])}}
    \ {""}

extractedParameters(response, r) == bodyParameters(r) \cup groups(response, r.matches)

\* No match fails, and none extracts a parameter that there is already.
matchesResponse(response, r) ==
  /\ response.isOk /\ ~response.isOld
  /\ \A i \in DOMAIN r.matches :
       LET match == r.matches[i]
           earlier == SubSeq(r.matches, 1, i - 1)
       IN  /\ matched(response, match) # match.invert
           /\ matched(response, match) =>
                match.group \notin bodyParameters(r) \cup groups(response, earlier)

\* It does not throw.
assertValidProviderReceipt(msgs, response, r, secretParams) ==
  LET req == getHttpRequestDataFromTranscript(msgs)
      body == extractAndReplaceTemplateValues(r.body).newParam
  IN  /\ hasValues(r.body, secretParams)
      /\ req.isValid
      /\ body # <<>> => matchRedactedStrings(body, req.body)
      /\ matchesResponse(response, r)
=============================================================================
