---------------------------- MODULE HttpResponse ----------------------------
(***************************************************************************)
(* A response as the client of a claim handles it: it is parsed piece by   *)
(* piece to learn when it is over (create-claim-on-witness.js), and then   *)
(* as a whole to decide what the witness may see (getResponseRedactions of *)
(* providers/http/index.js).                                               *)
(*                                                                         *)
(* The XPath, JSON path and regular expression of a rule are external: a   *)
(* rule is the part of the body that they select.                          *)
(***************************************************************************)
EXTENDS HttpParser

CONSTANTS
  Responses,  \* what hosts send: header lines, framing, body and chunk sizes
  Rules       \* responseRedactions: from and length of what is selected

Framing == {"length", "chunked", "close"}

\* The bytes of the body before chunk i.
SizesBefore(r) ==
  LET before[i \in 1 .. Len(r.sizes) + 1] ==
        IF i = 1 THEN 0 ELSE before[i - 1] + r.sizes[i - 1]
  IN  before

\* A host names a header once, and a chunk that is empty ends the response.
ASSUME ResponseAssumption ==
  /\ \A r \in Responses :
       /\ r \in [head : Seq(STRING), framing : Framing, body : Seq(STRING),
                 sizes : Seq(Nat \ {0})]
       /\ IsInjective(r.head)
       /\ \A i \in DOMAIN r.head : r.head[i] \notin {CR, LF, Length, Transfer}
       /\ r.framing = "length" => Len(r.body) < Len(Digits)
       /\ r.framing = "chunked" =>
            /\ SizesBefore(r)[Len(r.sizes) + 1] = Len(r.body)
            /\ \A i \in DOMAIN r.sizes : r.sizes[i] < Len(Digits)
  /\ Rules \subseteq Seq([from : Nat, length : Nat])

VARIABLES
  response,    \* what the host sends
  message,     \* its bytes
  received,    \* how many of its bytes have arrived
  parser,      \* resParser
  notified,    \* endedHttpRequest was called for a complete response
  rules,       \* responseRedactions, once they have been applied
  redactions,  \* what getResponseRedactions returned
  pc

vars == <<response, message, received, parser, notified, rules, redactions, pc>>

-----------------------------------------------------------------------------
(* What a host sends; each byte knows what it is part of, and its number in *)
(* the body if it is part of that.                                          *)

Part(s, part, before) ==
  [i \in 1 .. Len(s) |-> [byte |-> s[i], part |-> part, nth |-> before + i]]
Line(s, part) == Part(s, part, 0) \o Part(<<CR, LF>>, "frame", 0)

Top(r) ==
  LET framing == CASE r.framing = "length" -> Line(<<Length, Digit(Len(r.body))>>, "frame")
                   [] r.framing = "chunked" -> Line(<<Transfer>>, "frame")
                   [] OTHER -> <<>>
      lines == [i \in 1 .. Len(r.head) |->
                  Line(<<r.head[i]>>, IF r.head[i] = Date THEN "date" ELSE "header")]
  IN  Line(StatusLine, "status") \o FlattenSeq(lines) \o framing \o Line(<<>>, "frame")

ChunkOf(r, i) ==
  LET before == SizesBefore(r)[i]
  IN  Line(<<Digit(r.sizes[i])>>, "frame")
        \o Part(SubSeq(r.body, before + 1, before + r.sizes[i]), "body", before)
        \o Line(<<>>, "frame")

Message(r) ==
  Top(r) \o IF r.framing = "chunked"
             THEN FlattenSeq([i \in 1 .. Len(r.sizes) |-> ChunkOf(r, i)])
                    \o Line(<<Digit(0)>>, "frame") \o Line(<<>>, "frame")
             ELSE Part(r.body, "body", 0)

BytesOf(m) == [i \in 1 .. Len(m) |-> m[i].byte]

PositionsOf(part) == {i \in 0 .. Len(message) - 1 : message[i + 1].part = part}

-----------------------------------------------------------------------------
(* getResponseRedactions.                                                   *)

\* Mutant: the chunks are forgotten.
convertWithoutChunks(p, pos) == p.bodyStartIndex + pos

convertResponsePosToAbsolutePos(p, pos) ==
  LET size(i) == p.chunks[i].toIndex - p.chunks[i].fromIndex
      start[i \in 1 .. Len(p.chunks)] ==
        IF i = 1 THEN 0 ELSE start[i - 1] + size(i - 1)
      i == Min({j \in DOMAIN start : start[j] <= pos /\ pos <= start[j] + size(j)})
  IN  IF p.chunks = <<>> THEN p.bodyStartIndex + pos
      ELSE pos - start[i] + p.chunks[i].fromIndex

Slice(from, to) == [fromIndex |-> from, toIndex |-> to]

reveals(p, rs) ==
  LET slice(r) == IF r.length = 0 THEN <<>>
                  ELSE <<Slice(convertResponsePosToAbsolutePos(p, r.from),
                               convertResponsePosToAbsolutePos(p, r.from + r.length))>>
      date == IF Date \in DOMAIN p.headers
              THEN <<Slice(p.headers[Date].fromIndex, p.headers[Date].toIndex)>> ELSE <<>>
  IN  <<Slice(0, p.statusLineEndIndex)>> \o date
        \o FlattenSeq([i \in 1 .. Len(rs) |-> slice(rs[i])])

\* reveals.sort by toIndex, which keeps the order of equal ones.
sorted(slices) ==
  LET before(i, j) == \/ slices[i].toIndex < slices[j].toIndex
                      \/ slices[i].toIndex = slices[j].toIndex /\ i < j
      place(i) == Cardinality({j \in DOMAIN slices : before(j, i)}) + 1
  IN  [k \in DOMAIN slices |-> slices[CHOOSE i \in DOMAIN slices : place(i) = k]]

\* The gap before slice i: currentIndex is the end of the slice before it.
gapBefore(slices, i) ==
  LET currentIndex == IF i = 1 THEN 0 ELSE slices[i - 1].toIndex
  IN  IF currentIndex < slices[i].fromIndex
      THEN <<Slice(currentIndex, slices[i].fromIndex)>> ELSE <<>>

gapsBefore(slices) == FlattenSeq([i \in 1 .. Len(slices) |-> gapBefore(slices, i)])

\* Mutant: what follows the last slice is not redacted.
gapsWithoutLast(slices, length) ==
  IF Len(slices) <= 1 THEN <<>> ELSE gapsBefore(sorted(slices))

\* What lies between the slices to reveal.
gaps(slices, length) ==
  LET all == sorted(slices)
  IN  IF Len(slices) <= 1 THEN <<>>
      ELSE gapsBefore(all) \o <<Slice(all[Len(all)].toIndex, length)>>

parseHttpResponse(bytes) == onChunk(makeHttpResponseParser, bytes)
isParsed(p) == ~p.thrown /\ streamEnded(p)

\* There is a body, and what each rule selects is in it.
isSelected(p, rs) ==
  rs # <<>> => /\ p.bodyStartIndex >= 4
               /\ \A i \in DOMAIN rs : rs[i].from + rs[i].length <= Len(p.body)

\* p is the parsed response, of which nothing remains.
getResponseRedactions(p, rs) ==
  IF rs = <<>> THEN <<>> ELSE gaps(reveals(p, rs), p.currentByteIdx)

-----------------------------------------------------------------------------
Init ==
  /\ response \in Responses
  /\ message = Message(response)
  /\ received = 0
  /\ parser = makeHttpResponseParser
  /\ notified = FALSE
  /\ rules = <<>>
  /\ redactions = <<>>
  /\ pc = "receiving"

\* onMessage of the TLS tunnel.
Receive ==
  /\ pc = "receiving" /\ ~parser.thrown
  /\ \E n \in received + 1 .. Len(message) :
       LET p == onChunk(parser, SubSeq(BytesOf(message), received + 1, n))
       IN  /\ parser' = p
           /\ received' = n
           /\ notified' = (notified \/ (p.complete /\ ~p.thrown))
  /\ UNCHANGED <<response, message, rules, redactions, pc>>

\* onClose, or the timer after a complete response: the claim goes on with
\* what was received, and addServerSideReveals asks for the redactions of it.
Finish ==
  /\ pc = "receiving"
  /\ LET p == parseHttpResponse(SubSeq(BytesOf(message), 1, received))
     IN  \/ /\ isParsed(p)
            /\ \E rs \in Rules :
                 /\ isSelected(p, rs)
                 /\ rules' = rs
                 /\ redactions' = getResponseRedactions(p, rs)
                 /\ pc' = "revealed"
         \/ /\ isParsed(p) => \E rs \in Rules : ~isSelected(p, rs)
            /\ UNCHANGED <<rules, redactions>>
            /\ pc' = "failed"
  /\ UNCHANGED <<response, message, received, parser, notified>>

Next == Receive \/ Finish

Spec == Init /\ [][Next]_vars

-----------------------------------------------------------------------------
TypeOK ==
  /\ response \in Responses /\ rules \in Rules \cup {<<>>}
  /\ received \in 0 .. Len(message)
  /\ parser.currentByteIdx + Len(parser.remaining) = received
  /\ notified \in BOOLEAN
  /\ redactions \in Seq([fromIndex : Nat, toIndex : Nat])
  /\ pc \in {"receiving", "revealed", "failed"}

\* Of a body that ends with the stream the parser takes for headers the lines
\* that come with the end of the headers (http-parser.js:39-92), so that what it
\* knows depends on the cuts.  A stream is plain if it has no such line.
hasPlainStream(r) == r.framing = "close" => LineEnds(r.body) = {}

\* The body arrives in order, and the claim goes on when the last byte is there
\* and not before: the parser implements ResponseReader, of which a stream that
\* is not plain is an empty body.
ofPlainStream(s) == IF hasPlainStream(response) THEN s ELSE <<>>

Reader == INSTANCE ResponseReader
            WITH whole <- ofPlainStream(response.body),
                 got <- ofPlainStream(parser.body),
                 complete <- notified

ReadsInOrder == Reader!Spec

\* However a response is cut, the parser knows what it would know if it had got
\* the same bytes at once, unless a body that ends with the stream has a line.
CutsDoNotMatter ==
  hasPlainStream(response) =>
    parser = onChunk(makeHttpResponseParser, SubSeq(BytesOf(message), 1, received))

\* Chunks, the date and the status line are where the host put them: redactions
\* computed from these positions are about the bytes that they name.
Positions(slices) ==
  UNION {slices[i].fromIndex .. slices[i].toIndex - 1 : i \in DOMAIN slices}

PositionsAreTrue ==
  received = Len(message) /\ hasPlainStream(response) =>
    /\ 0 .. parser.statusLineEndIndex - 1 = PositionsOf("status")
    /\ response.framing = "chunked" => Positions(parser.chunks) = PositionsOf("body")
    /\ response.framing # "chunked" /\ response.body # <<>> =>
         /\ parser.bodyStartIndex \in PositionsOf("body")
         /\ message[parser.bodyStartIndex + 1].nth = 1
    /\ Date \in DOMAIN parser.headers =>
         Positions(<<parser.headers[Date]>>) = PositionsOf("date")

\* A response with a content-length that ended early is not claimed.
EndsWithItsLength ==
  pc = "revealed" /\ response.framing = "length" => received = Len(message)

Seen == (0 .. received - 1) \ Positions(redactions)

Selected(r) ==
  {i \in PositionsOf("body") : message[i + 1].nth \in r.from + 1 .. r.from + r.length}

SelectsSomething == \E i \in DOMAIN rules : rules[i].length > 0

\* The witness sees no header but the date, and of the body only what a rule
\* selects, in whatever chunks it came.
HidesTheRest ==
  pc = "revealed" /\ SelectsSomething /\ hasPlainStream(response) =>
    /\ Seen \cap PositionsOf("header") = {}
    /\ Seen \cap PositionsOf("body") \subseteq
         UNION {Selected(rules[i]) : i \in DOMAIN rules}

\* No rule selects a part of what another one selects, from its middle.
NotNested ==
  \A i, j \in DOMAIN rules : rules[i].from < rules[j].from /\ rules[j].length > 0 =>
    rules[i].from + rules[i].length < rules[j].from + rules[j].length

\* It sees the status line, the date and all that the rules select.
RevealsSelected ==
  pc = "revealed" /\ NotNested /\ hasPlainStream(response) =>
    PositionsOf("status") \cup (PositionsOf("date") \cap 0 .. received - 1)
      \cup UNION {Selected(rules[i]) : i \in DOMAIN rules} \subseteq Seen

\* The slices are in order and within the response, as getBlocksToReveal needs
\* them (BlocksToReveal!InOrder).
SlicesInOrder ==
  \A i \in DOMAIN redactions :
    /\ redactions[i].fromIndex <= redactions[i].toIndex
    /\ redactions[i].toIndex <= received
    /\ \A j \in 1 .. i - 1 : redactions[j].toIndex <= redactions[i].fromIndex

(* What the repository says of this code and the code does not do.          *)

\* http-parser.js:124: streamEnded checks that the response is complete.
EndIsComplete ==
  pc = "revealed" => parser.body = response.body

\* http-parser.js:61: a body without length and chunks lasts until the end of
\* the stream, whatever is in it; nor do CutsDoNotMatter, PositionsAreTrue,
\* HidesTheRest and RevealsSelected hold of one that has a line.
StreamIsBody ==
  response.framing = "close" /\ parser.headersComplete =>
    parser.body = SubSeq(response.body, 1, Len(parser.body))

\* providers.gen.d.ts:56: the selected portions are sent to the witness.
RevealsNested ==
  pc = "revealed" => UNION {Selected(rules[i]) : i \in DOMAIN rules} \subseteq Seen
=============================================================================
