----------------------------- MODULE HttpParser -----------------------------
(***************************************************************************)
(* makeHttpResponseParser (utils/http-parser.js): the response comes in    *)
(* pieces that are cut anywhere, and what the parser knows must not depend *)
(* on the cuts.                                                            *)
(*                                                                         *)
(* A byte is a string: a header line is its key, one byte, and a value, a  *)
(* size is one digit, and the status line is one byte.  Positions count    *)
(* from 0, as in the code.                                                 *)
(***************************************************************************)
EXTENDS Integers, SequencesExt

CONSTANT Digits  \* the digits, from that of 0

CR == "\r"
LF == "\n"
StatusLine == <<"S">>
Date == "D"
Length == "L"      \* content-length
Transfer == "T"    \* transfer-encoding: chunked

ASSUME DigitsAssumption ==
  /\ Digits \in Seq(STRING) /\ Digits # <<>> /\ IsInjective(Digits)
  /\ \A i \in DOMAIN Digits : Digits[i] \notin {CR, LF}

Digit(n) == Digits[n + 1]
Value(c) == CHOOSE n \in 0 .. Len(Digits) - 1 : Digit(n) = c

-----------------------------------------------------------------------------
(* The state of the parser and of its result.                              *)

\* "left" is remainingBodyBytes, -1 for a body that ends with the stream;
\* "headers" gives each key its value and its position.
makeHttpResponseParser ==
  [remaining |-> <<>>, currentByteIdx |-> 0, left |-> 0, isChunked |-> FALSE,
   hasStatus |-> FALSE, statusLineEndIndex |-> 0, headers |-> <<>>,
   headersComplete |-> FALSE, chunks |-> <<>>, bodyStartIndex |-> 0,
   body |-> <<>>, complete |-> FALSE, thrown |-> FALSE]

take(p, n) == [p EXCEPT !.remaining = SubSeq(@, n + 1, Len(@)),
                        !.currentByteIdx = @ + n]

LineEnds(s) == {i \in 1 .. Len(s) - 1 : s[i] = CR /\ s[i + 1] = LF}
hasLine(p) == LineEnds(p.remaining) # {}
line(p) == SubSeq(p.remaining, 1, Min(LineEnds(p.remaining)) - 1)

getLine(p) == take(p, Len(line(p)) + 2)

readBody(p) ==
  LET n == IF p.left = -1 THEN Len(p.remaining) ELSE Min({p.left, Len(p.remaining)})
  IN  IF p.complete THEN [p EXCEPT !.thrown = TRUE]
      ELSE [take(p, n) EXCEPT
              !.bodyStartIndex = IF @ = 0 THEN p.currentByteIdx ELSE @,
              !.left = IF @ = -1 THEN -1 ELSE @ - n,
              !.body = @ \o SubSeq(p.remaining, 1, n)]

\* The headers with one more, or with another value of it.
set(headers, key, h) ==
  [k \in DOMAIN headers \cup {key} |-> IF k = key THEN h ELSE headers[k]]

\* Mutant: the end of a header includes its line end.
headerWithEnd(p) ==
  LET l == line(p)
      q == getLine(p)
  IN  [q EXCEPT !.headers =
         set(@, l[1], [value |-> Tail(l), fromIndex |-> p.currentByteIdx,
                       toIndex |-> q.currentByteIdx])]

header(p) ==
  LET l == line(p)
      q == getLine(p)
  IN  [q EXCEPT !.headers =
         set(@, l[1], [value |-> Tail(l),
                       fromIndex |-> q.currentByteIdx - Len(l) - 2,
                       toIndex |-> q.currentByteIdx - 2])]

\* The empty line: how the body is read.
headersEnd(p) ==
  LET q == [getLine(p) EXCEPT !.headersComplete = TRUE]
  IN  CASE Transfer \in DOMAIN p.headers -> [q EXCEPT !.isChunked = TRUE]
        [] Transfer \notin DOMAIN p.headers /\ Length \in DOMAIN p.headers ->
             [q EXCEPT !.left = Value(p.headers[Length].value[1])]
        [] OTHER -> [q EXCEPT !.left = -1]

\* One turn of the loop over the lines until the headers are complete.
headerTurn(p) ==
  IF ~hasLine(p) \/ (p.headersComplete /\ (p.isChunked \/ p.left # -1)) THEN p
  ELSE CASE ~p.hasStatus ->
              LET q == getLine(p)
              IN  [q EXCEPT !.hasStatus = line(p) = StatusLine,
                            !.statusLineEndIndex = q.currentByteIdx - 2]
         [] p.hasStatus /\ line(p) = <<>> -> headersEnd(p)
         [] OTHER -> header(p)

\* A turn takes a line or is the last one.
readHeaders(p) ==
  LET read[n \in 0 .. Len(p.remaining)] ==
        IF n = 0 THEN p ELSE headerTurn(read[n - 1])
  IN  read[Len(p.remaining)]

\* One turn of the loop over the lines between chunks.
chunkTurn(p) ==
  IF p.thrown \/ p.left > 0 \/ ~hasLine(p) THEN p
  ELSE LET q == getLine(p)
           size == Value(line(p)[1])
       IN  CASE line(p) = <<>> -> q
             [] line(p) = <<Digit(0)>> -> [q EXCEPT !.complete = TRUE]
             [] OTHER ->
                  readBody([q EXCEPT
                    !.left = size,
                    !.chunks = Append(@, [fromIndex |-> q.currentByteIdx,
                                          toIndex |-> q.currentByteIdx + size])])

readChunks(p) ==
  LET read[n \in 0 .. Len(p.remaining)] ==
        IF n = 0 THEN p ELSE chunkTurn(read[n - 1])
  IN  read[Len(p.remaining)]

\* Mutant: a chunk that is complete completes the response.
readPieceEarly(p) ==
  LET q == IF p.left # 0 THEN readBody(p) ELSE p
      r == [q EXCEPT !.complete = @ \/ (p.left # 0 /\ q.left = 0)]
  IN  IF r.isChunked /\ ~r.thrown THEN readChunks(r) ELSE r

\* The body of onChunk when the headers are complete.
readPiece(p) ==
  LET q == IF p.left # 0 THEN readBody(p) ELSE p
      done == \/ p.left # 0 /\ q.left = 0 /\ ~q.isChunked
              \/ Length \in DOMAIN q.headers /\ q.headers[Length].value = <<Digit(0)>>
      r == [q EXCEPT !.complete = @ \/ done]
  IN  IF r.isChunked /\ ~r.thrown THEN readChunks(r) ELSE r

\* Mutant: what was left of the last piece is dropped once the headers are read.
onChunkDropping(p, data) ==
  LET q == [p EXCEPT !.remaining = IF p.headersComplete THEN data ELSE @ \o data]
      r == IF q.headersComplete THEN q ELSE readHeaders(q)
  IN  IF r.headersComplete THEN readPiece(r) ELSE r

onChunk(p, data) ==
  LET q == [p EXCEPT !.remaining = @ \o data]
      r == IF q.headersComplete THEN q ELSE readHeaders(q)
  IN  IF r.headersComplete THEN readPiece(r) ELSE r

\* Mutant: the bytes that are missing are not looked at.
streamEndedAnywhere(p) == p.headersComplete /\ p.remaining = <<>>

\* streamEnded does not throw.
streamEnded(p) == p.headersComplete /\ p.remaining = <<>> /\ p.left <= 0
=============================================================================
