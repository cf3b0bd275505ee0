--------------------------- MODULE MCHttpResponse ---------------------------
(* Instances of HttpResponse for TLC.                                        *)
EXTENDS HttpResponse

FiveDigits == <<"0", "1", "2", "3", "4">>

Headers == {<<>>, <<"H", Date>>, <<Date, "H">>}

\* Bodies with a line end, with half of one, and with what looks like a size.
Bodies == {<<"x">>, <<"x", "y", "z">>, <<CR, LF, "x">>, <<"x", CR, LF>>,
           <<"x", CR>>, <<"1", CR, LF, "x">>}

Sizes(n) == {s \in UNION {[1 .. k -> 1 .. n] : k \in 1 .. n} : SizesBefore([sizes |-> s])[Len(s) + 1] = n}

Of(framing, bodies, sizes(_)) ==
  UNION {[head : Headers, framing : {framing}, body : {b}, sizes : sizes(Len(b))] :
         b \in bodies}

Whole(n) == {<<>>}

AllResponses ==
  Of("length", Bodies \cup {<<>>}, Whole)
    \cup Of("chunked", Bodies, Sizes)
    \cup Of("close", {<<"x">>, <<"x", "y", CR>>, <<"x", CR, LF>>, <<"x", CR, LF, "y">>, <<CR, LF, "x">>}, Whole)

Rule == {r \in [from : 0 .. 2, length : 0 .. 3] : r.from + r.length <= 3}

\* No rule, one or two of them.
AllRules ==
  LET short == {r \in Rule : r.length \in 1 .. 2}
  IN  {<<>>} \cup {<<r>> : r \in Rule} \cup {<<r, s>> : r, s \in short}
=============================================================================
