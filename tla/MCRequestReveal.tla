-------------------------- MODULE MCRequestReveal --------------------------
(***************************************************************************)
(* Instances of RequestReveal for TLC: one or two bytes of secret headers, *)
(* bodies of up to three parts, a match on what is shown or hidden; one    *)
(* character of two bytes in the headers, in a text or in a parameter.     *)
(***************************************************************************)
EXTENDS RequestReveal

Part(kind, value) == [kind |-> kind, value |-> value, length |-> Len(value)]

\* The last character has two bytes.
Accented(part) == [part EXCEPT !.value = Append(@, "c")]

Text == Part("text", <<"t">>)
LongText == Part("text", <<"t", "u">>)
Param == Part("param", <<"v">>)
Hidden == Part("secret", <<Secret>>)
LongHidden == Part("secret", <<Secret, Secret>>)

Bodies == {
  <<>>, <<Text>>, <<LongText>>, <<Param>>, <<Text, Param, LongText>>,
  <<Hidden>>, <<LongHidden, Text>>, <<Text, LongHidden>>,
  <<Param, Hidden, Text>>, <<Hidden, Text, LongHidden>>, <<Param, LongHidden, Param>>,
  <<LongHidden, Hidden>>, <<Hidden, Part("param", <<>>), Text>>,
  <<Part("param", <<>>)>>, <<Part("text", <<Star>>)>>, <<Part("param", <<Open>>), Text>>,
  <<Part("param", Braces)>>,
  <<Accented(Text)>>, <<Accented(Text), LongHidden, Text>>,
  <<Accented(Param), Hidden>>, <<Accented(LongHidden), Param>>}

Match(value, invert, group) == [value |-> value, invert |-> invert, group |-> group]
Matches == {
  <<Match("name", FALSE, "")>>, <<Match("name", FALSE, "p")>>,
  <<Match("name", TRUE, "")>>,
  <<Match("name", FALSE, "q"), Match("other", TRUE, "")>>}

MCRequests ==
  {r \in [secrets : {1, 2}, secretsLength : {1, 2}, body : Bodies, matches : Matches] :
     r.secretsLength <= r.secrets}

MCAnswers ==
  {a \in [isOk : BOOLEAN, isOld : BOOLEAN, texts : SUBSET {"name", "other"},
          shown : SUBSET {"name"}] : a.shown \subseteq a.texts}
=============================================================================
