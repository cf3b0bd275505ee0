---------------------------- MODULE MCWindowRpc ----------------------------
(* Instances of WindowRpc for TLC: one claim and another message.            *)
EXTENDS WindowRpc

CONSTANTS k1, r1

ToUs == [data |-> "json", module |-> "witness-sdk", isResponse |-> FALSE,
         hasId |-> TRUE, type |-> "createClaim", zkOperatorMode |-> "rpc",
         contextParses |-> TRUE, to |-> "page"]

Claims == {ToUs, [ToUs EXCEPT !.zkOperatorMode = "default"],
           [ToUs EXCEPT !.contextParses = FALSE]}

Others ==
  {[ToUs EXCEPT !.type = "benchmarkZK"], [ToUs EXCEPT !.type = "setLogLevel"],
   [ToUs EXCEPT !.type = "other"],
   [ToUs EXCEPT !.type = "setLogLevel", !.isResponse = TRUE],
   [ToUs EXCEPT !.type = "benchmarkZK", !.to = "gone"],
   [ToUs EXCEPT !.type = "other", !.data = "text"]}

MCMessages == Claims \cup Others
=============================================================================
