------------------------------ MODULE Promise ------------------------------
(* What the caller of an asynchronous function relies on: its promise       *)
(* settles, once.                                                           *)

VARIABLE promise

Init == promise = "pending"

Resolve == promise = "pending" /\ promise' = "resolved"

Reject == promise = "pending" /\ promise' = "rejected"

Next == Resolve \/ Reject

Safety == Init /\ [][Next]_promise

Spec == Safety /\ WF_promise(Next)
=============================================================================
