--------------------------- MODULE ResponseReader ---------------------------
(* What createClaimOnWitness relies on while a response arrives: its body   *)
(* comes in order, and it is said to be complete once, when all is there.   *)
EXTENDS Naturals, Sequences

VARIABLES
  whole,     \* the body that the host sends
  got,       \* what has been read of it
  complete

IsLonger(s, t) == Len(s) <= Len(t) /\ SubSeq(t, 1, Len(s)) = s

Init == got = <<>> /\ complete = FALSE

Read ==
  /\ ~complete
  /\ IsLonger(got, got')
  /\ IsLonger(got', whole)
  /\ complete' => got' = whole
  /\ UNCHANGED whole

Spec == Init /\ [][Read]_<<whole, got, complete>>
=============================================================================
