------------------------------ MODULE MCBeacon ------------------------------
(***************************************************************************)
(* Instances of Beacon for TLC: a hash of two words, so that the third     *)
(* witness is chosen with the first word again.                            *)
(***************************************************************************)
EXTENDS Beacon

CONSTANTS w1, w2, w3, c1, c2

MCLists == {<<w1, w2, w3>>, <<w2, w1>>}
MCClaim == {<<0, 1>>, <<2, 2>>}
MCTrusted == <<w3>>

MCHash(claim, epoch, required) ==
  [i \in 1 .. 2 |-> claim[i] + 2 * epoch + required]
=============================================================================
