---------------------------- MODULE MCClaimFlow ----------------------------
(* Instances of ClaimFlow for TLC.                                           *)
EXTENDS ClaimFlow, TLC

CONSTANTS k1, k2

Calls == Permutations(Call)
=============================================================================
