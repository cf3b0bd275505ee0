-------------------------- MODULE MCBlocksToReveal --------------------------
(* Instances of BlocksToReveal for TLC.                                      *)
EXTENDS BlocksToReveal, FiniteSetsExt, SequencesExt

CONSTANTS MaxBlocks, MaxLen, MaxSlices

Lengths == UNION {[1 .. n -> 0 .. MaxLen] : n \in 1 .. MaxBlocks}

LayoutOf(lengths, stars) ==
  [len |-> lengths,
   stars |-> stars,
   off |-> [b \in 1 .. Len(lengths) + 1 |->
              FoldLeft(+, 0, SubSeq(lengths, 1, b - 1))]]

\* At most one byte is a star.
AllLayouts ==
  {LayoutOf(lengths, stars) : lengths \in Lengths, stars \in {{}, {<<1, 0>>}, {<<2, 1>>}}}

Slice == [fromIndex : 0 .. MaxBlocks * MaxLen, toIndex : 0 .. MaxBlocks * MaxLen]

AllRedactions ==
  {slices \in UNION {[1 .. n -> Slice] : n \in 0 .. MaxSlices} : InOrder(slices)}
=============================================================================
