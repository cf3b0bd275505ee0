----------------------- MODULE BlocksToReveal_proofs -----------------------
(* Theorems of BlocksToReveal, for every response and every redactions.      *)
EXTENDS BlocksToReveal, SequenceTheorems, TLAPS

\* The facts about the blocks and the slices that the steps use.
Data ==
  /\ layout.len \in Seq(Nat)
  /\ layout.off \in [1 .. Len(layout.len) + 1 -> Nat]
  /\ layout.off[1] = 0
  /\ \A b \in Blocks : layout.off[b + 1] = layout.off[b] + layout.len[b]
  /\ \A b, c \in 1 .. Len(layout.len) + 1 : b < c => layout.off[b] + layout.len[b] <= layout.off[c]
  /\ redactions \in Seq([fromIndex : Nat, toIndex : Nat])
  /\ InOrder(redactions)

LEMMA DataHolds ==
  ASSUME layout \in Layouts, redactions \in Redactions
  PROVE  Data
BY BlocksAssumption DEF Data, IsLayout, Blocks

-----------------------------------------------------------------------------
(* The types.                                                               *)

\* Advancing within the blocks keeps the cursors in their ranges.
LEMMA AdvanceTypes ==
  ASSUME TypeOK, Data, blockIdx \in Blocks, advance
  PROVE  /\ blockIdx' \in 1 .. Len(layout.len) + 1
         /\ cursorInBlock' \in Nat
         /\ cursor' \in Nat
<1> USE DEF TypeOK, Data, Blocks, advance
<1>1. cursor' \in Nat
  OBVIOUS
<1>2. CASE cursorInBlock + 1 >= layout.len[blockIdx]
  BY <1>1, <1>2
<1>3. CASE ~(cursorInBlock + 1 >= layout.len[blockIdx])
  BY <1>1, <1>3
<1> QED BY <1>2, <1>3

LEMMA InitTypes == Init => TypeOK
<1> SUFFICES ASSUME Init PROVE TypeOK
  OBVIOUS
<1>1. Data
  BY DataHolds DEF Init
<1>2. next \in 1 .. Len(redactions) + 1 /\ blockIdx \in 1 .. Len(layout.len) + 1
  BY <1>1 DEF Init, Data
<1> QED BY <1>2 DEF Init, TypeOK

\* Every reachable state of getBlocksToReveal is well typed.
THEOREM TypeCorrect == Spec => []TypeOK
<1>1. Init => TypeOK
  BY InitTypes
<1>2. TypeOK /\ [Next]_vars => TypeOK'
  <2> SUFFICES ASSUME TypeOK, [Next]_vars PROVE TypeOK'
    OBVIOUS
  <2>1. Data
    BY DataHolds DEF TypeOK
  <2>2. CASE Skip
    <3>1. /\ blockIdx \in Blocks /\ advance
          /\ UNCHANGED <<layout, redactions, next, redacted, revealed, pc>>
      BY <2>2 DEF Skip, Working
    <3> QED BY <3>1, <2>1, AdvanceTypes DEF TypeOK, Bytes, Blocks
  <2>3. CASE Redact
    <3>1. /\ blockIdx \in Blocks /\ advance
          /\ UNCHANGED <<layout, redactions, next, revealed, pc>>
      BY <2>3 DEF Redact, Working
    <3>2. redacted' \subseteq Bytes
      BY <2>3 DEF Redact, TypeOK
    <3>3. Bytes' = Bytes /\ Blocks' = Blocks
      BY <3>1 DEF Bytes, Blocks
    <3> QED BY <3>1, <3>2, <3>3, <2>1, AdvanceTypes DEF TypeOK
  <2>4. CASE Throw
    BY <2>4 DEF Throw, TypeOK, Bytes, Blocks
  <2>5. CASE NextSlice
    <3>1. next' \in 1 .. Len(redactions) + 1
      BY <2>5, <2>1 DEF NextSlice, TypeOK, Data
    <3> QED BY <2>5, <3>1 DEF NextSlice, TypeOK, Bytes, Blocks
  <2>6. CASE Return
    BY <2>6 DEF Return, TypeOK, Bytes, Blocks
  <2>7. CASE UNCHANGED vars
    BY <2>7 DEF vars, TypeOK, Bytes, Blocks
  <2> QED BY <2>2, <2>3, <2>4, <2>5, <2>6, <2>7 DEF Next
<1> QED BY <1>1, <1>2, PTL DEF Spec

-----------------------------------------------------------------------------
(* The loop invariant.                                                      *)

Pos(byte) == layout.off[byte[1]] + byte[2]

\* The slices before the next one are done with.
Passed == \A r \in 1 .. next - 1 : redactions[r].toIndex <= cursor

\* What is redacted is what is asked for, up to the cursor.
RedactedSoFar == redacted = {byte \in Bytes : Pos(byte) < cursor /\ Asked(byte)}

\* While slices are left the cursor has not gone beyond the next one.
NotBeyond ==
  \A r \in next .. Len(redactions) : cursor <= redactions[r].toIndex

Threw == pc = "error" => ~Within

Ended == pc = "done" => next > Len(redactions)

LoopInv == CursorsAgree /\ Passed /\ RedactedSoFar /\ NotBeyond /\ Threw /\ Ended

Inv == TypeOK /\ (NoEmptyBlock => LoopInv)

\* The sizes and places of the blocks are numbers.
LEMMA BlockTypes ==
  ASSUME TypeOK, Data, NEW b \in Blocks
  PROVE  /\ b \in Nat /\ b + 1 \in 1 .. Len(layout.len) + 1 /\ b \in 1 .. Len(layout.len) + 1
         /\ layout.len[b] \in Nat /\ layout.off[b] \in Nat /\ layout.off[b + 1] \in Nat
         /\ layout.off[b + 1] = layout.off[b] + layout.len[b]
<1>1. Len(layout.len) \in Nat
  BY DEF Data
<1>2. b \in Nat /\ b + 1 \in 1 .. Len(layout.len) + 1 /\ b \in 1 .. Len(layout.len) + 1
  BY <1>1 DEF Blocks
<1>3. layout.len[b] \in Nat
  BY ElementOfSeq DEF Data, Blocks
<1>4. layout.off[b] \in Nat /\ layout.off[b + 1] \in Nat
  BY <1>2 DEF Data
<1> QED BY <1>2, <1>3, <1>4 DEF Data

LEMMA BytesOf ==
  /\ \A b \in Blocks : \A i \in 0 .. layout.len[b] - 1 : <<b, i>> \in Bytes
  /\ \A byte \in Bytes : \E b \in Blocks : \E i \in 0 .. layout.len[b] - 1 : byte = <<b, i>>
<1>1. ASSUME NEW b \in Blocks, NEW i \in 0 .. layout.len[b] - 1
      PROVE  <<b, i>> \in Bytes
  <2>1. <<b, i>> \in {<<b, j>> : j \in 0 .. layout.len[b] - 1}
    OBVIOUS
  <2> QED BY <2>1, Zenon DEF Bytes
<1>2. ASSUME NEW byte \in Bytes
      PROVE  \E b \in Blocks : \E i \in 0 .. layout.len[b] - 1 : byte = <<b, i>>
  <2>1. PICK b \in Blocks : byte \in {<<b, i>> : i \in 0 .. layout.len[b] - 1}
    BY Zenon DEF Bytes
  <2> QED BY <2>1
<1> QED BY <1>1, <1>2

\* The place of a byte in the response is a number.
LEMMA PosType ==
  ASSUME TypeOK, Data, NEW byte \in Bytes
  PROVE  Pos(byte) \in Nat
<1>1. PICK b \in Blocks : \E i \in 0 .. layout.len[b] - 1 : byte = <<b, i>>
  BY BytesOf
<1>2. PICK i \in 0 .. layout.len[b] - 1 : byte = <<b, i>>
  BY <1>1
<1> QED BY <1>2, BlockTypes DEF Pos

\* advance() moves both cursors to the next byte.
LEMMA AdvanceAgrees ==
  ASSUME TypeOK, Data, NoEmptyBlock, CursorsAgree, blockIdx \in Blocks, advance,
         UNCHANGED layout
  PROVE  CursorsAgree' /\ cursor' = cursor + 1
<1> DEFINE b == blockIdx
<1>1. /\ b \in Nat /\ layout.len[b] \in Nat /\ layout.off[b] \in Nat
      /\ layout.off[b + 1] = layout.off[b] + layout.len[b]
  BY BlockTypes
<1>2. cursor = layout.off[b] + cursorInBlock /\ cursorInBlock < layout.len[b] /\ cursorInBlock \in Nat
  BY DEF CursorsAgree, TypeOK
<1>3. Blocks' = Blocks
  BY DEF Blocks
<1>4. cursor' = cursor + 1
  BY DEF advance
<1>5. CASE cursorInBlock + 1 >= layout.len[b]
  <2>1. blockIdx' = b + 1 /\ cursorInBlock' = 0
    BY <1>5 DEF advance
  <2>2. cursor' = layout.off[b + 1]
    BY <1>1, <1>2, <1>4, <1>5
  <2>3. cursor' = layout'.off[blockIdx'] + cursorInBlock'
    BY <1>1, <2>1, <2>2
  <2>4. blockIdx' \in Blocks' => cursorInBlock' < layout'.len[blockIdx']
    BY <1>3, <2>1 DEF NoEmptyBlock
  <2> QED BY <1>4, <2>1, <2>3, <2>4 DEF CursorsAgree
<1>6. CASE ~(cursorInBlock + 1 >= layout.len[b])
  <2>1. blockIdx' = b /\ cursorInBlock' = cursorInBlock + 1
    BY <1>6 DEF advance
  <2>2. cursor' = layout'.off[blockIdx'] + cursorInBlock' /\ cursorInBlock' < layout'.len[blockIdx']
    BY <1>1, <1>2, <1>4, <1>6, <2>1
  <2> QED BY <1>3, <1>4, <2>1, <2>2 DEF CursorsAgree
<1> QED BY <1>5, <1>6

\* A byte of one block comes before all bytes of the blocks that follow.
LEMMA Before ==
  ASSUME NEW o \in Nat, NEW n \in Nat, NEW i \in Nat, NEW p \in Nat, NEW j \in Nat,
         i < n, o + n <= p
  PROVE  o + i # p + j
OBVIOUS

\* The only byte at the cursor is the one that both cursors name.
LEMMA ByteAtCursor ==
  ASSUME TypeOK, Data, NoEmptyBlock, CursorsAgree, blockIdx \in Blocks
  PROVE  /\ <<blockIdx, cursorInBlock>> \in Bytes
         /\ \A byte \in Bytes : Pos(byte) = cursor <=> byte = <<blockIdx, cursorInBlock>>
<1>1. /\ blockIdx \in Nat /\ layout.len[blockIdx] \in Nat /\ layout.off[blockIdx] \in Nat
      /\ blockIdx \in 1 .. Len(layout.len) + 1
  BY BlockTypes
<1>2. /\ cursor = layout.off[blockIdx] + cursorInBlock
      /\ cursorInBlock \in 0 .. layout.len[blockIdx] - 1
  BY <1>1 DEF CursorsAgree, TypeOK
<1>3. ASSUME NEW byte \in Bytes, Pos(byte) = cursor
      PROVE  byte = <<blockIdx, cursorInBlock>>
  <2>1. PICK b \in Blocks : \E i \in 0 .. layout.len[b] - 1 : byte = <<b, i>>
    BY BytesOf
  <2>2. PICK i \in 0 .. layout.len[b] - 1 : byte = <<b, i>>
    BY <2>1
  <2>3. layout.off[b] + i = layout.off[blockIdx] + cursorInBlock
    BY <1>2, <1>3, <2>2 DEF Pos
  <2>4. /\ b \in Nat /\ layout.len[b] \in Nat /\ layout.off[b] \in Nat
        /\ b \in 1 .. Len(layout.len) + 1
    BY BlockTypes
  <2>5. b < blockIdx => layout.off[b] + layout.len[b] <= layout.off[blockIdx]
    BY <1>1, <2>4 DEF Data
  <2>6. blockIdx < b => layout.off[blockIdx] + layout.len[blockIdx] <= layout.off[b]
    BY <1>1, <2>4 DEF Data
  <2>7. b = blockIdx
    <3>1. i \in Nat /\ i < layout.len[b]
      BY <2>4
    <3>2. cursorInBlock \in Nat /\ cursorInBlock < layout.len[blockIdx]
      BY <1>1, <1>2
    <3>3. ~(b < blockIdx)
      BY <1>1, <2>3, <2>4, <2>5, <3>1, <3>2, Before
    <3>4. ~(blockIdx < b)
      BY <1>1, <2>3, <2>4, <2>6, <3>1, <3>2, Before
    <3> QED BY <1>1, <2>4, <3>3, <3>4
  <2>8. i = cursorInBlock
    BY <1>1, <1>2, <2>2, <2>3, <2>7
  <2> QED BY <2>2, <2>7, <2>8
<1>4. Pos(<<blockIdx, cursorInBlock>>) = cursor
  BY <1>2 DEF Pos
<1> QED BY <1>2, <1>3, <1>4, BytesOf

\* The bounds of the slices are numbers.
LEMMA SliceTypes ==
  ASSUME Data, NEW r \in 1 .. Len(redactions)
  PROVE  redactions[r].fromIndex \in Nat /\ redactions[r].toIndex \in Nat
<1>1. redactions[r] \in [fromIndex : Nat, toIndex : Nat]
  BY ElementOfSeq DEF Data
<1> QED BY <1>1

\* Within the next slice the byte at the cursor is asked for, before it not.
LEMMA AskedAtCursor ==
  ASSUME TypeOK, Data, Passed, next <= Len(redactions), cursor < slice.toIndex,
         NEW byte \in Bytes, Pos(byte) = cursor
  PROVE  Asked(byte) <=> slice.fromIndex <= cursor
<1>1. next \in 1 .. Len(redactions) /\ cursor \in Nat /\ Len(redactions) \in Nat
  BY DEF TypeOK, Data
<1>2. ASSUME NEW r \in 1 .. Len(redactions), r # next
      PROVE  ~(redactions[r].fromIndex <= cursor /\ cursor < redactions[r].toIndex)
  <2>1. CASE r < next
    <3>1. redactions[r].toIndex <= cursor
      BY <1>1, <2>1 DEF Passed
    <3> QED BY <1>1, <3>1, SliceTypes
  <2>2. CASE r > next
    <3>1. redactions[next].toIndex <= redactions[r].fromIndex
      BY <1>1, <2>2 DEF Data, InOrder
    <3> QED BY <1>1, <3>1, SliceTypes DEF slice
  <2> QED BY <1>1, <1>2, <2>1, <2>2
<1>3. Asked(byte) <=> redactions[next].fromIndex <= cursor /\ cursor < redactions[next].toIndex
  BY <1>1, <1>2 DEF Asked, Pos
<1> QED BY <1>3 DEF slice

\* The step of the first loop: the byte that is left alone is not asked for.
LEMMA SkipStep ==
  ASSUME TypeOK, Data, NoEmptyBlock, LoopInv, Skip
  PROVE  LoopInv'
<1> USE DEF LoopInv
<1>1. /\ blockIdx \in Blocks /\ next <= Len(redactions) /\ advance
      /\ cursor < slice.fromIndex
      /\ UNCHANGED <<layout, redactions, next, redacted, pc>>
  BY DEF Skip, Working
<1>2. CursorsAgree' /\ cursor' = cursor + 1
  BY <1>1, AdvanceAgrees
<1>3. /\ next \in 1 .. Len(redactions) /\ cursor \in Nat /\ Len(redactions) \in Nat
      /\ slice.fromIndex \in Nat /\ slice.toIndex \in Nat /\ slice.fromIndex <= slice.toIndex
  <2>1. cursor \in Nat /\ Len(redactions) \in Nat /\ next \in 1 .. Len(redactions) + 1
    BY DEF TypeOK, Data
  <2>2. next \in 1 .. Len(redactions)
    BY <1>1, <2>1
  <2>3. slice.fromIndex \in Nat /\ slice.toIndex \in Nat
    BY <2>2, SliceTypes DEF slice
  <2>4. slice.fromIndex <= slice.toIndex
    BY <2>2 DEF Data, InOrder, slice
  <2> QED BY <2>1, <2>2, <2>3, <2>4
<1>4. Passed'
  <2> SUFFICES ASSUME NEW r \in 1 .. next - 1 PROVE redactions[r].toIndex <= cursor + 1
    BY <1>1, <1>2 DEF Passed
  <2> QED BY <1>3, SliceTypes DEF Passed
<1>5. NotBeyond'
  <2> SUFFICES ASSUME NEW r \in next .. Len(redactions) PROVE cursor + 1 <= redactions[r].toIndex
    BY <1>1, <1>2 DEF NotBeyond
  <2>1. CASE r = next
    BY <1>1, <1>3, <2>1 DEF slice
  <2>2. CASE r # next
    <3>1. slice.toIndex <= redactions[r].fromIndex /\ redactions[r].fromIndex <= redactions[r].toIndex
      BY <1>3, <2>2 DEF Data, InOrder, slice
    <3> QED BY <1>1, <1>3, <3>1, SliceTypes
  <2> QED BY <2>1, <2>2
<1>6. RedactedSoFar'
  <2>1. ASSUME NEW byte \in Bytes, Pos(byte) = cursor PROVE ~Asked(byte)
    BY <1>1, <1>3, <2>1, AskedAtCursor
  <2>2. \A byte \in Bytes : Pos(byte) < cursor + 1 <=> Pos(byte) < cursor \/ Pos(byte) = cursor
    BY <1>3, PosType
  <2>3. Bytes' = Bytes
    BY <1>1 DEF Bytes, Blocks
  <2>4. {byte \in Bytes : Pos(byte) < cursor + 1 /\ Asked(byte)}
          = {byte \in Bytes : Pos(byte) < cursor /\ Asked(byte)}
    BY <2>1, <2>2
  <2> QED BY <1>1, <1>2, <2>3, <2>4 DEF RedactedSoFar, Pos, Asked
<1>7. Threw' /\ Ended'
  BY <1>1 DEF Threw, Within, Total, Ended
<1> QED BY <1>2, <1>4, <1>5, <1>6, <1>7

\* The step of the second loop: the byte that is redacted is asked for.
LEMMA RedactStep ==
  ASSUME TypeOK, Data, NoEmptyBlock, LoopInv, Redact
  PROVE  LoopInv'
<1> USE DEF LoopInv
<1> DEFINE here == <<blockIdx, cursorInBlock>>
<1>1. /\ blockIdx \in Blocks /\ next <= Len(redactions) /\ advance
      /\ slice.fromIndex <= cursor /\ cursor < slice.toIndex
      /\ UNCHANGED <<layout, redactions, next, pc>>
      /\ redacted' = redacted \cup ({here} \cap Bytes)
  BY DEF Redact, Working
<1>2. CursorsAgree' /\ cursor' = cursor + 1
  BY <1>1, AdvanceAgrees
<1>3. /\ next \in 1 .. Len(redactions) /\ cursor \in Nat /\ Len(redactions) \in Nat
      /\ slice.fromIndex \in Nat /\ slice.toIndex \in Nat
  BY <1>1, SliceTypes DEF TypeOK, Data, slice
<1>4. Passed'
  <2> SUFFICES ASSUME NEW r \in 1 .. next - 1 PROVE redactions[r].toIndex <= cursor + 1
    BY <1>1, <1>2 DEF Passed
  <2> QED BY <1>3, SliceTypes DEF Passed
<1>5. NotBeyond'
  <2> SUFFICES ASSUME NEW r \in next .. Len(redactions) PROVE cursor + 1 <= redactions[r].toIndex
    BY <1>1, <1>2 DEF NotBeyond
  <2>1. CASE r = next
    BY <1>1, <1>3, <2>1 DEF slice
  <2>2. CASE r # next
    <3>1. slice.toIndex <= redactions[r].fromIndex /\ redactions[r].fromIndex <= redactions[r].toIndex
      BY <1>3, <2>2 DEF Data, InOrder, slice
    <3> QED BY <1>1, <1>3, <3>1, SliceTypes
  <2> QED BY <2>1, <2>2
<1>6. RedactedSoFar'
  <2>1. here \in Bytes /\ \A byte \in Bytes : Pos(byte) = cursor <=> byte = here
    BY <1>1, ByteAtCursor
  <2>2. Asked(here)
    BY <1>1, <1>3, <2>1, AskedAtCursor
  <2>3. \A byte \in Bytes : Pos(byte) < cursor + 1 <=> Pos(byte) < cursor \/ byte = here
    BY <1>3, <2>1, PosType
  <2>4. Bytes' = Bytes
    BY <1>1 DEF Bytes, Blocks
  <2>5. redacted' = {byte \in Bytes : Pos(byte) < cursor + 1 /\ Asked(byte)}
    BY <1>1, <2>1, <2>2, <2>3 DEF RedactedSoFar
  <2> QED BY <1>1, <1>2, <2>4, <2>5 DEF RedactedSoFar, Pos, Asked
<1>7. Threw' /\ Ended'
  BY <1>1 DEF Threw, Within, Total, Ended
<1> QED BY <1>2, <1>4, <1>5, <1>6, <1>7

\* At the end all slices are done with.
LEMMA Finished ==
  ASSUME TypeOK, Data, Passed, Ended, pc = "done", NEW r \in 1 .. Len(redactions)
  PROVE  redactions[r].toIndex <= cursor
BY DEF TypeOK, Data, Passed, Ended

\* The cursor is beyond the blocks only at the end of the response.
LEMMA EndOfBlocks ==
  ASSUME TypeOK, Data, NoEmptyBlock, CursorsAgree
  PROVE  /\ Total \in Nat /\ cursor <= Total
         /\ blockIdx \notin Blocks => cursor = Total
<1>1. Len(layout.len) \in Nat /\ Total \in Nat /\ blockIdx \in 1 .. Len(layout.len) + 1
  <2>1. Len(layout.len) \in Nat
    BY DEF Data
  <2>2. Len(layout.len) + 1 \in 1 .. Len(layout.len) + 1
    BY <2>1
  <2>3. layout.off[Len(layout.len) + 1] \in Nat
    BY <2>2 DEF Data
  <2> QED BY <2>1, <2>3 DEF TypeOK, Total
<1>2. CASE blockIdx \in Blocks
  <2>1. /\ layout.len[blockIdx] \in Nat /\ layout.off[blockIdx] \in Nat
        /\ blockIdx \in 1 .. Len(layout.len) + 1
    BY <1>2, BlockTypes
  <2>2. layout.off[blockIdx] + layout.len[blockIdx] <= Total
    <3>1. Len(layout.len) + 1 \in 1 .. Len(layout.len) + 1 /\ blockIdx < Len(layout.len) + 1
      BY <1>1, <1>2 DEF Blocks
    <3> QED BY <2>1, <3>1 DEF Data, Total
  <2>3. cursor = layout.off[blockIdx] + cursorInBlock /\ cursorInBlock < layout.len[blockIdx]
    BY <1>2 DEF CursorsAgree
  <2>4. cursorInBlock \in Nat
    BY DEF TypeOK
  <2> QED BY <1>1, <1>2, <2>1, <2>2, <2>3, <2>4
<1>3. CASE blockIdx \notin Blocks
  <2>1. blockIdx = Len(layout.len) + 1
    BY <1>1, <1>3 DEF Blocks
  <2>2. cursor = layout.off[blockIdx]
    <3>1. cursor = layout.off[blockIdx] + cursorInBlock /\ cursorInBlock = 0
      BY <1>3 DEF CursorsAgree
    <3> QED BY <1>1, <2>1, <3>1 DEF Total
  <2> QED BY <1>1, <1>3, <2>1, <2>2 DEF Total
<1> QED BY <1>2, <1>3

LEMMA Invariance == Spec => []Inv
<1>1. Init => Inv
  <2> SUFFICES ASSUME Init, TypeOK, Data PROVE LoopInv
    BY DataHolds, InitTypes DEF Inv, Init
  <2>1. CursorsAgree
    BY DEF Init, CursorsAgree, NoEmptyBlock, Data
  <2>2. Passed
    BY DEF Init, Passed
  <2>3. RedactedSoFar
    <3>1. \A byte \in Bytes : ~(Pos(byte) < cursor)
      BY PosType DEF Init
    <3> QED BY <3>1 DEF Init, RedactedSoFar
  <2>4. NotBeyond
    <3> SUFFICES ASSUME NEW r \in next .. Len(redactions) PROVE 0 <= redactions[r].toIndex
      BY DEF Init, NotBeyond
    <3> QED BY SliceTypes DEF Init, Data
  <2> QED BY <2>1, <2>2, <2>3, <2>4 DEF LoopInv, Init, Threw, Ended
<1>2. Inv /\ TypeOK' /\ [Next]_vars => Inv'
  <2> SUFFICES ASSUME TypeOK, Data, NoEmptyBlock, LoopInv, [Next]_vars PROVE LoopInv'
    <3>1. [Next]_vars /\ TypeOK => UNCHANGED layout
      BY DEF Next, Skip, Redact, Throw, NextSlice, Return, vars
    <3> QED BY <3>1, DataHolds DEF Inv, TypeOK, NoEmptyBlock, Blocks
  <2> USE DEF LoopInv
  <2>1. CASE Skip
    BY <2>1, SkipStep
  <2>2. CASE Redact
    BY <2>2, RedactStep
  <2>3. CASE Throw
    <3>1. ~Within
      <4>1. cursor = Total /\ Total \in Nat
        BY <2>3, EndOfBlocks DEF Throw
      <4>2. next \in 1 .. Len(redactions) /\ cursor < redactions[next].toIndex
        BY <2>3 DEF Throw, slice, TypeOK, Data
      <4> QED BY <4>1, <4>2, SliceTypes DEF Within
    <3> QED BY <2>3, <3>1 DEF Throw, CursorsAgree, NoEmptyBlock, Passed, RedactedSoFar, Pos,
                            Asked, NotBeyond, Threw, Ended, Within, Total, Bytes, Blocks
  <2>4. CASE NextSlice
    <3>1. Passed'
      <4> SUFFICES ASSUME NEW r \in 1 .. next PROVE redactions[r].toIndex <= cursor
        <5>1. next \in Nat
          BY DEF TypeOK, Data
        <5>2. next' = next + 1 /\ UNCHANGED <<redactions, cursor>>
          BY <2>4 DEF NextSlice
        <5> QED BY <5>1, <5>2 DEF Passed
      <4>1. next \in Nat
        BY DEF TypeOK, Data
      <4>2. CASE r = next
        BY <2>4, <4>2 DEF NextSlice, slice
      <4>3. CASE r # next
        BY <4>1, <4>3 DEF Passed
      <4> QED BY <4>2, <4>3
    <3>2. NotBeyond'
      BY <2>4 DEF NextSlice, NotBeyond, TypeOK, Data
    <3> QED BY <2>4, <3>1, <3>2 DEF NextSlice, CursorsAgree, NoEmptyBlock, RedactedSoFar, Pos,
                                    Asked, Threw, Ended, Within, Total, Bytes, Blocks
  <2>5. CASE Return
    BY <2>5 DEF Return, CursorsAgree, NoEmptyBlock, Passed, RedactedSoFar, Pos,
                Asked, NotBeyond, Threw, Ended, Within, Total, Bytes, Blocks
  <2>6. CASE UNCHANGED vars
    BY <2>6 DEF vars, CursorsAgree, NoEmptyBlock, Passed, RedactedSoFar, Pos,
                Asked, NotBeyond, Threw, Ended, Within, Total, Bytes, Blocks
  <2> QED BY <2>1, <2>2, <2>3, <2>4, <2>5, <2>6 DEF Next
<1> QED BY <1>1, <1>2, TypeCorrect, PTL DEF Spec

-----------------------------------------------------------------------------
\* The two cursors of getBlocksToReveal name the same byte in every state, for
\* every response without an empty block.
THEOREM CursorsNameOneByte == Spec => []CursorsAgree
<1>1. Inv => CursorsAgree
  BY DEF Inv, LoopInv, CursorsAgree
<1> QED BY <1>1, Invariance, PTL

\* The blocks that are not returned hold nothing that is not a star.
LeavesOutStars == pc = "done" => LeftOut \subseteq redacted \cup layout.stars

LEMMA LeftOutInvariance == Spec => []LeavesOutStars
<1>1. Init => LeavesOutStars
  BY DEF Init, LeavesOutStars
<1>2. LeavesOutStars /\ [Next]_vars => LeavesOutStars'
  <2> SUFFICES ASSUME LeavesOutStars, [Next]_vars, pc' = "done"
               PROVE  LeftOut' \subseteq redacted' \cup layout'.stars
    BY DEF LeavesOutStars
  <2>1. CASE Return
    <3>1. /\ revealed' = {b \in Blocks : ~isFullyRedacted(b)}
          /\ layout' = layout /\ redacted' = redacted
      BY <2>1 DEF Return
    <3>2. ASSUME NEW byte \in LeftOut' PROVE byte \in redacted' \cup layout'.stars
      <4>1. byte \in Bytes /\ byte[1] \notin revealed'
        BY <3>1, <3>2 DEF LeftOut, Bytes, Blocks
      <4>2. PICK b \in Blocks : \E i \in 0 .. layout.len[b] - 1 : byte = <<b, i>>
        BY <4>1 DEF Bytes
      <4>3. isFullyRedacted(b)
        BY <3>1, <4>1, <4>2
      <4> QED BY <3>1, <4>2, <4>3 DEF isFullyRedacted
    <3> QED BY <3>2
  <2>2. CASE UNCHANGED vars
    BY <2>2 DEF vars, LeavesOutStars, LeftOut, Bytes, Blocks
  <2>3. CASE Skip \/ Redact \/ Throw \/ NextSlice
    BY <2>3 DEF Skip, Redact, Throw, NextSlice, Working
  <2> QED BY <2>1, <2>2, <2>3 DEF Next
<1> QED BY <1>1, <1>2, PTL DEF Spec

\* What getBlocksToReveal redacts is what redact() asked for, for every response
\* without an empty block and all slices in order, and the blocks that it leaves
\* out hold nothing else.
THEOREM RedactionIsExact == Spec => []RedactsWhatIsAsked
<1>1. Inv /\ LeavesOutStars => RedactsWhatIsAsked
  <2> SUFFICES ASSUME Inv, LeavesOutStars, pc = "done", NoEmptyBlock
               PROVE  redacted = {byte \in Bytes : Asked(byte)}
    BY DEF RedactsWhatIsAsked, LeavesOutStars
  <2>1. Data /\ LoopInv /\ TypeOK
    BY DataHolds DEF Inv, TypeOK
  <2>2. ASSUME NEW byte \in Bytes, Asked(byte) PROVE Pos(byte) < cursor
    <3>1. PICK r \in 1 .. Len(redactions) : Pos(byte) < redactions[r].toIndex
      BY <2>2 DEF Asked, Pos
    <3>2. redactions[r].toIndex <= cursor
      BY <2>1, Finished DEF LoopInv
    <3> QED BY <2>1, <3>1, <3>2, PosType, SliceTypes DEF TypeOK
  <2> QED BY <2>1, <2>2 DEF LoopInv, RedactedSoFar
<1> QED BY <1>1, Invariance, LeftOutInvariance, PTL

\* Redactions within the response never throw, and none beyond its end succeeds.
THEOREM ThrowsOnlyBeyondTheEnd == Spec => []ThrowsBeyondTheEnd
<1>1. Inv => ThrowsBeyondTheEnd
  <2> SUFFICES ASSUME Inv, NoEmptyBlock PROVE (Within => pc # "error") /\ (pc = "done" => Within)
    BY DEF ThrowsBeyondTheEnd
  <2>1. Data /\ LoopInv /\ TypeOK
    BY DataHolds DEF Inv, TypeOK
  <2>2. ASSUME pc = "done", NEW r \in 1 .. Len(redactions) PROVE redactions[r].toIndex <= Total
    <3>1. redactions[r].toIndex <= cursor
      BY <2>1, <2>2, Finished DEF LoopInv
    <3> QED BY <2>1, <3>1, EndOfBlocks, SliceTypes DEF LoopInv, TypeOK
  <2> QED BY <2>1, <2>2 DEF LoopInv, Threw, Within
<1> QED BY <1>1, Invariance, PTL
=============================================================================
