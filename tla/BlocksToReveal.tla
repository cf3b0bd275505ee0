--------------------------- MODULE BlocksToReveal ---------------------------
(***************************************************************************)
(* getBlocksToReveal (utils/redactions.js): a response came in blocks, the *)
(* redactions are slices of the whole of it, and two cursors that move     *)
(* together say which byte of which block each byte of the whole is.       *)
(*                                                                         *)
(* Bytes are positions: block b holds bytes 0 .. len[b] - 1, and byte i of *)
(* block b is byte off[b] + i of the whole.  Of their values only that     *)
(* matters which they have when they are redacted: stars have it before.   *)
(***************************************************************************)
EXTENDS Integers, Sequences

CONSTANTS
  Layouts,     \* the ways in which responses come in blocks
  Redactions   \* what redact() may return

\* concatenateUint8Arrays: the blocks follow each other.
IsLayout(l) ==
  /\ l.len \in Seq(Nat)
  /\ l.stars \subseteq Nat \X Nat
  /\ l.off \in [1 .. Len(l.len) + 1 -> Nat]
  /\ l.off[1] = 0
  /\ \A b \in 1 .. Len(l.len) : l.off[b + 1] = l.off[b] + l.len[b]
  /\ \A b, c \in 1 .. Len(l.len) + 1 : b < c => l.off[b] + l.len[b] <= l.off[c]

\* Providers return slices in order.
InOrder(slices) ==
  \A r \in 1 .. Len(slices) :
    /\ slices[r].fromIndex <= slices[r].toIndex
    /\ \A q \in 1 .. r - 1 : slices[q].toIndex <= slices[r].fromIndex

ASSUME BlocksAssumption ==
  /\ \A l \in Layouts : IsLayout(l)
  /\ Redactions \subseteq Seq([fromIndex : Nat, toIndex : Nat])
  /\ \A slices \in Redactions : InOrder(slices)

VARIABLES
  layout,         \* the blocks
  redactions,     \* the slices
  next,           \* the slice that redactBlocks works on
  blockIdx, cursorInBlock, cursor,
  redacted,       \* the bytes of redactedPlaintext that were replaced
  revealed,       \* the blocks that are returned
  pc

vars ==
  <<layout, redactions, next, blockIdx, cursorInBlock, cursor, redacted, revealed, pc>>

Blocks == 1 .. Len(layout.len)
Bytes == UNION {{<<b, i>> : i \in 0 .. layout.len[b] - 1} : b \in Blocks}
Total == layout.off[Len(layout.len) + 1]

\* The slices end within the response.
Within == \A r \in 1 .. Len(redactions) : redactions[r].toIndex <= Total

Init ==
  /\ layout \in Layouts
  /\ redactions \in Redactions
  /\ next = 1
  /\ blockIdx = 1
  /\ cursorInBlock = 0
  /\ cursor = 0
  /\ redacted = {}
  /\ \/ redactions = <<>> /\ revealed = Blocks /\ pc = "all"
     \/ redactions # <<>> /\ revealed = {} /\ pc = "redacting"

slice == redactions[next]

advance ==
  /\ cursor' = cursor + 1
  /\ IF cursorInBlock + 1 >= layout.len[blockIdx]
     THEN blockIdx' = blockIdx + 1 /\ cursorInBlock' = 0
     ELSE cursorInBlock' = cursorInBlock + 1 /\ UNCHANGED blockIdx

\* Both loops of redactBlocks; reading a block after the last one throws.
Working == pc = "redacting" /\ next <= Len(redactions) /\ blockIdx \in Blocks

Skip ==
  /\ Working
  /\ cursor < slice.fromIndex
  /\ advance
  /\ UNCHANGED <<layout, redactions, next, redacted, revealed, pc>>

\* Mutant: the last byte of a slice is redacted too.
RedactThrough ==
  /\ Working
  /\ slice.fromIndex <= cursor /\ cursor <= slice.toIndex
  /\ redacted' = redacted \cup ({<<blockIdx, cursorInBlock>>} \cap Bytes)
  /\ advance
  /\ UNCHANGED <<layout, redactions, next, revealed, pc>>

\* A write outside of the array is ignored.
Redact ==
  /\ Working
  /\ slice.fromIndex <= cursor /\ cursor < slice.toIndex
  /\ redacted' = redacted \cup ({<<blockIdx, cursorInBlock>>} \cap Bytes)
  /\ advance
  /\ UNCHANGED <<layout, redactions, next, revealed, pc>>

Throw ==
  /\ pc = "redacting" /\ next <= Len(redactions) /\ blockIdx \notin Blocks
  /\ cursor < slice.toIndex
  /\ pc' = "error"
  /\ UNCHANGED <<layout, redactions, next, blockIdx, cursorInBlock, cursor, redacted, revealed>>

NextSlice ==
  /\ pc = "redacting" /\ next <= Len(redactions)
  /\ slice.toIndex <= cursor
  /\ next' = next + 1
  /\ UNCHANGED <<layout, redactions, blockIdx, cursorInBlock, cursor, redacted, revealed, pc>>

isFullyRedacted(b) ==
  \A i \in 0 .. layout.len[b] - 1 : <<b, i>> \in redacted \cup layout.stars

Return ==
  /\ pc = "redacting" /\ next > Len(redactions)
  /\ revealed' = {b \in Blocks : ~isFullyRedacted(b)}
  /\ pc' = "done"
  /\ UNCHANGED <<layout, redactions, next, blockIdx, cursorInBlock, cursor, redacted>>

Next == Skip \/ Redact \/ Throw \/ NextSlice \/ Return

Spec == Init /\ [][Next]_vars

FairSpec == Spec /\ WF_vars(Next)

-----------------------------------------------------------------------------
TypeOK ==
  /\ layout \in Layouts
  /\ redactions \in Redactions
  /\ next \in 1 .. Len(redactions) + 1
  /\ blockIdx \in 1 .. Len(layout.len) + 1
  /\ cursorInBlock \in Nat
  /\ cursor \in Nat
  /\ redacted \subseteq Bytes
  /\ revealed \subseteq Blocks
  /\ pc \in {"all", "redacting", "done", "error"}

\* TLS records of application data have a byte.
NoEmptyBlock == \A b \in Blocks : layout.len[b] > 0

Asked(byte) ==
  \E r \in 1 .. Len(redactions) :
    /\ redactions[r].fromIndex <= layout.off[byte[1]] + byte[2]
    /\ layout.off[byte[1]] + byte[2] < redactions[r].toIndex

LeftOut == {byte \in Bytes : byte[1] \notin revealed}

\* What is redacted of the blocks is what redact() asked for, byte for byte,
\* however the slices and the blocks overlap: nothing secret is revealed and
\* nothing else is hidden, in the blocks that are returned and by leaving out
\* the others.
RedactsWhatIsAsked ==
  pc = "done" /\ NoEmptyBlock =>
    /\ redacted = {byte \in Bytes : Asked(byte)}
    /\ LeftOut \subseteq redacted \cup layout.stars

\* Slices within the response never run past the last block, and a redaction
\* beyond its end is never taken for one that succeeded.
ThrowsBeyondTheEnd ==
  NoEmptyBlock => (Within => pc # "error") /\ (pc = "done" => Within)

\* The two cursors name the same byte.
CursorsAgree ==
  NoEmptyBlock =>
    /\ cursor = layout.off[blockIdx] + cursorInBlock
    /\ blockIdx \in Blocks => cursorInBlock < layout.len[blockIdx]
    /\ blockIdx \notin Blocks => cursorInBlock = 0

(* What the repository says of this code and the code does not do.          *)

\* redactions.js:49: what is asked for is redacted and the rest is revealed.
RedactsAnyBlocks == pc = "done" => redacted = {byte \in Bytes : Asked(byte)}
=============================================================================
