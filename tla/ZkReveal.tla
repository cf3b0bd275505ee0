------------------------------ MODULE ZkReveal ------------------------------
(***************************************************************************)
(* What the client proves of the packets of a transcript and what the      *)
(* witness sees of them: preparePacketsForReveal (utils/prepare-packets.js) *)
(* and makeZkProofGenerator and verifyZkPacket (utils/zk.js).              *)
(*                                                                         *)
(* A packet is known by the positions of its bytes, 0 .. len - 1 without   *)
(* the authentication tag.  "given" is the length of the redacted          *)
(* plaintext that comes with the reveal and "hidden" its redacted          *)
(* positions.  A byte that is itself an asterisk counts as hidden.         *)
(***************************************************************************)
EXTENDS Integers, SequencesExt

CONSTANTS
  ChunkSize,     \* bytes that one proof is about
  Concurrency,   \* zkProofConcurrency
  MaxZkChunks,   \* maxZkChunks
  Transcripts    \* the transcripts, with the reveal of each packet

Reveal == {"none", "complete", "zk"}

IsPacket(p) ==
  /\ p.reveal \in Reveal
  /\ p.len \in Nat \ {0}
  /\ p.given \in Nat
  /\ p.hidden \subseteq 0 .. p.given - 1

ASSUME ZkAssumption ==
  /\ ChunkSize \in Nat \ {0}
  /\ Concurrency \in Nat \ {0}
  /\ MaxZkChunks \in Nat
  /\ \A t \in Transcripts : \A i \in DOMAIN t : IsPacket(t[i])

VARIABLES
  packets,     \* the transcript
  exporting,   \* packets whose key is being exported
  queue,       \* proofs to generate, in order
  running,     \* proofs being generated
  proofs,      \* proofs of a packet, in the order in which they were made
  reveal,      \* the reveals of the messages
  progress,    \* onZkProgress: [done, total]
  result,      \* the promise of preparePacketsForReveal
  checking,    \* proofs that the witness is verifying
  refused,     \* packets with a proof that is not valid
  seen,        \* realRedactedPlaintext: positions the witness sees
  verdict      \* the witness' answer

client == <<packets, exporting, queue, running, proofs, reveal, progress, result>>
witness == <<checking, refused, seen, verdict>>
vars == <<client, witness>>

Index == DOMAIN packets

-----------------------------------------------------------------------------
(* The proofs of a packet.                                                  *)

\* The redacted plaintext is completed by the rest of the plaintext; it is
\* longer than the packet if TLS split what was written.
PlaintextLen(p) == IF p.given > p.len THEN p.given ELSE p.len

Chunks(p) == (p.len + ChunkSize - 1) \div ChunkSize

ChunkOf(len, k) == {pos \in 0 .. len - 1 : pos \div ChunkSize = k}

\* Mutant: the ciphertext is not redacted.
ParamsOfWholeCiphertext(i, k) ==
  LET plaintextChunk == ChunkOf(PlaintextLen(packets[i]), k) IN
  [packet |-> i,
   startIdx |-> k * ChunkSize,
   len |-> Cardinality(plaintextChunk),
   redacted |-> {pos - k * ChunkSize : pos \in plaintextChunk \cap packets[i].hidden},
   ciphertext |-> ChunkOf(packets[i].len, k)]

\* "ciphertext" are the positions of the packet whose bytes are still in the
\* redacted ciphertext.
getProofGenerationParamsForChunk(i, k) ==
  LET plaintextChunk == ChunkOf(PlaintextLen(packets[i]), k) IN
  [packet |-> i,
   startIdx |-> k * ChunkSize,
   len |-> Cardinality(plaintextChunk),
   redacted |-> {pos - k * ChunkSize : pos \in plaintextChunk \cap packets[i].hidden},
   ciphertext |-> ChunkOf(packets[i].len, k) \ packets[i].hidden]

isFullyRedacted(proof) == Cardinality(proof.redacted) = proof.len

\* Mutant: a chunk that is redacted in part is not proved.
ProofsOfWholeChunks(i) ==
  LET isWhole(proof) == proof.redacted = {} IN
  SelectSeq([k \in 1 .. Chunks(packets[i]) |-> getProofGenerationParamsForChunk(i, k - 1)],
            isWhole)

\* upTo[n] are those of the first n chunks.  Fully redacted ones need no proof.
proofsToGenerate(i) ==
  LET upTo[n \in 0 .. Chunks(packets[i])] ==
        IF n = 0 THEN <<>>
        ELSE LET proof == getProofGenerationParamsForChunk(i, n - 1)
             IN  IF isFullyRedacted(proof) THEN upTo[n - 1] ELSE Append(upTo[n - 1], proof)
  IN  upTo[Chunks(packets[i])]

getTotalChunksToProve == Len(queue)

-----------------------------------------------------------------------------
(* preparePacketsForReveal                                                  *)

\* The first part of the work on each packet runs before any key is there:
\* addPacketToProve compares the chunks of no packet with maxZkChunks.
Init ==
  /\ packets \in Transcripts
  /\ exporting = {i \in Index : packets[i].reveal # "none"}
  /\ queue = <<>>
  /\ running = {}
  /\ proofs = [i \in Index |-> <<>>]
  /\ reveal = [i \in Index |-> "undefined"]
  /\ progress = [done |-> 0, total |-> 0]
  /\ result = IF getTotalChunksToProve > MaxZkChunks THEN "rejected" ELSE "preparing"
  /\ checking = {}
  /\ refused = {}
  /\ seen = [i \in Index |-> {}]
  /\ verdict = "none"

\* Keys are exported in any order.
KeyExported(i) ==
  /\ i \in exporting
  /\ exporting' = exporting \ {i}
  /\ IF packets[i].reveal = "complete"
     THEN reveal' = [reveal EXCEPT ![i] = "direct"] /\ UNCHANGED queue
     ELSE queue' = queue \o proofsToGenerate(i) /\ UNCHANGED reveal
  /\ UNCHANGED <<packets, running, proofs, progress, result, witness>>

\* One key that cannot be exported ends the call; the others go on.
KeyRefused(i) ==
  /\ i \in exporting
  /\ exporting' = exporting \ {i}
  /\ result' = "rejected"
  /\ UNCHANGED <<packets, queue, running, proofs, reveal, progress, witness>>

generateProofs ==
  /\ result = "preparing" /\ exporting = {}
  /\ result' = "proving"
  /\ progress' = [done |-> 0, total |-> getTotalChunksToProve]
  /\ UNCHANGED <<packets, exporting, queue, running, proofs, reveal, witness>>

\* The queue was filled in one go: what is in it goes on whatever becomes of
\* the call.
Proving == progress.total > 0

StartProof ==
  /\ Proving /\ queue # <<>> /\ Cardinality(running) < Concurrency
  /\ running' = running \cup {Head(queue)}
  /\ queue' = Tail(queue)
  /\ UNCHANGED <<packets, exporting, proofs, reveal, progress, result, witness>>

proofsLeft(i) == Len(proofsToGenerate(i)) - Len(proofs[i])

onGeneratedProofs(proof) ==
  reveal' = [reveal EXCEPT ![proof.packet] = IF proofsLeft(proof.packet) = 1 THEN "zk" ELSE @]

ProofGenerated(proof) ==
  /\ proof \in running
  /\ running' = running \ {proof}
  /\ proofs' = [proofs EXCEPT ![proof.packet] = Append(@, proof)]
  /\ progress' = [progress EXCEPT !.done = @ + 1]
  /\ onGeneratedProofs(proof)
  /\ UNCHANGED <<packets, exporting, queue, result, witness>>

\* Mutants: the call waits until every proof is settled, one way or the other;
\* a proof that failed is tried again.
ProofFailedSettled(proof) ==
  /\ proof \in running
  /\ running' = running \ {proof}
  /\ UNCHANGED <<packets, exporting, queue, proofs, reveal, progress, result, witness>>

ProofRetried(proof) ==
  /\ proof \in running
  /\ running' = running \ {proof}
  /\ queue' = Append(queue, proof)
  /\ UNCHANGED <<packets, exporting, proofs, reveal, progress, result, witness>>

ProofFailed(proof) ==
  /\ proof \in running
  /\ running' = running \ {proof}
  /\ result' = "rejected"
  /\ UNCHANGED <<packets, exporting, queue, proofs, reveal, progress, witness>>

\* All proofs are there.  If there was a packet to prove, the operator is fetched
\* once more and released, and if that fails so does the call.
Finish ==
  /\ result = "proving" /\ queue = <<>> /\ running = {}
  /\ \/ result' = "resolved"
     \/ /\ \E i \in Index : packets[i].reveal = "zk"
        /\ result' = "rejected"
  /\ UNCHANGED <<packets, exporting, queue, running, proofs, reveal, progress, witness>>

-----------------------------------------------------------------------------
(* decryptTranscript                                                        *)

\* The packets with a key are decrypted, the proofs of all the others are
\* verified together.
decryptTranscript ==
  /\ result = "resolved" /\ verdict = "none"
  /\ verdict' = "pending"
  /\ checking' = UNION {ToSet(proofs[i]) : i \in {j \in Index : reveal[j] = "zk"}}
  /\ seen' = [i \in Index |-> IF reveal[i] = "direct" THEN 0 .. packets[i].len - 1 ELSE {}]
  /\ UNCHANGED <<client, refused>>

Covered(proof) == proof.startIdx .. proof.startIdx + proof.len - 1

\* What a proof gives to see.
Given(proof) == {pos \in Covered(proof) : pos - proof.startIdx \notin proof.redacted}

\* What the circuit decrypts is the redacted plaintext, but for the bytes that
\* are redacted: the ciphertext is redacted nowhere else.
isRedactionCongruent(proof) ==
  Given(proof) \cap (0 .. packets[proof.packet].len - 1) \subseteq proof.ciphertext

\* The redacted ciphertext is cut again out of the packet, where the proof says.
Valid(proof) ==
  /\ isRedactionCongruent(proof)
  /\ proof.ciphertext = Given(proof) \cap (0 .. packets[proof.packet].len - 1)
  /\ Covered(proof) \subseteq 0 .. packets[proof.packet].len - 1

ProofVerified(proof) ==
  /\ proof \in checking /\ Valid(proof)
  /\ checking' = checking \ {proof}
  /\ seen' = [seen EXCEPT ![proof.packet] = (@ \ Covered(proof)) \cup Given(proof)]
  /\ UNCHANGED <<client, refused, verdict>>

\* The first invalid proof settles its packet.
ProofRefused(proof) ==
  /\ proof \in checking /\ ~Valid(proof)
  /\ checking' = {other \in checking : other.packet # proof.packet}
  /\ refused' = refused \cup {proof.packet}
  /\ UNCHANGED <<client, seen, verdict>>

\* Every packet is settled before the first error is thrown.
Settle ==
  /\ verdict = "pending" /\ checking = {}
  /\ verdict' = IF refused = {} THEN "valid" ELSE "invalid"
  /\ UNCHANGED <<client, checking, refused, seen>>

Prove ==
  \/ \E i \in Index : KeyExported(i) \/ KeyRefused(i)
  \/ generateProofs \/ StartProof \/ Finish
  \/ \E proof \in running : ProofGenerated(proof) \/ ProofFailed(proof)

Verify ==
  \/ decryptTranscript \/ Settle
  \/ \E proof \in checking : ProofVerified(proof) \/ ProofRefused(proof)

Next == Prove \/ Verify

Spec == Init /\ [][Next]_vars

\* Keys are exported and proofs computed by calls that end.
FairSpec == Spec /\ WF_vars(Prove)

-----------------------------------------------------------------------------
Proof ==
  UNION {ToSet(proofsToGenerate(i)) : i \in {j \in Index : packets[j].reveal = "zk"}}

TypeOK ==
  /\ packets \in Transcripts
  /\ exporting \subseteq Index
  /\ ToSet(queue) \subseteq Proof
  /\ running \subseteq Proof
  /\ \A i \in Index : ToSet(proofs[i]) \subseteq Proof
  /\ reveal \in [Index -> {"undefined", "direct", "zk"}]
  /\ progress.done \in 0 .. progress.total
  /\ result \in {"preparing", "proving", "resolved", "rejected"}
  /\ checking \subseteq Proof
  /\ refused \subseteq Index
  /\ \A i \in Index : seen[i] \subseteq 0 .. packets[i].len - 1
  /\ verdict \in {"none", "pending", "valid", "invalid"}

Shown(p) == (0 .. p.len - 1) \ p.hidden

\* What is to be shown is one packet's.
Fits(p) == p.given <= p.len

\* A message is given its proofs when the last of them is there, and then they
\* show every byte of the packet that is not hidden, whatever the order in
\* which its chunks were proved.
RevealIsWhole ==
  \A i \in Index :
    reveal[i] = "zk" /\ Fits(packets[i]) =>
      /\ Len(proofs[i]) = Len(proofsToGenerate(i))
      /\ UNION {Given(proofs[i][k]) : k \in DOMAIN proofs[i]} = Shown(packets[i])

\* When the call succeeds nothing of it is going on any more and every message
\* has what was asked for: one proof for every chunk that is not hidden.  One key
\* or one proof that fails, early or late and next to others that succeed, gives
\* no transcript instead of one that lacks it.
TranscriptIsWhole ==
  result = "resolved" =>
    /\ exporting = {} /\ queue = <<>> /\ running = {}
    /\ \A i \in Index :
         CASE packets[i].reveal = "none" -> reveal[i] = "undefined"
           [] packets[i].reveal = "complete" -> reveal[i] = "direct"
           [] packets[i].reveal = "zk" ->
                /\ Len(proofs[i]) = Len(proofsToGenerate(i))
                /\ ToSet(proofs[i]) = ToSet(proofsToGenerate(i))
                /\ reveal[i] = IF proofs[i] = <<>> THEN "undefined" ELSE "zk"

\* End to end: when the witness accepts the transcript it sees of each packet
\* exactly what the client left unredacted, though chunks are cut, proved and
\* verified in any order and fully redacted ones are not proved at all.
WitnessSeesRedaction ==
  verdict = "valid" =>
    \A i \in Index :
      seen[i] = CASE packets[i].reveal = "none" -> {}
                  [] packets[i].reveal = "complete" -> 0 .. packets[i].len - 1
                  [] packets[i].reveal = "zk" -> Shown(packets[i])

\* The witness refuses no proof of a client that follows the protocol: both
\* sides redact the ciphertext in the same places.
HonestProofsAreValid ==
  (\A i \in Index : Fits(packets[i])) => verdict # "invalid"

\* The progress that the user is shown ends at its total when the call ends.
ProgressIsComplete == result = "resolved" => progress.done = progress.total

\* To generateTranscript the call is a promise that settles, once.
promise == CASE result \in {"preparing", "proving"} -> "pending"
             [] result = "resolved" -> "resolved"
             [] result = "rejected" -> "rejected"

Caller == INSTANCE Promise

TranscriptSettles == Caller!Spec

(* What the repository says of this code and the code does not do.          *)

\* zk.js:39: there are never too many chunks to prove.
ChunksAreLimited == progress.total <= MaxZkChunks
=============================================================================
