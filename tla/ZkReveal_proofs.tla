-------------------------- MODULE ZkReveal_proofs --------------------------
(***************************************************************************)
(* Proofs about ZkReveal, for transcripts of any number of packets of any  *)
(* length, any redaction of them, any size of chunks and any number of     *)
(* proofs made at a time.                                                  *)
(***************************************************************************)
EXTENDS ZkReveal, FiniteSetTheorems, WellFoundedInduction, TLAPS

LEMMA Parameters ==
  /\ ChunkSize \in Nat \ {0}
  /\ Concurrency \in Nat \ {0}
  /\ MaxZkChunks \in Nat
BY ZkAssumption

\* Induction, over a set instead of a predicate.
LEMMA InductionOverNat ==
  ASSUME NEW P, 0 \in P, \A n \in Nat : n \in P => n + 1 \in P
  PROVE  Nat \subseteq P
<1> SUFFICES ASSUME Nat \ P # {} PROVE FALSE
  OBVIOUS
<1> DEFINE R == {ss \in Nat \X Nat : ss[1] < ss[2]}
           T == Nat \ P
<1>1. IsWellFoundedOn(R, Nat)
  BY NatLessThanWellFounded DEF OpToRel
<1> HIDE DEF R
<1>2. T \subseteq Nat /\ T # {}
  OBVIOUS
<1> HIDE DEF T
<1>3. PICK x \in T : \A y \in T : ~ (<<y, x>> \in R)
  <2>1. \E x \in T : \A y \in T : ~ (<<y, x>> \in R)
    BY <1>1, <1>2, WFMin
  <2> QED BY <2>1
<1> USE DEF T
<1>4. x \in Nat /\ x \notin P /\ x # 0
  OBVIOUS
<1>5. x - 1 \in Nat /\ x - 1 < x /\ (x - 1) + 1 = x
  BY <1>4
<1>6. x - 1 \notin P
  BY <1>4, <1>5
<1>7. <<x - 1, x>> \in R
  BY <1>4, <1>5 DEF R
<1> QED BY <1>3, <1>5, <1>6, <1>7

-----------------------------------------------------------------------------
(* Chunks.                                                                  *)

LEMMA InChunk ==
  ASSUME NEW pos \in Nat, NEW k \in Nat
  PROVE  pos \div ChunkSize = k <=> k * ChunkSize <= pos /\ pos < k * ChunkSize + ChunkSize
BY Parameters

LEMMA ChunkStart ==
  ASSUME NEW k \in Nat
  PROVE  k * ChunkSize \in Nat
BY Parameters

LEMMA ChunkOfPosition ==
  ASSUME NEW p, p.len \in Nat \ {0}, NEW pos \in 0 .. p.len - 1
  PROVE  pos \div ChunkSize \in 0 .. Chunks(p) - 1
BY Parameters DEF Chunks

LEMMA ChunkBegins ==
  ASSUME NEW p, p.len \in Nat \ {0}, NEW k \in 0 .. Chunks(p) - 1
  PROVE  k \in Nat /\ k * ChunkSize < p.len
BY Parameters DEF Chunks

\* A chunk is an interval, the last one may be short.
LEMMA ChunkIsInterval ==
  ASSUME NEW len \in Nat, NEW k \in Nat, k * ChunkSize < len
  PROVE  \E last \in Nat : /\ k * ChunkSize <= last /\ last < len
                          /\ ChunkOf(len, k) = k * ChunkSize .. last
<1> DEFINE start == k * ChunkSize
           last == IF start + ChunkSize <= len THEN start + ChunkSize - 1 ELSE len - 1
<1>1. start \in Nat /\ ChunkSize \in Nat \ {0}
  BY ChunkStart, Parameters
<1>2. \A pos \in Nat : pos \div ChunkSize = k <=> start <= pos /\ pos < start + ChunkSize
  BY InChunk
<1>3. ChunkOf(len, k) = {pos \in 0 .. len - 1 : start <= pos /\ pos < start + ChunkSize}
  BY <1>2 DEF ChunkOf
<1> HIDE DEF start
<1>4. start < len
  BY DEF start
<1>5. last \in Nat /\ start <= last /\ last < len
  BY <1>1, <1>4
<1>6. {pos \in 0 .. len - 1 : start <= pos /\ pos < start + ChunkSize} = start .. last
  BY <1>1, <1>4
<1> QED BY <1>3, <1>5, <1>6 DEF start

\* Positions within a chunk are as many as positions of the packet.
LEMMA Shifted ==
  ASSUME NEW S \in SUBSET Int, IsFiniteSet(S), NEW start \in Int,
         NEW T, T = {pos - start : pos \in S}
  PROVE  IsFiniteSet(T) /\ Cardinality(T) = Cardinality(S)
<1> DEFINE f == [pos \in S |-> pos - start]
<1>1. f \in [S -> T] /\ \A t \in T : \E s \in S : f[s] = t
  OBVIOUS
<1>2. ASSUME NEW a \in S, NEW b \in S, f[a] = f[b]
      PROVE  a = b
  <2>1. a \in Int /\ b \in Int
    OBVIOUS
  <2>2. a - start = b - start
    BY <1>2
  <2> QED BY <2>1, <2>2
<1>3. f \in Surjection(S, T) /\ f \in Injection(S, T)
  BY <1>1, <1>2 DEF Surjection, Injection, IsInjective
<1> HIDE DEF f
<1> QED BY <1>3, FS_Surjection

-----------------------------------------------------------------------------
(* What is proved of a chunk.                                               *)

par(i, k) == getProofGenerationParamsForChunk(i, k)

\* The proofs of a packet.
Work(i) ==
  IF packets[i].reveal = "zk"
  THEN {proof \in {par(i, k) : k \in 0 .. Chunks(packets[i]) - 1} : ~isFullyRedacted(proof)}
  ELSE {}

AllWork == UNION {Work(i) : i \in Index}

WellFormed == \A i \in Index : IsPacket(packets[i])

LEMMA PacketFields ==
  ASSUME NEW p, IsPacket(p)
  PROVE  /\ p.len \in Nat \ {0} /\ p.given \in Nat /\ p.hidden \subseteq 0 .. p.given - 1
         /\ p.reveal \in Reveal
         /\ PlaintextLen(p) \in Nat /\ p.len <= PlaintextLen(p)
         /\ Fits(p) => PlaintextLen(p) = p.len
         /\ Chunks(p) \in Nat
BY Parameters DEF IsPacket, PlaintextLen, Fits, Chunks

\* The bytes a proof is about are those of its chunk, and it gives those that
\* are not hidden.
LEMMA ProofOfChunk ==
  ASSUME WellFormed, NEW i \in Index, NEW k \in 0 .. Chunks(packets[i]) - 1
  PROVE  LET chunk == ChunkOf(PlaintextLen(packets[i]), k) IN
         /\ par(i, k).packet = i
         /\ par(i, k).startIdx = k * ChunkSize
         /\ Covered(par(i, k)) = chunk
         /\ Given(par(i, k)) = chunk \ packets[i].hidden
         /\ par(i, k).ciphertext = ChunkOf(packets[i].len, k) \ packets[i].hidden
         /\ isFullyRedacted(par(i, k)) <=> chunk \subseteq packets[i].hidden
<1> DEFINE p == packets[i]
           start == k * ChunkSize
           chunk == ChunkOf(PlaintextLen(p), k)
           proof == par(i, k)
<1>1. IsPacket(p)
  BY DEF WellFormed
<1>2. k \in Nat /\ start < p.len /\ start \in Nat /\ p.len <= PlaintextLen(p)
      /\ PlaintextLen(p) \in Nat /\ p.len \in Nat
  BY <1>1, PacketFields, ChunkBegins, ChunkStart
<1>3. PICK last \in Nat : start <= last /\ chunk = start .. last
  BY <1>2, ChunkIsInterval
<1>4. /\ IsFiniteSet(chunk) /\ Cardinality(chunk) = last - start + 1
      /\ chunk \in SUBSET Int
  BY <1>2, <1>3, FS_Interval
<1>5. /\ proof.packet = i /\ proof.startIdx = start
      /\ proof.len = Cardinality(chunk)
      /\ proof.redacted = {pos - start : pos \in chunk \cap p.hidden}
      /\ proof.ciphertext = ChunkOf(p.len, k) \ p.hidden
  BY DEF par, getProofGenerationParamsForChunk
<1> DEFINE hidden == p.hidden
<1> HIDE DEF p, start, chunk, proof, hidden
<1>6. Covered(proof) = chunk
  BY <1>2, <1>3, <1>4, <1>5 DEF Covered
<1>7. Given(proof) = chunk \ hidden
  <2>1. ASSUME NEW pos \in chunk
        PROVE  pos - start \in proof.redacted <=> pos \in hidden
    BY <1>2, <1>4, <1>5 DEF hidden
  <2> QED BY <2>1, <1>5, <1>6 DEF Given
<1>8. isFullyRedacted(proof) <=> chunk \subseteq hidden
  <2> DEFINE both == chunk \cap hidden
  <2>1. both \in SUBSET chunk /\ both \in SUBSET Int
    BY <1>4
  <2>2. proof.redacted = {pos - start : pos \in both}
    BY <1>5 DEF hidden
  <2>3. both = chunk <=> chunk \subseteq hidden
    OBVIOUS
  <2> HIDE DEF both
  <2>4. IsFiniteSet(both) /\ (Cardinality(chunk) = Cardinality(both) => chunk = both)
    <3>1. IsFiniteSet(chunk)
      BY <1>4
    <3> QED BY <3>1, <2>1, FS_Subset
  <2>5. both = chunk => Cardinality(both) = Cardinality(chunk)
    BY Zenon
  <2>6. Cardinality(proof.redacted) = Cardinality(both)
    BY <1>2, <2>1, <2>2, <2>4, Shifted
  <2> QED BY <1>5, <2>2, <2>3, <2>4, <2>5, <2>6 DEF isFullyRedacted
<1> QED BY <1>5, <1>6, <1>7, <1>8 DEF p, start, chunk, proof, hidden

LEMMA WorkOfPacket ==
  ASSUME WellFormed, NEW i \in Index, NEW proof \in Work(i)
  PROVE  /\ proof.packet = i /\ packets[i].reveal = "zk"
         /\ ~isFullyRedacted(proof)
         /\ \E k \in 0 .. Chunks(packets[i]) - 1 : proof = par(i, k)
<1>1. PICK k \in 0 .. Chunks(packets[i]) - 1 : proof = par(i, k)
  BY DEF Work
<1> QED BY <1>1, ProofOfChunk DEF Work

LEMMA ChunksDiffer ==
  ASSUME WellFormed, NEW i \in Index,
         NEW k \in 0 .. Chunks(packets[i]) - 1, NEW m \in 0 .. Chunks(packets[i]) - 1,
         par(i, k) = par(i, m)
  PROVE  k = m
<1>1. k * ChunkSize = m * ChunkSize
  BY ProofOfChunk
<1>2. k \in Nat /\ m \in Nat
  BY PacketFields DEF WellFormed
<1> QED BY <1>1, <1>2, Parameters

\* Two proofs are about different bytes.
LEMMA ProofsAreApart ==
  ASSUME WellFormed, NEW i \in Index, NEW proof \in Work(i), NEW other \in Work(i),
         proof # other
  PROVE  Covered(proof) \cap Covered(other) = {}
<1>1. PICK k \in 0 .. Chunks(packets[i]) - 1 : proof = par(i, k)
  BY WorkOfPacket
<1>2. PICK m \in 0 .. Chunks(packets[i]) - 1 : other = par(i, m)
  BY WorkOfPacket
<1>3. k # m
  BY <1>1, <1>2
<1>4. /\ Covered(proof) = ChunkOf(PlaintextLen(packets[i]), k)
      /\ Covered(other) = ChunkOf(PlaintextLen(packets[i]), m)
  BY <1>1, <1>2, ProofOfChunk
<1> QED BY <1>3, <1>4 DEF ChunkOf

LEMMA GivenIsCovered ==
  ASSUME NEW proof
  PROVE  Given(proof) \subseteq Covered(proof)
BY DEF Given

\* A proof is valid unless its chunk reaches beyond the packet.
LEMMA WhenValid ==
  ASSUME WellFormed, NEW i \in Index, NEW proof \in Work(i)
  PROVE  Valid(proof) <=> Covered(proof) \subseteq 0 .. packets[i].len - 1
<1> DEFINE p == packets[i]
<1>1. PICK k \in 0 .. Chunks(p) - 1 : proof = par(i, k)
  BY WorkOfPacket
<1>2. /\ proof.packet = i
      /\ Given(proof) = ChunkOf(PlaintextLen(p), k) \ p.hidden
      /\ proof.ciphertext = ChunkOf(p.len, k) \ p.hidden
  BY <1>1, ProofOfChunk
<1>3. p.len \in Nat /\ PlaintextLen(p) \in Nat /\ p.len <= PlaintextLen(p)
  BY PacketFields DEF WellFormed
<1>4. ChunkOf(p.len, k) = ChunkOf(PlaintextLen(p), k) \cap (0 .. p.len - 1)
  BY <1>3 DEF ChunkOf
<1>5. proof.ciphertext = Given(proof) \cap (0 .. p.len - 1)
  BY <1>2, <1>4
<1> QED BY <1>2, <1>5 DEF Valid, isRedactionCongruent

LEMMA FittingProofsAreValid ==
  ASSUME WellFormed, NEW i \in Index, NEW proof \in Work(i), Fits(packets[i])
  PROVE  Valid(proof)
<1>1. PICK k \in 0 .. Chunks(packets[i]) - 1 : proof = par(i, k)
  BY WorkOfPacket
<1>2. Covered(proof) = ChunkOf(PlaintextLen(packets[i]), k)
  BY <1>1, ProofOfChunk
<1>3. PlaintextLen(packets[i]) = packets[i].len
  BY PacketFields DEF WellFormed
<1> QED BY <1>2, <1>3, WhenValid DEF ChunkOf

\* Valid proofs together give what is not hidden.
LEMMA WorkShowsAll ==
  ASSUME WellFormed, NEW i \in Index, packets[i].reveal = "zk",
         \A proof \in Work(i) : Valid(proof)
  PROVE  UNION {Given(proof) : proof \in Work(i)} = Shown(packets[i])
<1> DEFINE p == packets[i]
           L == PlaintextLen(p)
<1>1. p.len \in Nat \ {0} /\ L \in Nat /\ p.len <= L
  BY PacketFields DEF WellFormed
<1>2. ASSUME NEW proof \in Work(i)
      PROVE  Given(proof) \subseteq Shown(p)
  <2>1. PICK k \in 0 .. Chunks(p) - 1 : proof = par(i, k)
    BY WorkOfPacket
  <2>2. Given(proof) = ChunkOf(L, k) \ p.hidden
    BY <2>1, ProofOfChunk
  <2>3. Covered(proof) \subseteq 0 .. p.len - 1
    BY WhenValid
  <2> QED BY <2>2, <2>3, GivenIsCovered DEF Shown
<1>3. ASSUME NEW pos \in Shown(p)
      PROVE  \E proof \in Work(i) : pos \in Given(proof)
  <2> DEFINE k == pos \div ChunkSize
             proof == par(i, k)
  <2>1. pos \in 0 .. p.len - 1 /\ pos \notin p.hidden
    BY DEF Shown
  <2>2. k \in 0 .. Chunks(p) - 1
    BY <1>1, <2>1, ChunkOfPosition
  <2>3. pos \in ChunkOf(L, k)
    BY <1>1, <2>1 DEF ChunkOf
  <2> HIDE DEF k
  <2>4. /\ Given(proof) = ChunkOf(L, k) \ p.hidden
        /\ isFullyRedacted(proof) <=> ChunkOf(L, k) \subseteq p.hidden
    BY <2>2, ProofOfChunk
  <2>5. pos \in Given(proof) /\ ~isFullyRedacted(proof)
    BY <2>1, <2>3, <2>4
  <2> HIDE DEF proof
  <2>6. proof \in Work(i)
    BY <2>2, <2>5 DEF Work, proof
  <2> QED BY <2>5, <2>6
<1> QED BY <1>2, <1>3

-----------------------------------------------------------------------------
(* Sequences without repetition.                                            *)

Different(s) == \A a, b \in 1 .. Len(s) : s[a] = s[b] => a = b

LEMMA ElementsOf ==
  ASSUME NEW S, NEW s \in Seq(S)
  PROVE  /\ Len(s) \in Nat /\ DOMAIN s = 1 .. Len(s)
         /\ ToSet(s) = {s[n] : n \in 1 .. Len(s)}
         /\ ToSet(s) \subseteq S
         /\ s = <<>> <=> ToSet(s) = {}
BY DEF ToSet

LEMMA AppendElement ==
  ASSUME NEW S, NEW s \in Seq(S), NEW e \in S
  PROVE  /\ Append(s, e) \in Seq(S)
         /\ Len(Append(s, e)) = Len(s) + 1
         /\ ToSet(Append(s, e)) = ToSet(s) \cup {e}
         /\ Different(s) /\ e \notin ToSet(s) => Different(Append(s, e))
<1> DEFINE t == Append(s, e)
<1>1. /\ t \in Seq(S) /\ Len(t) = Len(s) + 1 /\ Len(s) \in Nat
      /\ \A n \in 1 .. Len(s) : t[n] = s[n]
      /\ t[Len(s) + 1] = e
  OBVIOUS
<1> HIDE DEF t
<1>2. ToSet(t) = ToSet(s) \cup {e}
  <2>1. /\ ToSet(t) = {t[n] : n \in 1 .. Len(t)}
        /\ ToSet(s) = {s[n] : n \in 1 .. Len(s)}
    BY <1>1, ElementsOf
  <2>2. 1 .. Len(t) = (1 .. Len(s)) \cup {Len(s) + 1}
    BY <1>1
  <2> QED BY <1>1, <2>1, <2>2
<1>3. ASSUME Different(s), e \notin ToSet(s),
             NEW a \in 1 .. Len(t), NEW b \in 1 .. Len(t), t[a] = t[b]
      PROVE  a = b
  <2>1. \A n \in 1 .. Len(s) : s[n] # e
    BY <1>3, ElementsOf
  <2> QED BY <1>1, <1>3, <2>1 DEF Different
<1>4. Different(s) /\ e \notin ToSet(s) => Different(t)
  BY <1>3 DEF Different
<1> QED BY <1>1, <1>2, <1>4 DEF t

LEMMA ConcatElements ==
  ASSUME NEW S, NEW s \in Seq(S), NEW t \in Seq(S)
  PROVE  /\ s \o t \in Seq(S)
         /\ ToSet(s \o t) = ToSet(s) \cup ToSet(t)
         /\ Different(s) /\ Different(t) /\ ToSet(s) \cap ToSet(t) = {} => Different(s \o t)
<1> DEFINE u == s \o t
<1>1. /\ u \in Seq(S) /\ Len(u) = Len(s) + Len(t) /\ Len(s) \in Nat /\ Len(t) \in Nat
      /\ \A n \in 1 .. Len(s) : u[n] = s[n]
      /\ \A n \in Len(s) + 1 .. Len(u) : n - Len(s) \in 1 .. Len(t) /\ u[n] = t[n - Len(s)]
      /\ \A n \in 1 .. Len(t) : n + Len(s) \in 1 .. Len(u) /\ u[n + Len(s)] = t[n]
  OBVIOUS
<1> HIDE DEF u
<1>2. /\ ToSet(u) = {u[n] : n \in 1 .. Len(u)}
      /\ ToSet(s) = {s[n] : n \in 1 .. Len(s)}
      /\ ToSet(t) = {t[n] : n \in 1 .. Len(t)}
  BY <1>1, ElementsOf
<1>3. ToSet(u) = ToSet(s) \cup ToSet(t)
  <2>1. \A n \in 1 .. Len(u) : n \in 1 .. Len(s) \/ n \in Len(s) + 1 .. Len(u)
    BY <1>1
  <2>2. ToSet(u) \subseteq ToSet(s) \cup ToSet(t)
    BY <1>1, <1>2, <2>1
  <2>3. ToSet(s) \subseteq ToSet(u)
    BY <1>1, <1>2
  <2>4. ToSet(t) \subseteq ToSet(u)
    BY <1>1, <1>2
  <2> QED BY <2>2, <2>3, <2>4
<1>4. ASSUME Different(s), Different(t), ToSet(s) \cap ToSet(t) = {},
             NEW a \in 1 .. Len(u), NEW b \in 1 .. Len(u), u[a] = u[b]
      PROVE  a = b
  <2>1. CASE a \in 1 .. Len(s) /\ b \in 1 .. Len(s)
    BY <1>1, <1>4, <2>1 DEF Different
  <2>2. CASE a \in Len(s) + 1 .. Len(u) /\ b \in Len(s) + 1 .. Len(u)
    <3>1. /\ a - Len(s) \in 1 .. Len(t) /\ u[a] = t[a - Len(s)]
          /\ b - Len(s) \in 1 .. Len(t) /\ u[b] = t[b - Len(s)]
      BY <1>1, <2>2
    <3>2. a - Len(s) = b - Len(s)
      BY <1>4, <3>1 DEF Different
    <3> QED BY <1>1, <3>2
  <2>3. ASSUME NEW n \in 1 .. Len(s), NEW m \in Len(s) + 1 .. Len(u)
        PROVE  u[n] # u[m]
    <3>1. u[n] \in ToSet(s) /\ u[m] \in ToSet(t)
      BY <1>1, <1>2
    <3> QED BY <3>1, <1>4
  <2> QED BY <1>1, <1>4, <2>1, <2>2, <2>3
<1>5. Different(s) /\ Different(t) /\ ToSet(s) \cap ToSet(t) = {} => Different(u)
  BY <1>4 DEF Different
<1> QED BY <1>1, <1>3, <1>5 DEF u

LEMMA TailElements ==
  ASSUME NEW S, NEW s \in Seq(S), s # <<>>, Different(s)
  PROVE  /\ Head(s) \in ToSet(s) /\ Tail(s) \in Seq(S) /\ Different(Tail(s))
         /\ Len(Tail(s)) = Len(s) - 1
         /\ ToSet(Tail(s)) = ToSet(s) \ {Head(s)}
<1> DEFINE t == Tail(s)
<1>1. /\ t \in Seq(S) /\ Len(t) = Len(s) - 1 /\ Len(s) \in Nat \ {0} /\ Head(s) = s[1]
      /\ \A n \in 1 .. Len(t) : n + 1 \in 1 .. Len(s) /\ t[n] = s[n + 1]
  OBVIOUS
<1> HIDE DEF t
<1>2. /\ ToSet(s) = {s[n] : n \in 1 .. Len(s)}
      /\ ToSet(t) = {t[n] : n \in 1 .. Len(t)}
  BY <1>1, ElementsOf
<1>3. Different(t)
  <2> SUFFICES ASSUME NEW a \in 1 .. Len(t), NEW b \in 1 .. Len(t), t[a] = t[b]
               PROVE  a = b
    BY DEF Different
  <2>1. a + 1 = b + 1
    BY <1>1 DEF Different
  <2> QED BY <1>1, <2>1
<1>4. ToSet(t) = ToSet(s) \ {Head(s)}
  <2>1. \A n \in 1 .. Len(t) : s[n + 1] # s[1]
    BY <1>1 DEF Different
  <2>2. \A n \in 1 .. Len(s) : n = 1 \/ (n - 1 \in 1 .. Len(t) /\ t[n - 1] = s[n])
    BY <1>1
  <2>3. ToSet(t) \subseteq ToSet(s) \ {Head(s)}
    BY <1>1, <1>2, <2>1
  <2>4. ToSet(s) \ {Head(s)} \subseteq ToSet(t)
    BY <1>1, <1>2, <2>2
  <2> QED BY <2>3, <2>4
<1> QED BY <1>1, <1>2, <1>3, <1>4 DEF t

\* They are as long as their elements are many.
LEMMA CountOf ==
  ASSUME NEW S, NEW s \in Seq(S), Different(s)
  PROVE  IsFiniteSet(ToSet(s)) /\ Cardinality(ToSet(s)) = Len(s)
<1>1. Len(s) \in Nat /\ DOMAIN s = 1 .. Len(s) /\ ToSet(s) = {s[n] : n \in 1 .. Len(s)}
  BY ElementsOf
<1>2. s \in [1 .. Len(s) -> ToSet(s)]
  BY <1>1
<1>3. s \in Surjection(1 .. Len(s), ToSet(s)) /\ s \in Injection(1 .. Len(s), ToSet(s))
  BY <1>1, <1>2 DEF Surjection, Injection, IsInjective, Different
<1>4. IsFiniteSet(1 .. Len(s)) /\ Cardinality(1 .. Len(s)) = Len(s)
  BY <1>1, FS_Interval
<1> QED BY <1>3, <1>4, FS_Surjection

-----------------------------------------------------------------------------
(* The loop over the chunks, by induction over their number.                *)

LoopBody(f, i, n) ==
  IF n = 0 THEN <<>>
  ELSE IF isFullyRedacted(par(i, n - 1)) THEN f[n - 1] ELSE Append(f[n - 1], par(i, n - 1))

LEMMA LoopExists ==
  ASSUME NEW i, NEW chunks \in Nat
  PROVE  \E f : f = [n \in 0 .. chunks |-> LoopBody(f, i, n)]
<1> DEFINE P == {m \in Nat : \E f : f = [n \in 0 .. m |-> LoopBody(f, i, n)]}
<1>1. 0 \in P
  <2> DEFINE f == [n \in 0 .. 0 |-> <<>>]
  <2>1. f = [n \in 0 .. 0 |-> LoopBody(f, i, n)]
    BY DEF LoopBody
  <2> QED BY <2>1
<1>2. ASSUME NEW m \in Nat, m \in P
      PROVE  m + 1 \in P
  <2>1. PICK f : f = [n \in 0 .. m |-> LoopBody(f, i, n)]
    BY <1>2
  <2> DEFINE g == [n \in 0 .. m + 1 |-> IF n = m + 1 THEN LoopBody(f, i, m + 1) ELSE f[n]]
  <2>2. /\ DOMAIN g = 0 .. m + 1 /\ g[m + 1] = LoopBody(f, i, m + 1)
        /\ \A n \in 0 .. m : g[n] = f[n] /\ n # m + 1
    OBVIOUS
  <2>3. \A n \in 0 .. m : f[n] = LoopBody(f, i, n)
    BY <2>1
  <2>4. g = [n \in 0 .. m + 1 |-> g[n]]
    OBVIOUS
  <2> HIDE DEF g
  <2>5. ASSUME NEW n \in 0 .. m + 1
        PROVE  g[n] = LoopBody(g, i, n) /\ (n # 0 => n - 1 \in 0 .. m)
    <3>1. n # 0 => n - 1 \in 0 .. m /\ g[n - 1] = f[n - 1]
      BY <2>2
    <3>2. LoopBody(g, i, n) = LoopBody(f, i, n)
      BY <3>1 DEF LoopBody
    <3>3. CASE n = m + 1
      BY <2>2, <3>1, <3>2, <3>3
    <3>4. CASE n \in 0 .. m
      BY <2>2, <2>3, <3>1, <3>2, <3>4
    <3> QED BY <3>3, <3>4
  <2>6. g = [n \in 0 .. m + 1 |-> LoopBody(g, i, n)]
    BY <2>4, <2>5
  <2> QED BY <2>6
<1> HIDE DEF P
<1>3. Nat \subseteq P
  BY <1>1, <1>2, InductionOverNat
<1> QED BY <1>3 DEF P

Cut(i, n) ==
  {proof \in {par(i, k) : k \in 0 .. n - 1} : ~isFullyRedacted(proof)}

LEMMA LoopMakes ==
  ASSUME WellFormed, NEW i \in Index, NEW f,
         f = [n \in 0 .. Chunks(packets[i]) |-> LoopBody(f, i, n)],
         NEW n \in 0 .. Chunks(packets[i])
  PROVE  /\ f[n] \in Seq(Cut(i, n)) /\ Different(f[n])
         /\ ToSet(f[n]) = Cut(i, n)
<1> DEFINE chunks == Chunks(packets[i])
           Made(m) == /\ f[m] \in Seq(Cut(i, m)) /\ Different(f[m])
                      /\ ToSet(f[m]) = Cut(i, m)
           P == {m \in Nat : m <= chunks => Made(m)}
<1>1. chunks \in Nat
  BY PacketFields DEF WellFormed
<1>2. \A m \in 0 .. chunks : f[m] = LoopBody(f, i, m)
  OBVIOUS
<1>3. 0 \in P
  <2>1. f[0] = <<>> /\ Cut(i, 0) = {}
    BY <1>1, <1>2 DEF LoopBody, Cut
  <2>2. <<>> \in Seq({}) /\ Different(<<>>) /\ ToSet(<<>>) = {}
    BY DEF Different, ToSet
  <2> QED BY <2>1, <2>2
<1>4. ASSUME NEW m \in Nat, m \in P
      PROVE  m + 1 \in P
  <2> SUFFICES ASSUME m + 1 <= chunks PROVE Made(m + 1)
    OBVIOUS
  <2> DEFINE proof == par(i, m)
             s == f[m]
             S == Cut(i, m + 1)
  <2>1. s \in Seq(Cut(i, m)) /\ Different(s) /\ ToSet(s) = Cut(i, m)
    BY <1>1, <1>4
  <2>2. f[m + 1] = IF isFullyRedacted(proof) THEN s ELSE Append(s, proof)
    BY <1>1, <1>2 DEF LoopBody
  <2>3. m \in 0 .. chunks - 1 /\ (m + 1) - 1 = m
        /\ \A k \in 0 .. m - 1 : k \in 0 .. chunks - 1 /\ k # m
        /\ 0 .. m = (0 .. m - 1) \cup {m}
    BY <1>1
  <2>4. S = Cut(i, m) \cup (IF isFullyRedacted(proof) THEN {} ELSE {proof})
    BY <2>3 DEF Cut
  <2>5. proof \notin Cut(i, m)
    <3>1. ASSUME NEW k \in 0 .. m - 1
          PROVE  par(i, k) # par(i, m)
      BY <2>3, ChunksDiffer
    <3> QED BY <3>1 DEF Cut
  <2> HIDE DEF proof, s, S
  <2>6. s \in Seq(S)
    <3>1. Cut(i, m) \subseteq S
      BY <2>4
    <3> QED BY <2>1, <3>1
  <2>7. CASE isFullyRedacted(proof)
    BY <2>1, <2>2, <2>4, <2>6, <2>7 DEF S
  <2>8. CASE ~isFullyRedacted(proof)
    <3>1. proof \in S /\ S = Cut(i, m) \cup {proof}
      BY <2>4, <2>8
    <3>2. /\ Append(s, proof) \in Seq(S) /\ Different(Append(s, proof))
          /\ ToSet(Append(s, proof)) = ToSet(s) \cup {proof}
      BY <2>1, <2>5, <2>6, <3>1, AppendElement
    <3> QED BY <2>1, <2>2, <2>8, <3>1, <3>2 DEF S
  <2> QED BY <2>7, <2>8
<1> HIDE DEF P
<1>5. Nat \subseteq P
  BY <1>3, <1>4, InductionOverNat
<1>6. n \in P /\ n <= chunks
  BY <1>1, <1>5
<1> QED BY <1>6 DEF P

\* proofsToGenerate has each proof of the packet once.
LEMMA ProofsToGenerate ==
  ASSUME WellFormed, NEW i \in Index, packets[i].reveal = "zk"
  PROVE  /\ proofsToGenerate(i) \in Seq(Work(i)) /\ Different(proofsToGenerate(i))
         /\ ToSet(proofsToGenerate(i)) = Work(i)
<1> DEFINE chunks == Chunks(packets[i])
           upTo[n \in 0 .. chunks] ==
             IF n = 0 THEN <<>>
             ELSE LET proof == getProofGenerationParamsForChunk(i, n - 1)
                  IN  IF isFullyRedacted(proof) THEN upTo[n - 1] ELSE Append(upTo[n - 1], proof)
<1>1. chunks \in Nat
  BY PacketFields DEF WellFormed
<1>2. proofsToGenerate(i) = upTo[chunks]
  BY DEF proofsToGenerate
<1>3. \E f : f = [n \in 0 .. chunks |-> LoopBody(f, i, n)]
  BY <1>1, LoopExists
<1>4. upTo = [n \in 0 .. chunks |-> LoopBody(upTo, i, n)]
  BY <1>3 DEF LoopBody, par
<1> HIDE DEF upTo
<1>5. chunks \in 0 .. chunks
  BY <1>1
<1>6. /\ upTo[chunks] \in Seq(Cut(i, chunks)) /\ Different(upTo[chunks])
      /\ ToSet(upTo[chunks]) = Cut(i, chunks)
  BY <1>4, <1>5, LoopMakes
<1>7. Cut(i, chunks) = Work(i)
  BY DEF Cut, Work
<1> QED BY <1>2, <1>6, <1>7

-----------------------------------------------------------------------------
(* The inductive invariant.                                                 *)

Zk == {i \in Index : packets[i].reveal = "zk"}

ClientType ==
  /\ packets \in Transcripts
  /\ exporting \subseteq {i \in Index : packets[i].reveal # "none"}
  /\ queue \in Seq(AllWork)
  /\ running \subseteq AllWork /\ IsFiniteSet(running)
  /\ proofs \in [Index -> Seq(AllWork)]
  /\ reveal \in [Index -> {"undefined", "direct", "zk"}]
  /\ progress \in [done : Nat, total : Nat]
  /\ result \in {"preparing", "proving", "resolved", "rejected"}

WitnessType ==
  /\ checking \subseteq AllWork
  /\ refused \subseteq Index
  /\ seen \in [Index -> SUBSET Int]
  /\ verdict \in {"none", "pending", "valid", "invalid"}

\* A proof is queued, being made or made.
Apart ==
  /\ Different(queue)
  /\ ToSet(queue) \cap running = {}
  /\ \A i \in Index :
       /\ Different(proofs[i])
       /\ ToSet(proofs[i]) \subseteq Work(i)
       /\ ToSet(proofs[i]) \cap (ToSet(queue) \cup running) = {}

\* Nothing is proved of a packet without its key.
NothingBeforeKey ==
  \A i \in exporting :
    /\ Work(i) \cap (ToSet(queue) \cup running \cup ToSet(proofs[i])) = {}
    /\ reveal[i] = "undefined"

\* Until something fails no packet and no proof is forgotten.
NothingIsLost ==
  result # "rejected" =>
    \A i \in Index \ exporting :
      /\ Work(i) \subseteq ToSet(queue) \cup running \cup ToSet(proofs[i])
      /\ packets[i].reveal = "complete" => reveal[i] = "direct"

Delivered ==
  \A i \in Index :
    /\ reveal[i] = "zk" <=> Work(i) # {} /\ ToSet(proofs[i]) = Work(i)
    /\ reveal[i] = "direct" => packets[i].reveal = "complete"

Stages ==
  /\ result = "preparing" => progress.total = 0
  /\ result \in {"proving", "resolved"} => exporting = {}
  /\ result = "resolved" => queue = <<>> /\ running = {}

Counted ==
  /\ progress.total = 0 => progress.done = 0 /\ running = {}
  /\ progress.total > 0 =>
       /\ exporting = {}
       /\ progress.done + Len(queue) + Cardinality(running) <= progress.total
  /\ result \in {"proving", "resolved"} =>
       progress.done + Len(queue) + Cardinality(running) = progress.total

ClientInv ==
  /\ ClientType /\ Apart /\ NothingBeforeKey /\ NothingIsLost /\ Delivered
  /\ Stages /\ Counted

\* What the witness has verified of a packet is what it sees of it.
SeenOf(i) ==
  CASE packets[i].reveal = "none" -> {}
    [] packets[i].reveal = "complete" -> 0 .. packets[i].len - 1
    [] packets[i].reveal = "zk" -> UNION {Given(proof) : proof \in Work(i) \ checking}

NothingYet ==
  verdict = "none" => checking = {} /\ refused = {} /\ seen = [i \in Index |-> {}]

Verified ==
  verdict # "none" =>
    \A i \in Index :
      /\ seen[i] \subseteq 0 .. packets[i].len - 1
      /\ i \notin refused => /\ seen[i] = SeenOf(i)
                             /\ \A proof \in Work(i) \ checking : Valid(proof)
      /\ i \in refused => \E proof \in Work(i) : ~Valid(proof)

Judged ==
  /\ verdict # "none" => result = "resolved"
  /\ verdict = "valid" => refused = {}
  /\ verdict = "invalid" => refused # {}
  /\ verdict \in {"valid", "invalid"} => checking = {}

WitnessInv == WitnessType /\ NothingYet /\ Verified /\ Judged

ZkInv == ClientInv /\ WitnessInv

-----------------------------------------------------------------------------
(* The transcript is given, and so is what there is to prove of it.         *)

LEMMA Fixed ==
  ASSUME packets' = packets
  PROVE  /\ Index' = Index /\ AllWork' = AllWork
         /\ \A i : Work(i)' = Work(i)
         /\ \A proof : Valid(proof)' <=> Valid(proof)
<1>1. Index' = Index
  BY DEF Index
<1>2. ASSUME NEW i PROVE Work(i)' = Work(i)
  BY DEF Work, par, getProofGenerationParamsForChunk, isFullyRedacted
<1>3. AllWork' = AllWork
  BY <1>1, <1>2 DEF AllWork
<1>4. ASSUME NEW proof PROVE Valid(proof)' <=> Valid(proof)
  BY DEF Valid, isRedactionCongruent
<1> QED BY <1>1, <1>2, <1>3, <1>4

LEMMA TranscriptsAreWellFormed ==
  ASSUME packets \in Transcripts
  PROVE  WellFormed
BY ZkAssumption DEF WellFormed, Index

LEMMA Owner ==
  ASSUME WellFormed, NEW proof \in AllWork
  PROVE  /\ proof.packet \in Index /\ proof \in Work(proof.packet)
         /\ \A i \in Index : proof \in Work(i) => i = proof.packet
BY WorkOfPacket DEF AllWork

LEMMA WorkCount ==
  ASSUME WellFormed, NEW i \in Index
  PROVE  /\ IsFiniteSet(Work(i))
         /\ packets[i].reveal = "zk" => Cardinality(Work(i)) = Len(proofsToGenerate(i))
<1>1. CASE packets[i].reveal = "zk"
  BY <1>1, ProofsToGenerate, CountOf
<1>2. CASE packets[i].reveal # "zk"
  BY <1>2, FS_EmptySet DEF Work
<1> QED BY <1>1, <1>2

LEMMA InitInv ==
  ASSUME Init
  PROVE  ZkInv
<1> USE DEF Init
<1>1. ToSet(<<>>) = {} /\ Different(<<>>) /\ Len(<<>>) = 0
  BY DEF ToSet, Different
<1>2. result = "preparing"
  BY <1>1, Parameters DEF getTotalChunksToProve
<1>3. ClientType
  BY <1>2, FS_EmptySet DEF ClientType
<1>4. Apart /\ NothingBeforeKey
  BY <1>1 DEF Apart, NothingBeforeKey
<1>5. NothingIsLost
  BY <1>1, TranscriptsAreWellFormed DEF NothingIsLost, Work
<1>6. Delivered
  BY <1>1 DEF Delivered
<1>7. Stages /\ Counted
  BY <1>1, <1>2 DEF Stages, Counted
<1>8. WitnessType
  BY DEF WitnessType
<1>9. NothingYet /\ Verified /\ Judged
  BY DEF NothingYet, Verified, Judged
<1> QED BY <1>3, <1>4, <1>5, <1>6, <1>7, <1>8, <1>9 DEF ZkInv, ClientInv, WitnessInv

-----------------------------------------------------------------------------
(* Steps of the client.                                                     *)

LEMMA ClientOf ==
  ASSUME ClientInv
  PROVE  /\ WellFormed
         /\ progress.done \in Nat /\ progress.total \in Nat
         /\ Len(queue) \in Nat /\ Cardinality(running) \in Nat
         /\ ToSet(queue) \subseteq AllWork
         /\ exporting # {} => progress.total = 0 /\ running = {}
BY TranscriptsAreWellFormed, ElementsOf, FS_CardinalityType
   DEF ClientInv, ClientType, Counted

LEMMA KeyExportedStep ==
  ASSUME ClientInv, NEW i \in Index, KeyExported(i)
  PROVE  ClientInv'
<1> USE DEF KeyExported
<1> DEFINE new == IF packets[i].reveal = "zk" THEN proofsToGenerate(i) ELSE <<>>
<1>1. /\ packets[i].reveal \in {"complete", "zk"} /\ WellFormed /\ packets' = packets
      /\ exporting # {} /\ progress.total = 0 /\ running = {} /\ exporting' = exporting \ {i}
  BY ClientOf, PacketFields DEF ClientInv, ClientType, WellFormed, Reveal
<1>2. /\ Index' = Index /\ AllWork' = AllWork /\ \A j : Work(j)' = Work(j)
  BY <1>1, Fixed
<1>3. new \in Seq(AllWork) /\ Different(new) /\ ToSet(new) = Work(i)
  <2>1. CASE packets[i].reveal = "zk"
    <3>1. /\ proofsToGenerate(i) \in Seq(Work(i)) /\ Different(proofsToGenerate(i))
          /\ ToSet(proofsToGenerate(i)) = Work(i)
      BY <1>1, <2>1, ProofsToGenerate
    <3>2. Work(i) \subseteq AllWork
      BY DEF AllWork
    <3> QED BY <2>1, <3>1, <3>2
  <2>2. CASE packets[i].reveal # "zk"
    <3>1. <<>> \in Seq(AllWork) /\ Different(<<>>) /\ ToSet(<<>>) = {}
      BY DEF Different, ToSet
    <3> QED BY <2>2, <3>1 DEF Work
  <2> QED BY <2>1, <2>2
<1>4. queue \in Seq(AllWork)
  BY DEF ClientInv, ClientType
<1>5. queue' = queue \o new
  BY <1>1, <1>4
<1>6. reveal' = IF packets[i].reveal = "complete"
                THEN [reveal EXCEPT ![i] = "direct"] ELSE reveal
  BY <1>1
<1> HIDE DEF new
<1>7. /\ Work(i) \cap (ToSet(queue) \cup running \cup ToSet(proofs[i])) = {}
      /\ reveal[i] = "undefined"
  BY DEF ClientInv, NothingBeforeKey
<1>8. /\ queue' \in Seq(AllWork) /\ Different(queue')
      /\ ToSet(queue') = ToSet(queue) \cup Work(i)
  BY <1>3, <1>4, <1>5, <1>7, ConcatElements DEF ClientInv, Apart
<1>9. \A j \in Index : j # i => Work(i) \cap Work(j) = {}
  BY <1>1, WorkOfPacket
<1> HIDE DEF KeyExported
<1>10. UNCHANGED <<packets, running, proofs, progress, result>>
  BY DEF KeyExported
<1>11. ClientType'
  BY <1>1, <1>2, <1>6, <1>8, <1>10 DEF ClientInv, ClientType
<1>12. Apart'
  <2>1. Different(queue') /\ ToSet(queue') \cap running' = {}
    BY <1>1, <1>8, <1>10
  <2>2. ASSUME NEW j \in Index
        PROVE  /\ Different(proofs[j]) /\ ToSet(proofs[j]) \subseteq Work(j)
               /\ ToSet(proofs[j]) \cap (ToSet(queue') \cup running) = {}
    BY <1>7, <1>8, <1>9 DEF ClientInv, Apart
  <2> QED BY <1>2, <1>10, <2>1, <2>2 DEF Apart
<1>13. NothingBeforeKey'
  <2>1. ASSUME NEW j \in exporting \ {i}
        PROVE  /\ Work(j) \cap (ToSet(queue') \cup running \cup ToSet(proofs[j])) = {}
               /\ reveal'[j] = "undefined"
    <3>1. j \in Index /\ j # i
      BY DEF ClientInv, ClientType
    <3> QED BY <1>6, <1>8, <1>9, <3>1 DEF ClientInv, ClientType, NothingBeforeKey
  <2> QED BY <1>1, <1>2, <1>10, <2>1 DEF NothingBeforeKey
<1>14. NothingIsLost'
  <2>1. ASSUME result # "rejected", NEW j \in Index \ (exporting \ {i})
        PROVE  /\ Work(j) \subseteq ToSet(queue') \cup running \cup ToSet(proofs[j])
               /\ packets[j].reveal = "complete" => reveal'[j] = "direct"
    <3>1. CASE j = i
      BY <1>6, <1>8, <3>1 DEF ClientInv, ClientType
    <3>2. CASE j # i
      BY <1>6, <1>8, <2>1, <3>2 DEF ClientInv, ClientType, NothingIsLost
    <3> QED BY <3>1, <3>2
  <2> QED BY <1>1, <1>2, <1>10, <2>1 DEF NothingIsLost
<1>15. Delivered'
  <2>1. ASSUME NEW j \in Index
        PROVE  /\ reveal'[j] = "zk" <=> Work(j) # {} /\ ToSet(proofs[j]) = Work(j)
               /\ reveal'[j] = "direct" => packets[j].reveal = "complete"
    <3>1. packets[i].reveal = "complete" => Work(i) = {}
      BY DEF Work
    <3> QED BY <1>6, <3>1 DEF ClientInv, ClientType, Delivered
  <2> QED BY <1>1, <1>2, <1>10, <2>1 DEF Delivered
<1>16. Stages' /\ Counted'
  BY <1>1, <1>10 DEF ClientInv, Stages, Counted
<1> QED BY <1>11, <1>12, <1>13, <1>14, <1>15, <1>16 DEF ClientInv

\* A call that fails: nothing else changes but that a key or a proof is lost.
LEMMA FailedStep ==
  ASSUME ClientInv, result' = "rejected",
         exporting' \subseteq exporting, running' \subseteq running,
         UNCHANGED <<packets, queue, proofs, reveal, progress>>
  PROVE  ClientInv'
<1>1. /\ Index' = Index /\ AllWork' = AllWork /\ \A j : Work(j)' = Work(j)
  BY Fixed
<1>2. IsFiniteSet(running') /\ Cardinality(running') <= Cardinality(running)
      /\ Cardinality(running') \in Nat
  BY FS_Subset, FS_CardinalityType DEF ClientInv, ClientType
<1>3. ClientType'
  BY <1>1, <1>2 DEF ClientInv, ClientType
<1>4. Apart' /\ NothingBeforeKey'
  BY <1>1 DEF ClientInv, Apart, NothingBeforeKey
<1>5. NothingIsLost' /\ Delivered' /\ Stages'
  BY <1>1 DEF ClientInv, NothingIsLost, Delivered, Stages
<1>6. Counted'
  <2>1. ASSUME progress.total > 0
        PROVE  exporting' = {} /\ progress.done + Len(queue) + Cardinality(running') <= progress.total
    BY <1>2, <2>1, ClientOf DEF ClientInv, Counted
  <2> QED BY <2>1 DEF ClientInv, Counted
<1> QED BY <1>3, <1>4, <1>5, <1>6 DEF ClientInv

LEMMA KeyRefusedStep ==
  ASSUME ClientInv, NEW i \in Index, KeyRefused(i)
  PROVE  ClientInv'
BY FailedStep DEF KeyRefused

LEMMA ProofFailedStep ==
  ASSUME ClientInv, NEW proof \in running, ProofFailed(proof)
  PROVE  ClientInv'
BY FailedStep DEF ProofFailed

LEMMA GenerateProofsStep ==
  ASSUME ClientInv, generateProofs
  PROVE  ClientInv'
<1> USE DEF generateProofs
<1>1. /\ Index' = Index /\ AllWork' = AllWork /\ \A j : Work(j)' = Work(j)
  BY Fixed
<1>2. progress.total = 0 /\ running = {} /\ Len(queue) \in Nat
  BY ClientOf DEF ClientInv, Stages, Counted
<1>3. progress' = [done |-> 0, total |-> Len(queue)]
  BY DEF getTotalChunksToProve
<1>4. ClientType'
  BY <1>1, <1>2, <1>3 DEF ClientInv, ClientType
<1>5. Apart' /\ NothingBeforeKey' /\ NothingIsLost' /\ Delivered'
  BY <1>1 DEF ClientInv, Apart, NothingBeforeKey, NothingIsLost, Delivered
<1>6. Stages'
  BY DEF Stages
<1>7. Counted'
  BY <1>2, <1>3, FS_EmptySet DEF Counted
<1> QED BY <1>4, <1>5, <1>6, <1>7 DEF ClientInv

LEMMA FinishStep ==
  ASSUME ClientInv, Finish
  PROVE  ClientInv'
<1> USE DEF Finish
<1>1. /\ Index' = Index /\ AllWork' = AllWork /\ \A j : Work(j)' = Work(j)
  BY Fixed
<1>2. ClientType'
  BY <1>1 DEF ClientInv, ClientType
<1>3. Apart' /\ NothingBeforeKey' /\ NothingIsLost' /\ Delivered'
  BY <1>1 DEF ClientInv, Apart, NothingBeforeKey, NothingIsLost, Delivered
<1>4. Stages' /\ Counted'
  BY DEF ClientInv, Stages, Counted
<1> QED BY <1>2, <1>3, <1>4 DEF ClientInv

LEMMA StartProofStep ==
  ASSUME ClientInv, StartProof
  PROVE  ClientInv'
<1> USE DEF StartProof
<1>1. /\ Index' = Index /\ AllWork' = AllWork /\ \A j : Work(j)' = Work(j)
  BY Fixed
<1> DEFINE proof == Head(queue)
<1>2. /\ proof \in ToSet(queue) /\ queue' \in Seq(AllWork) /\ Different(queue')
      /\ Len(queue') = Len(queue) - 1
      /\ ToSet(queue') = ToSet(queue) \ {proof}
  BY TailElements DEF ClientInv, ClientType, Apart
<1>3. running' = running \cup {proof} /\ proof \in AllWork /\ proof \notin running
  BY <1>2, ClientOf DEF ClientInv, Apart
<1> HIDE DEF proof
<1>4. IsFiniteSet(running') /\ Cardinality(running') = Cardinality(running) + 1
  <2>1. IsFiniteSet(running)
    BY DEF ClientInv, ClientType
  <2>2. /\ IsFiniteSet(running \cup {proof})
        /\ Cardinality(running \cup {proof}) = Cardinality(running) + 1
    BY <1>3, <2>1, FS_AddElement
  <2> QED BY <1>3, <2>2
<1>5. ToSet(queue') \cup running' = ToSet(queue) \cup running
  BY <1>2, <1>3
<1>6. /\ progress.total > 0 /\ UNCHANGED <<packets, exporting, proofs, reveal, progress, result>>
  BY DEF Proving
<1> HIDE DEF StartProof
<1>7. ClientType'
  BY <1>1, <1>2, <1>3, <1>4, <1>6 DEF ClientInv, ClientType
<1>8. Apart'
  <2>1. ToSet(queue') \cap running' = {}
    BY <1>2, <1>3 DEF ClientInv, Apart
  <2>2. \A j \in Index : ToSet(proofs[j]) \cap (ToSet(queue') \cup running') = {}
    BY <1>5 DEF ClientInv, Apart
  <2> QED BY <1>1, <1>2, <1>6, <2>1, <2>2 DEF ClientInv, Apart
<1>9. NothingBeforeKey' /\ Delivered'
  <2>1. ASSUME NEW j \in exporting
        PROVE  /\ Work(j) \cap (ToSet(queue') \cup running' \cup ToSet(proofs[j])) = {}
               /\ reveal[j] = "undefined"
    BY <1>5 DEF ClientInv, NothingBeforeKey
  <2>2. NothingBeforeKey'
    BY <1>1, <1>6, <2>1 DEF NothingBeforeKey
  <2>3. Delivered'
    BY <1>1, <1>6 DEF ClientInv, Delivered
  <2> QED BY <2>2, <2>3
<1>10. NothingIsLost'
  <2>1. ASSUME result # "rejected", NEW j \in Index \ exporting
        PROVE  /\ Work(j) \subseteq ToSet(queue') \cup running' \cup ToSet(proofs[j])
               /\ packets[j].reveal = "complete" => reveal[j] = "direct"
    BY <1>5, <2>1 DEF ClientInv, NothingIsLost
  <2> QED BY <1>1, <1>6, <2>1 DEF NothingIsLost
<1>11. Stages' /\ Counted'
  <2>1. Len(queue) \in Nat /\ Cardinality(running) \in Nat /\ Len(queue) # 0
        /\ progress.done \in Nat /\ progress.total \in Nat
    BY <1>2, ClientOf, ElementsOf DEF ClientInv, ClientType
  <2>2. result # "resolved" /\ result # "preparing"
    BY <1>2, <1>6, <2>1 DEF ClientInv, Stages
  <2>3. Stages'
    BY <1>6, <2>2 DEF ClientInv, Stages
  <2>4. Counted'
    BY SMTT(30), <1>2, <1>4, <1>6, <2>1 DEF ClientInv, Counted
  <2> QED BY <2>3, <2>4
<1> QED BY <1>7, <1>8, <1>9, <1>10, <1>11 DEF ClientInv

\* The last proof of a packet, in whatever order they were made, delivers all.
LEMMA LastProof ==
  ASSUME ClientInv, NEW i \in Index, NEW proof \in Work(i), proof \notin ToSet(proofs[i])
  PROVE  LET made == Append(proofs[i], proof) IN
         /\ made \in Seq(Work(i)) /\ Different(made)
         /\ ToSet(made) = ToSet(proofs[i]) \cup {proof}
         /\ proofsLeft(i) = 1 <=> ToSet(made) = Work(i)
<1> DEFINE s == proofs[i]
           made == Append(s, proof)
<1>1. WellFormed /\ packets[i].reveal = "zk"
  BY ClientOf, WorkOfPacket
<1>2. s \in Seq(AllWork) /\ Different(s) /\ ToSet(s) \subseteq Work(i)
  BY DEF ClientInv, ClientType, Apart
<1>3. s \in Seq(Work(i)) /\ Len(s) \in Nat
  <2>1. s \in [1 .. Len(s) -> Work(i)] /\ Len(s) \in Nat
    BY <1>2, ElementsOf
  <2> QED BY <2>1
<1> HIDE DEF s
<1>4. /\ made \in Seq(Work(i)) /\ Different(made) /\ Len(made) = Len(s) + 1
      /\ ToSet(made) = ToSet(s) \cup {proof}
  BY <1>2, <1>3, AppendElement DEF s
<1> HIDE DEF made
<1>5. IsFiniteSet(ToSet(made)) /\ Cardinality(ToSet(made)) = Len(s) + 1
  BY <1>4, CountOf
<1>6. /\ IsFiniteSet(Work(i)) /\ Cardinality(Work(i)) \in Nat
      /\ Cardinality(Work(i)) = Len(proofsToGenerate(i))
  BY <1>1, WorkCount, FS_CardinalityType
<1>7. ToSet(made) \in SUBSET Work(i)
  BY <1>2, <1>4
<1>8. Cardinality(Work(i)) = Cardinality(ToSet(made)) => Work(i) = ToSet(made)
  BY <1>6, <1>7, FS_Subset
<1>9. proofsLeft(i) = Cardinality(Work(i)) - Len(s)
  BY <1>6 DEF proofsLeft, s
<1>10. proofsLeft(i) = 1 <=> Cardinality(Work(i)) = Cardinality(ToSet(made))
  BY <1>3, <1>5, <1>6, <1>9
<1>11. ToSet(made) = Work(i) => Cardinality(Work(i)) = Cardinality(ToSet(made))
  BY Zenon
<1>12. proofsLeft(i) = 1 <=> ToSet(made) = Work(i)
  BY <1>8, <1>10, <1>11
<1> QED BY <1>4, <1>12 DEF made, s

LEMMA ProofGeneratedStep ==
  ASSUME ClientInv, NEW proof \in running, ProofGenerated(proof)
  PROVE  ClientInv'
<1> USE DEF ProofGenerated
<1>1. /\ Index' = Index /\ AllWork' = AllWork /\ \A j : Work(j)' = Work(j)
  BY Fixed
<1> DEFINE i == proof.packet
           made == Append(proofs[i], proof)
<1>2. /\ proof \in AllWork /\ i \in Index /\ proof \in Work(i)
      /\ \A j \in Index : proof \in Work(j) => j = i
  BY ClientOf, Owner DEF ClientInv, ClientType
<1> HIDE DEF i
<1>3. proof \notin ToSet(proofs[i]) /\ proof \notin ToSet(queue)
  BY <1>2 DEF ClientInv, Apart
<1>4. /\ made \in Seq(Work(i)) /\ Different(made)
      /\ ToSet(made) = ToSet(proofs[i]) \cup {proof}
      /\ proofsLeft(i) = 1 <=> ToSet(made) = Work(i)
  BY <1>2, <1>3, LastProof
<1>5. /\ proofs' = [proofs EXCEPT ![i] = made]
      /\ reveal' = [reveal EXCEPT ![i] = IF proofsLeft(i) = 1 THEN "zk" ELSE reveal[i]]
      /\ running' = running \ {proof}
      /\ progress' = [progress EXCEPT !.done = progress.done + 1]
      /\ UNCHANGED <<packets, exporting, queue, result>>
  BY DEF onGeneratedProofs, i
<1> HIDE DEF ProofGenerated, made
<1>6. exporting = {} /\ progress.total > 0 /\ progress.total \in Nat /\ progress.done \in Nat
  BY ClientOf DEF ClientInv, Counted
<1>7. /\ IsFiniteSet(running') /\ Cardinality(running') = Cardinality(running) - 1
      /\ Cardinality(running') \in Nat
  <2>1. IsFiniteSet(running)
    BY DEF ClientInv, ClientType
  <2>2. /\ IsFiniteSet(running \ {proof})
        /\ Cardinality(running \ {proof}) = Cardinality(running) - 1
    BY <2>1, FS_RemoveElement
  <2> QED BY <1>5, <2>2, FS_CardinalityType
<1>8. ClientType'
  <2>1. made \in Seq(AllWork)
    <3>1. Work(i) \subseteq AllWork
      BY <1>2 DEF AllWork
    <3> QED BY <1>4, <3>1
  <2>2. proofs' \in [Index -> Seq(AllWork)]
    BY <1>2, <1>5, <2>1 DEF ClientInv, ClientType
  <2>3. reveal' \in [Index -> {"undefined", "direct", "zk"}]
    BY <1>2, <1>5 DEF ClientInv, ClientType
  <2>4. progress' \in [done : Nat, total : Nat]
    BY <1>5, <1>6 DEF ClientInv, ClientType
  <2> QED BY <1>1, <1>5, <1>7, <2>2, <2>3, <2>4 DEF ClientInv, ClientType
<1>9. /\ proofs'[i] = made
      /\ \A j \in Index : j # i => proofs'[j] = proofs[j] /\ reveal'[j] = reveal[j]
      /\ reveal'[i] = IF proofsLeft(i) = 1 THEN "zk" ELSE reveal[i]
      /\ progress'.done = progress.done + 1 /\ progress'.total = progress.total
  BY <1>2, <1>5 DEF ClientInv, ClientType
<1>10. Apart'
  <2>1. ASSUME NEW j \in Index
        PROVE  /\ Different(proofs'[j])
               /\ ToSet(proofs'[j]) \subseteq Work(j)
               /\ ToSet(proofs'[j]) \cap (ToSet(queue) \cup running') = {}
    <3>1. CASE j = i
      <4>1. /\ ToSet(proofs[i]) \cap (ToSet(queue) \cup running) = {}
            /\ ToSet(proofs[i]) \subseteq Work(i)
        BY <1>2 DEF ClientInv, Apart
      <4> QED BY <1>2, <1>3, <1>4, <1>5, <1>9, <3>1, <4>1
    <3>2. CASE j # i
      BY <1>5, <1>9, <3>2 DEF ClientInv, Apart
    <3> QED BY <3>1, <3>2
  <2>2. Different(queue) /\ ToSet(queue) \cap running' = {}
    BY <1>5 DEF ClientInv, Apart
  <2> QED BY <1>1, <1>5, <2>1, <2>2 DEF Apart
<1>11. NothingBeforeKey'
  BY <1>5, <1>6 DEF NothingBeforeKey
<1>12. NothingIsLost'
  <2>1. ASSUME result # "rejected", NEW j \in Index
        PROVE  /\ Work(j) \subseteq ToSet(queue) \cup running' \cup ToSet(proofs'[j])
               /\ packets[j].reveal = "complete" => reveal'[j] = "direct"
    <3>1. /\ Work(j) \subseteq ToSet(queue) \cup running \cup ToSet(proofs[j])
          /\ packets[j].reveal = "complete" => reveal[j] = "direct"
      BY <1>6, <2>1 DEF ClientInv, NothingIsLost
    <3>2. CASE j = i
      <4>1. packets[j].reveal = "zk"
        BY <1>2, <3>2 DEF Work
      <4> QED BY <1>4, <1>5, <1>9, <3>1, <3>2, <4>1
    <3>3. CASE j # i
      BY <1>2, <1>5, <1>9, <3>1, <3>3
    <3> QED BY <3>2, <3>3
  <2> QED BY <1>1, <1>5, <1>6, <2>1 DEF NothingIsLost
<1>13. Delivered'
  <2>1. ASSUME NEW j \in Index
        PROVE  /\ reveal'[j] = "zk" <=> Work(j) # {} /\ ToSet(proofs'[j]) = Work(j)
               /\ reveal'[j] = "direct" => packets[j].reveal = "complete"
    <3>1. /\ reveal[j] = "zk" <=> Work(j) # {} /\ ToSet(proofs[j]) = Work(j)
          /\ reveal[j] = "direct" => packets[j].reveal = "complete"
      BY DEF ClientInv, Delivered
    <3>2. CASE j = i
      <4>1. Work(i) # {} /\ ToSet(proofs[i]) # Work(i)
        BY <1>2, <1>3
      <4> QED BY <1>4, <1>9, <3>1, <3>2, <4>1
    <3>3. CASE j # i
      BY <1>9, <3>1, <3>3
    <3> QED BY <3>2, <3>3
  <2> QED BY <1>1, <1>5, <2>1 DEF Delivered
<1>14. Stages' /\ Counted'
  <2>1. Len(queue) \in Nat /\ Cardinality(running) \in Nat
    BY ClientOf
  <2>2. result # "resolved"
    BY DEF ClientInv, Stages
  <2>3. Stages'
    BY <1>5, <1>6, <1>9, <2>2 DEF ClientInv, Stages
  <2>4. Counted'
    <3>1. progress'.done + Len(queue) + Cardinality(running')
            = progress.done + Len(queue) + Cardinality(running)
      BY <1>6, <1>7, <1>9, <2>1
    <3>2. progress'.total > 0 /\ progress'.total # 0
      BY <1>6, <1>9
    <3>3. /\ progress.done + Len(queue) + Cardinality(running) <= progress.total
          /\ result \in {"proving", "resolved"} =>
               progress.done + Len(queue) + Cardinality(running) = progress.total
      BY <1>6 DEF ClientInv, Counted
    <3> QED BY <1>5, <1>6, <1>9, <3>1, <3>2, <3>3 DEF Counted
  <2> QED BY <2>3, <2>4
<1> QED BY <1>8, <1>10, <1>11, <1>12, <1>13, <1>14 DEF ClientInv

-----------------------------------------------------------------------------
(* Steps of the witness.                                                    *)

LEMMA ClientStands ==
  ASSUME ClientInv, UNCHANGED client
  PROVE  ClientInv'
<1>1. /\ Index' = Index /\ AllWork' = AllWork /\ \A j : Work(j)' = Work(j)
  BY Fixed DEF client
<1>2. ClientType'
  BY <1>1 DEF client, ClientInv, ClientType
<1>3. Apart' /\ NothingBeforeKey' /\ NothingIsLost' /\ Delivered'
  BY <1>1 DEF client, ClientInv, Apart, NothingBeforeKey, NothingIsLost, Delivered
<1>4. Stages' /\ Counted'
  BY DEF client, ClientInv, Stages, Counted
<1> QED BY <1>2, <1>3, <1>4 DEF ClientInv

\* The client is done before the witness begins.
LEMMA ProveIsBefore ==
  ASSUME ClientInv, Prove
  PROVE  result # "resolved" /\ packets' = packets /\ UNCHANGED witness
<1>1. ASSUME result = "resolved"
      PROVE  exporting = {} /\ queue = <<>> /\ running = {}
  BY <1>1 DEF ClientInv, Stages
<1>2. ASSUME NEW i \in Index, KeyExported(i) \/ KeyRefused(i)
      PROVE  result # "resolved" /\ packets' = packets /\ UNCHANGED witness
  BY <1>1, <1>2 DEF KeyExported, KeyRefused
<1>3. ASSUME generateProofs \/ Finish
      PROVE  result # "resolved" /\ packets' = packets /\ UNCHANGED witness
  BY <1>3 DEF generateProofs, Finish
<1>4. ASSUME StartProof
      PROVE  result # "resolved" /\ packets' = packets /\ UNCHANGED witness
  BY <1>1, <1>4 DEF StartProof
<1>5. ASSUME NEW proof \in running, ProofGenerated(proof) \/ ProofFailed(proof)
      PROVE  result # "resolved" /\ packets' = packets /\ UNCHANGED witness
  BY <1>1, <1>5 DEF ProofGenerated, ProofFailed
<1> QED BY <1>2, <1>3, <1>4, <1>5 DEF Prove

LEMMA WitnessStands ==
  ASSUME WitnessInv, packets' = packets, UNCHANGED witness,
         result' = result \/ result # "resolved"
  PROVE  WitnessInv'
<1>1. /\ Index' = Index /\ AllWork' = AllWork /\ \A j : Work(j)' = Work(j)
      /\ \A proof : Valid(proof)' <=> Valid(proof)
  BY Fixed
<1>2. \A j : SeenOf(j)' = SeenOf(j)
  BY <1>1 DEF witness, SeenOf
<1>3. WitnessType' /\ NothingYet'
  BY <1>1 DEF witness, WitnessInv, WitnessType, NothingYet
<1>4. Verified'
  BY <1>1, <1>2 DEF witness, WitnessInv, Verified
<1>5. Judged'
  BY DEF witness, WitnessInv, Judged
<1> QED BY <1>3, <1>4, <1>5 DEF WitnessInv

\* When the client is done everything that it has to show is there.
LEMMA AllDelivered ==
  ASSUME ClientInv, result = "resolved", NEW i \in Index
  PROVE  /\ ToSet(proofs[i]) = Work(i)
         /\ reveal[i] = "zk" <=> Work(i) # {}
         /\ reveal[i] = "direct" <=> packets[i].reveal = "complete"
<1>1. ToSet(queue) = {} /\ running = {} /\ exporting = {}
  BY ElementsOf DEF ClientInv, ClientType, Stages
<1>2. /\ Work(i) \subseteq ToSet(proofs[i])
      /\ packets[i].reveal = "complete" => reveal[i] = "direct"
  BY <1>1 DEF ClientInv, NothingIsLost
<1>3. ToSet(proofs[i]) \subseteq Work(i)
  BY DEF ClientInv, Apart
<1> QED BY <1>2, <1>3 DEF ClientInv, Delivered

LEMMA DecryptStep ==
  ASSUME ClientInv, WitnessInv, decryptTranscript
  PROVE  WitnessInv'
<1> USE DEF decryptTranscript
<1>1. /\ Index' = Index /\ AllWork' = AllWork /\ \A j : Work(j)' = Work(j)
      /\ \A proof : Valid(proof)' <=> Valid(proof)
      /\ packets' = packets /\ result' = "resolved" /\ WellFormed
  BY Fixed, ClientOf DEF client
<1>2. refused = {} /\ refused' = {}
  BY DEF WitnessInv, NothingYet
<1>3. checking' = AllWork
  <2>1. ASSUME NEW i \in Index, reveal[i] = "zk"
        PROVE  ToSet(proofs[i]) = Work(i)
    BY AllDelivered
  <2>2. ASSUME NEW i \in Index, reveal[i] # "zk"
        PROVE  Work(i) = {}
    BY <2>2, AllDelivered
  <2> QED BY <2>1, <2>2 DEF AllWork
<1>4. ASSUME NEW i \in Index
      PROVE  /\ seen'[i] \subseteq 0 .. packets[i].len - 1
             /\ seen'[i] = CASE packets[i].reveal = "none" -> {}
                             [] packets[i].reveal = "complete" -> 0 .. packets[i].len - 1
                             [] packets[i].reveal = "zk" -> {}
  <2>1. packets[i].reveal \in {"none", "complete", "zk"}
    BY <1>1, PacketFields DEF WellFormed, Reveal
  <2>2. reveal[i] = "direct" <=> packets[i].reveal = "complete"
    BY AllDelivered
  <2> QED BY <2>1, <2>2
<1>5. ASSUME NEW i \in Index
      PROVE  Work(i) \ checking' = {} /\ SeenOf(i)' = seen'[i]
  <2>1. Work(i) \ checking' = {}
    BY <1>3 DEF AllWork
  <2>2. UNION {Given(proof) : proof \in Work(i) \ checking'} = {}
    BY <2>1
  <2>3. packets[i].reveal \in {"none", "complete", "zk"}
    BY <1>1, PacketFields DEF WellFormed, Reveal
  <2> QED BY <1>1, <1>4, <2>1, <2>2, <2>3 DEF SeenOf
<1>6. WitnessType'
  <2>1. seen' \in [Index -> SUBSET Int]
    BY <1>1, PacketFields DEF WellFormed
  <2> QED BY <1>1, <1>2, <1>3, <2>1 DEF WitnessType
<1>7. NothingYet' /\ Judged'
  BY <1>1, <1>2 DEF NothingYet, Judged
<1>8. Verified'
  BY <1>1, <1>2, <1>4, <1>5 DEF Verified
<1> QED BY <1>6, <1>7, <1>8 DEF WitnessInv

LEMMA SettleStep ==
  ASSUME WitnessInv, Settle
  PROVE  WitnessInv'
<1> USE DEF Settle
<1>1. /\ Index' = Index /\ AllWork' = AllWork /\ \A j : Work(j)' = Work(j)
      /\ \A proof : Valid(proof)' <=> Valid(proof)
      /\ packets' = packets /\ result' = result
  BY Fixed DEF client
<1>2. \A j : SeenOf(j)' = SeenOf(j)
  BY <1>1 DEF SeenOf
<1>3. WitnessType' /\ NothingYet'
  BY <1>1 DEF WitnessInv, WitnessType, NothingYet
<1>4. Verified'
  BY <1>1, <1>2 DEF WitnessInv, Verified
<1>5. Judged'
  BY <1>1 DEF WitnessInv, Judged
<1> QED BY <1>3, <1>4, <1>5 DEF WitnessInv

LEMMA ProofRefusedStep ==
  ASSUME ClientInv, WitnessInv, NEW proof \in checking, ProofRefused(proof)
  PROVE  WitnessInv'
<1> USE DEF ProofRefused
<1>1. /\ Index' = Index /\ AllWork' = AllWork /\ \A j : Work(j)' = Work(j)
      /\ \A p : Valid(p)' <=> Valid(p)
      /\ packets' = packets /\ result' = result /\ WellFormed
  BY Fixed, ClientOf DEF client
<1> DEFINE i == proof.packet
<1>2. i \in Index /\ proof \in Work(i)
  BY <1>1, Owner DEF WitnessInv, WitnessType
<1>3. verdict = "pending"
  BY DEF WitnessInv, WitnessType, NothingYet, Judged
<1>4. ASSUME NEW j \in Index, j # i
      PROVE  Work(j) \ checking' = Work(j) \ checking /\ SeenOf(j)' = SeenOf(j)
  <2>1. \A p \in Work(j) : p.packet # i
    BY <1>1, <1>4, WorkOfPacket
  <2>2. Work(j) \ checking' = Work(j) \ checking
    BY <2>1
  <2> QED BY <1>1, <2>2 DEF SeenOf
<1>5. WitnessType' /\ NothingYet'
  BY <1>1, <1>2, <1>3 DEF WitnessInv, WitnessType, NothingYet
<1>6. Verified'
  <2>1. ASSUME NEW j \in Index
        PROVE  /\ seen[j] \subseteq 0 .. packets[j].len - 1
               /\ j \notin refused' => /\ seen[j] = SeenOf(j)'
                                       /\ \A p \in Work(j) \ checking' : Valid(p)
               /\ j \in refused' => \E p \in Work(j) : ~Valid(p)
    <3>1. /\ seen[j] \subseteq 0 .. packets[j].len - 1
          /\ j \notin refused => /\ seen[j] = SeenOf(j)
                                 /\ \A p \in Work(j) \ checking : Valid(p)
          /\ j \in refused => \E p \in Work(j) : ~Valid(p)
      BY <1>3 DEF WitnessInv, Verified
    <3>2. CASE j = i
      BY <1>2, <3>1, <3>2
    <3>3. CASE j # i
      BY <1>4, <3>1, <3>3
    <3> QED BY <3>2, <3>3
  <2> QED BY <1>1, <2>1 DEF Verified
<1>7. Judged'
  BY <1>1, <1>3 DEF WitnessInv, Judged
<1> QED BY <1>5, <1>6, <1>7 DEF WitnessInv

LEMMA ProofVerifiedStep ==
  ASSUME ClientInv, WitnessInv, NEW proof \in checking, ProofVerified(proof)
  PROVE  WitnessInv'
<1> USE DEF ProofVerified
<1>1. /\ Index' = Index /\ AllWork' = AllWork /\ \A j : Work(j)' = Work(j)
      /\ \A p : Valid(p)' <=> Valid(p)
      /\ packets' = packets /\ result' = result /\ WellFormed
  BY Fixed, ClientOf DEF client
<1> DEFINE i == proof.packet
           added == (seen[i] \ Covered(proof)) \cup Given(proof)
<1>2. /\ i \in Index /\ proof \in Work(i) /\ packets[i].reveal = "zk"
      /\ \A j \in Index : j # i => proof \notin Work(j)
  BY <1>1, Owner, WorkOfPacket DEF WitnessInv, WitnessType
<1>3. verdict = "pending"
  BY DEF WitnessInv, WitnessType, NothingYet, Judged
<1>4. Covered(proof) \subseteq 0 .. packets[i].len - 1 /\ Given(proof) \subseteq Covered(proof)
  BY <1>1, <1>2, WhenValid, GivenIsCovered
<1>5. /\ seen'[i] = added
      /\ \A j \in Index : j # i => seen'[j] = seen[j]
      /\ checking' = checking \ {proof} /\ refused' = refused /\ verdict' = verdict
  BY <1>2 DEF WitnessInv, WitnessType
<1>6. seen[i] \subseteq 0 .. packets[i].len - 1
  BY <1>2, <1>3 DEF WitnessInv, Verified
<1>7. WitnessType'
  <2>1. added \in SUBSET Int
    BY <1>4, <1>6, <1>1, <1>2, PacketFields DEF WellFormed
  <2> HIDE DEF added
  <2>2. seen' = [seen EXCEPT ![i] = added]
    BY DEF added
  <2>3. seen' \in [Index -> SUBSET Int]
    BY <2>1, <2>2 DEF WitnessInv, WitnessType
  <2> QED BY <1>1, <1>5, <2>3 DEF WitnessInv, WitnessType
<1>8. ASSUME NEW j \in Index, j # i
      PROVE  Work(j) \ checking' = Work(j) \ checking /\ SeenOf(j)' = SeenOf(j)
  <2>1. Work(j) \ checking' = Work(j) \ checking
    BY <1>2, <1>5, <1>8
  <2> QED BY <1>1, <2>1 DEF SeenOf
<1>9. Work(i) \ checking' = (Work(i) \ checking) \cup {proof}
  BY <1>2, <1>5
<1>10. ASSUME i \notin refused
       PROVE  added = SeenOf(i)' /\ \A p \in Work(i) \ checking' : Valid(p)
  <2>1. /\ seen[i] = UNION {Given(p) : p \in Work(i) \ checking}
        /\ \A p \in Work(i) \ checking : Valid(p)
    BY <1>2, <1>3, <1>10 DEF WitnessInv, Verified, SeenOf
  <2>2. \A p \in Work(i) \ checking : Given(p) \cap Covered(proof) = {}
    BY <1>1, <1>2, ProofsAreApart, GivenIsCovered
  <2>3. seen[i] \cap Covered(proof) = {}
    BY <2>1, <2>2
  <2>4. added = UNION {Given(p) : p \in (Work(i) \ checking) \cup {proof}}
    BY <2>1, <2>3
  <2> HIDE DEF added
  <2>5. SeenOf(i)' = UNION {Given(p) : p \in Work(i) \ checking'}
    BY <1>1, <1>2 DEF SeenOf
  <2> QED BY <1>9, <2>1, <2>4, <2>5
<1>11. Verified'
  <2>1. ASSUME NEW j \in Index
        PROVE  /\ seen'[j] \subseteq 0 .. packets[j].len - 1
               /\ j \notin refused => /\ seen'[j] = SeenOf(j)'
                                      /\ \A p \in Work(j) \ checking' : Valid(p)
               /\ j \in refused => \E p \in Work(j) : ~Valid(p)
    <3>1. /\ seen[j] \subseteq 0 .. packets[j].len - 1
          /\ j \notin refused => /\ seen[j] = SeenOf(j)
                                 /\ \A p \in Work(j) \ checking : Valid(p)
          /\ j \in refused => \E p \in Work(j) : ~Valid(p)
      BY <1>3 DEF WitnessInv, Verified
    <3>2. CASE j = i
      BY <1>4, <1>5, <1>6, <1>10, <3>1, <3>2
    <3>3. CASE j # i
      BY <1>5, <1>8, <3>1, <3>3
    <3> QED BY <3>2, <3>3
  <2> QED BY <1>1, <1>5, <2>1 DEF Verified
<1>12. NothingYet' /\ Judged'
  BY <1>1, <1>3, <1>5 DEF WitnessInv, NothingYet, Judged
<1> QED BY <1>7, <1>11, <1>12 DEF WitnessInv

-----------------------------------------------------------------------------
(* The theorems.                                                            *)

LEMMA NextInv ==
  ASSUME ZkInv, [Next]_vars
  PROVE  ZkInv'
<1>1. CASE UNCHANGED vars
  BY <1>1, ClientStands, WitnessStands DEF ZkInv, vars, client
<1>2. CASE Prove
  <2>1. WitnessInv'
    BY <1>2, ProveIsBefore, WitnessStands DEF ZkInv
  <2>2. ClientInv'
    BY <1>2, KeyExportedStep, KeyRefusedStep, GenerateProofsStep, StartProofStep,
       FinishStep, ProofGeneratedStep, ProofFailedStep
    DEF ZkInv, Prove
  <2> QED BY <2>1, <2>2 DEF ZkInv
<1>3. CASE Verify
  <2>1. UNCHANGED client
    BY <1>3 DEF Verify, decryptTranscript, Settle, ProofVerified, ProofRefused
  <2>2. ClientInv'
    BY <2>1, ClientStands DEF ZkInv
  <2>3. WitnessInv'
    BY <1>3, DecryptStep, SettleStep, ProofVerifiedStep, ProofRefusedStep DEF ZkInv, Verify
  <2> QED BY <2>2, <2>3 DEF ZkInv
<1> QED BY <1>1, <1>2, <1>3 DEF Next

LEMMA Invariance == Spec => []ZkInv
BY InitInv, NextInv, PTL DEF Spec

\* The proofs that are mentioned anywhere are proofs that the packets need.
LEMMA ProofIsWork ==
  ASSUME WellFormed
  PROVE  Proof = AllWork
<1>1. \A i \in Index : packets[i].reveal = "zk" => ToSet(proofsToGenerate(i)) = Work(i)
  BY ProofsToGenerate
<1>2. \A i \in Index : packets[i].reveal # "zk" => Work(i) = {}
  BY DEF Work
<1> QED BY <1>1, <1>2 DEF Proof, AllWork

\* Every reachable state of the transcript's preparation and verification is
\* well typed, and the progress never passes its total.
THEOREM TypeCorrect == Spec => []TypeOK
<1>1. ASSUME ZkInv PROVE TypeOK
  <2>1. ClientType /\ WitnessType /\ WellFormed /\ Proof = AllWork
    BY <1>1, ClientOf, ProofIsWork DEF ZkInv, ClientInv, WitnessInv
  <2>2. packets \in Transcripts /\ exporting \subseteq Index
    BY <2>1 DEF ClientType
  <2>3. ToSet(queue) \subseteq Proof /\ running \subseteq Proof
    BY <1>1, <2>1, ClientOf DEF ZkInv, ClientType
  <2>4. \A i \in Index : ToSet(proofs[i]) \subseteq Proof
    BY <2>1, ElementsOf DEF ClientType
  <2>5. progress.done \in 0 .. progress.total
    BY <1>1, ClientOf DEF ZkInv, ClientInv, Counted
  <2>6. \A i \in Index : seen[i] \subseteq 0 .. packets[i].len - 1
    BY <1>1 DEF ZkInv, WitnessInv, NothingYet, Verified
  <2>7. checking \subseteq Proof /\ refused \subseteq Index
        /\ verdict \in {"none", "pending", "valid", "invalid"}
    BY <2>1 DEF WitnessType
  <2>8. /\ reveal \in [Index -> {"undefined", "direct", "zk"}]
        /\ result \in {"preparing", "proving", "resolved", "rejected"}
    BY <2>1 DEF ClientType
  <2> QED BY <2>2, <2>3, <2>4, <2>5, <2>6, <2>7, <2>8 DEF TypeOK
<1> QED BY <1>1, Invariance, PTL

\* When the witness accepts a transcript it sees of each packet exactly what the
\* client did not redact: however long the packets and the chunks are, whatever
\* is hidden, and in whatever order chunks were proved and verified.
THEOREM RedactionIsRespected == Spec => []WitnessSeesRedaction
<1>1. ASSUME ZkInv PROVE WitnessSeesRedaction
  <2> SUFFICES ASSUME verdict = "valid", NEW i \in Index
               PROVE  seen[i] = CASE packets[i].reveal = "none" -> {}
                                  [] packets[i].reveal = "complete" -> 0 .. packets[i].len - 1
                                  [] packets[i].reveal = "zk" -> Shown(packets[i])
    BY DEF WitnessSeesRedaction
  <2>1. refused = {} /\ checking = {} /\ WellFormed
    BY <1>1, ClientOf DEF ZkInv, WitnessInv, Judged
  <2>2. seen[i] = SeenOf(i) /\ \A proof \in Work(i) : Valid(proof)
    BY <1>1, <2>1 DEF ZkInv, WitnessInv, Verified
  <2>3. packets[i].reveal = "zk" => UNION {Given(proof) : proof \in Work(i)} = Shown(packets[i])
    BY <2>1, <2>2, WorkShowsAll
  <2>4. Work(i) \ checking = Work(i)
    BY <2>1
  <2>5. packets[i].reveal \in {"none", "complete", "zk"}
    BY <2>1, PacketFields DEF WellFormed, Reveal
  <2> QED BY <2>2, <2>3, <2>4, <2>5 DEF SeenOf
<1> QED BY <1>1, Invariance, PTL

\* The witness refuses no proof of a client that follows the protocol, if what
\* it shows of a packet is of that packet: both sides cut the same chunks and
\* redact the ciphertext in the same places.
THEOREM HonestProofsPass == Spec => []HonestProofsAreValid
<1>1. ASSUME ZkInv PROVE HonestProofsAreValid
  <2> SUFFICES ASSUME \A i \in Index : Fits(packets[i]), verdict = "invalid"
               PROVE  FALSE
    BY DEF HonestProofsAreValid
  <2>1. PICK i \in Index : i \in refused
    BY <1>1 DEF ZkInv, WitnessInv, WitnessType, Judged
  <2>2. \E proof \in Work(i) : ~Valid(proof)
    BY <1>1, <2>1 DEF ZkInv, WitnessInv, Verified
  <2> QED BY <1>1, <2>2, ClientOf, FittingProofsAreValid DEF ZkInv
<1> QED BY <1>1, Invariance, PTL

\* A message is given its proofs when the last of them is there, and then they
\* show every byte of the packet that is not hidden.
THEOREM RevealsAreWhole == Spec => []RevealIsWhole
<1>1. ASSUME ZkInv PROVE RevealIsWhole
  <2> SUFFICES ASSUME NEW i \in Index, reveal[i] = "zk", Fits(packets[i])
               PROVE  /\ Len(proofs[i]) = Len(proofsToGenerate(i))
                      /\ UNION {Given(proofs[i][k]) : k \in DOMAIN proofs[i]} = Shown(packets[i])
    BY DEF RevealIsWhole
  <2>1. WellFormed /\ ToSet(proofs[i]) = Work(i) /\ Work(i) # {}
    BY <1>1, ClientOf DEF ZkInv, ClientInv, Delivered
  <2>2. packets[i].reveal = "zk"
    BY <2>1 DEF Work
  <2>3. Cardinality(ToSet(proofs[i])) = Len(proofs[i])
    BY <1>1, CountOf DEF ZkInv, ClientInv, ClientType, Apart
  <2>4. Cardinality(Work(i)) = Len(proofsToGenerate(i))
    BY <2>1, <2>2, WorkCount
  <2>5. Len(proofs[i]) = Len(proofsToGenerate(i))
    BY <2>1, <2>3, <2>4
  <2>6. UNION {Given(proof) : proof \in Work(i)} = Shown(packets[i])
    BY <2>1, <2>2, FittingProofsAreValid, WorkShowsAll
  <2>7. {Given(proofs[i][k]) : k \in DOMAIN proofs[i]} = {Given(proof) : proof \in ToSet(proofs[i])}
    BY DEF ToSet
  <2> QED BY <2>1, <2>5, <2>6, <2>7
<1> QED BY <1>1, Invariance, PTL

\* A call that succeeds returns a transcript in which every message has all that
\* was asked for, whichever keys and proofs came first.
THEOREM TranscriptsAreWhole == Spec => []TranscriptIsWhole
<1>1. ASSUME ZkInv PROVE TranscriptIsWhole
  <2> SUFFICES ASSUME result = "resolved"
               PROVE  TranscriptIsWhole
    BY DEF TranscriptIsWhole
  <2>1. WellFormed /\ exporting = {} /\ queue = <<>> /\ running = {}
    BY <1>1, ClientOf DEF ZkInv, ClientInv, Stages
  <2>2. ASSUME NEW i \in Index
        PROVE  /\ packets[i].reveal \in {"none", "complete", "zk"}
               /\ ToSet(proofs[i]) = Work(i)
               /\ reveal[i] = "zk" <=> Work(i) # {}
               /\ packets[i].reveal = "complete" <=> reveal[i] = "direct"
               /\ reveal[i] \in {"undefined", "direct", "zk"}
    <3>1. packets[i].reveal \in {"none", "complete", "zk"}
      BY <2>1, PacketFields DEF WellFormed, Reveal
    <3>2. ToSet(<<>>) = {}
      BY DEF ToSet
    <3>3. Work(i) \subseteq ToSet(proofs[i])
      BY <1>1, <2>1, <3>2 DEF ZkInv, ClientInv, NothingIsLost
    <3>4. ToSet(proofs[i]) = Work(i)
      BY <1>1, <3>3 DEF ZkInv, ClientInv, Apart
    <3>5. packets[i].reveal = "complete" => reveal[i] = "direct"
      BY <1>1, <2>1 DEF ZkInv, ClientInv, NothingIsLost
    <3> QED BY <1>1, <3>1, <3>4, <3>5 DEF ZkInv, ClientInv, Delivered, ClientType
  <2>3. ASSUME NEW i \in Index, packets[i].reveal # "zk"
        PROVE  reveal[i] = IF packets[i].reveal = "none" THEN "undefined" ELSE "direct"
    <3>1. Work(i) = {}
      BY <2>3 DEF Work
    <3> QED BY <2>2, <2>3, <3>1
  <2>4. ASSUME NEW i \in Index, packets[i].reveal = "zk"
        PROVE  /\ Len(proofs[i]) = Len(proofsToGenerate(i))
               /\ ToSet(proofs[i]) = ToSet(proofsToGenerate(i))
               /\ reveal[i] = IF proofs[i] = <<>> THEN "undefined" ELSE "zk"
    <3>1. /\ ToSet(proofsToGenerate(i)) = Work(i) /\ ToSet(proofs[i]) = Work(i)
          /\ Cardinality(Work(i)) = Len(proofsToGenerate(i))
      BY <2>1, <2>2, <2>4, ProofsToGenerate, WorkCount
    <3>2. Cardinality(ToSet(proofs[i])) = Len(proofs[i])
      BY <1>1, CountOf DEF ZkInv, ClientInv, ClientType, Apart
    <3>3. proofs[i] = <<>> <=> Work(i) = {}
      <4>1. proofs[i] \in Seq(AllWork)
        BY <1>1 DEF ZkInv, ClientInv, ClientType
      <4>2. proofs[i] # <<>> => proofs[i][1] \in ToSet(proofs[i])
        BY <4>1 DEF ToSet
      <4>3. proofs[i] = <<>> => ToSet(proofs[i]) = {}
        BY DEF ToSet
      <4> QED BY <3>1, <4>2, <4>3
    <3> QED BY <2>2, <2>4, <3>1, <3>2, <3>3
  <2> QED BY <2>1, <2>2, <2>3, <2>4 DEF TranscriptIsWhole
<1> QED BY <1>1, Invariance, PTL

\* The progress that the user is shown ends at its total when the call ends.
THEOREM ProgressEnds == Spec => []ProgressIsComplete
<1>1. ASSUME ZkInv PROVE ProgressIsComplete
  <2> SUFFICES ASSUME result = "resolved"
               PROVE  progress.done = progress.total
    BY DEF ProgressIsComplete
  <2>1. queue = <<>> /\ running = {}
    BY <1>1 DEF ZkInv, ClientInv, Stages
  <2>2. Len(queue) = 0 /\ Cardinality(running) = 0
    BY <2>1, FS_EmptySet
  <2>3. progress.done + Len(queue) + Cardinality(running) = progress.total
    BY <1>1 DEF ZkInv, ClientInv, Counted
  <2> QED BY <1>1, <2>2, <2>3, ClientOf DEF ZkInv
<1> QED BY <1>1, Invariance, PTL

\* To generateTranscript the call is a promise that settles once: a key or a
\* proof that fails late takes nothing back.
THEOREM ImplementsPromise == Spec => Caller!Safety
<1>1. Init => Caller!Init
  <2> SUFFICES ASSUME Init PROVE Caller!Init
    OBVIOUS
  <2>1. Len(<<>>) = 0
    OBVIOUS
  <2>2. result = "preparing"
    BY <2>1, Parameters DEF Init, getTotalChunksToProve
  <2> QED BY <2>2 DEF Caller!Init, promise
<1>2. ASSUME ZkInv, [Next]_vars PROVE [Caller!Next]_promise
  <2>1. result \in {"preparing", "proving", "resolved", "rejected"}
    BY <1>2 DEF ZkInv, ClientInv, ClientType
  <2>2. CASE result' = result
    BY <2>2 DEF promise
  <2>3. CASE \E i \in Index : KeyRefused(i)
    <3>1. result # "resolved" /\ result' = "rejected"
      BY <1>2, <2>3, ProveIsBefore DEF ZkInv, KeyRefused, Prove
    <3> QED BY <2>1, <3>1 DEF promise, Caller!Next, Caller!Reject
  <2>4. CASE \E proof \in running : ProofFailed(proof)
    <3>1. result # "resolved" /\ result' = "rejected"
      BY <1>2, <2>4, ProveIsBefore DEF ZkInv, ProofFailed, Prove
    <3> QED BY <2>1, <3>1 DEF promise, Caller!Next, Caller!Reject
  <2>5. CASE generateProofs \/ Finish
    BY <2>5 DEF generateProofs, Finish, promise, Caller!Next, Caller!Resolve, Caller!Reject
  <2>6. CASE Verify \/ UNCHANGED vars
    <3>1. result' = result
      BY <2>6 DEF Verify, decryptTranscript, Settle, ProofVerified, ProofRefused, vars, client
    <3> QED BY <2>2, <3>1
  <2>7. CASE StartProof \/ (\E i \in Index : KeyExported(i))
                        \/ (\E proof \in running : ProofGenerated(proof))
    <3>1. result' = result
      BY <2>7 DEF StartProof, KeyExported, ProofGenerated
    <3> QED BY <2>2, <3>1
  <2> QED BY <1>2, <2>3, <2>4, <2>5, <2>6, <2>7 DEF Next, Prove
<1>3. ZkInv /\ [Next]_vars => [Caller!Next]_promise
  BY <1>2
<1> QED BY <1>1, <1>3, Invariance, PTL DEF Spec, Caller!Safety

=============================================================================
