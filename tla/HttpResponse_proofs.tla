------------------------- MODULE HttpResponse_proofs -------------------------
(***************************************************************************)
(* What HttpResponse claims of the parser of a response and of what the    *)
(* witness may see of it, proved for every response, every rule and every  *)
(* way to cut the response into pieces.                                    *)
(*                                                                         *)
(* MessageHolds says where the host puts each line, chunk and byte; Quiet, *)
(* what the parser knows when it waits for more; KnownOnce, that the bytes *)
(* that have come determine it, so that the cuts do not matter.  Parsed is *)
(* what the conversion of positions needs of a parsed response, and        *)
(* ConvertsTo what it gives; sorted, gapsBefore and reveals are described  *)
(* by their elements (Among) before they are put together.                 *)
(***************************************************************************)
EXTENDS HttpResponse, FiniteSetTheorems, WellFoundedInduction, SequenceTheorems, TLAPS

-----------------------------------------------------------------------------
(* Loops and sequences.                                                     *)

\* Induction over the naturals, for a set in the place of a predicate.
LEMMA InductionOverNat ==
  ASSUME NEW P, 0 \in P, \A n \in Nat : n \in P => n + 1 \in P
  PROVE  Nat \subseteq P
<1> SUFFICES ASSUME Nat \ P # {} PROVE FALSE
  OBVIOUS
<1> DEFINE R == {ss \in Nat \X Nat : ss[1] < ss[2]}
           T == Nat \ P
<1>1. IsWellFoundedOn(R, Nat)
  BY NatLessThanWellFounded DEF OpToRel
<1> HIDE DEF R
<1>2. T \subseteq Nat /\ T # {}
  OBVIOUS
<1> HIDE DEF T
<1>3. PICK x \in T : \A y \in T : ~ (<<y, x>> \in R)
  <2>1. \E x \in T : \A y \in T : ~ (<<y, x>> \in R)
    BY <1>1, <1>2, WFMin
  <2> QED BY <2>1
<1> USE DEF T
<1>4. x \in Nat /\ x \notin P /\ x # 0
  OBVIOUS
<1>5. x - 1 \in Nat /\ x - 1 < x /\ (x - 1) + 1 = x
  BY <1>4
<1>6. x - 1 \notin P
  BY <1>4, <1>5
<1>7. <<x - 1, x>> \in R
  BY <1>4, <1>5 DEF R
<1> QED BY <1>3, <1>5, <1>6, <1>7

\* f[n] is what a loop computes in n turns, step[<<n, x>>] being turn n.
IsLoop(f, X, step, start, turns) ==
  /\ f \in [0 .. turns -> X] /\ f[0] = start
  /\ \A n \in 1 .. turns : f[n] = step[<<n, f[n - 1]>>]

\* A loop of a step that is a function computes something in each turn.
LEMMA LoopExists ==
  ASSUME NEW X, NEW step \in [Nat \X X -> X], NEW start \in X, NEW turns \in Nat
  PROVE  \E f : IsLoop(f, X, step, start, turns)
<1> DEFINE P == {m \in Nat : \E f : IsLoop(f, X, step, start, m)}
<1>1. 0 \in P
  <2> DEFINE f == [n \in 0 .. 0 |-> start]
  <2>1. IsLoop(f, X, step, start, 0)
    BY DEF IsLoop
  <2> QED BY <2>1
<1>2. ASSUME NEW m \in Nat, m \in P
      PROVE  m + 1 \in P
  <2>1. PICK f : IsLoop(f, X, step, start, m)
    BY <1>2
  <2> DEFINE last == step[<<m + 1, f[m]>>]
             g == [n \in 0 .. m + 1 |-> IF n = m + 1 THEN last ELSE f[n]]
  <2>2. f[m] \in X /\ last \in X
    BY <2>1 DEF IsLoop
  <2> HIDE DEF last
  <2>3. g \in [0 .. m + 1 -> X] /\ g[m + 1] = last /\ \A n \in 0 .. m : g[n] = f[n]
    BY <2>1, <2>2 DEF IsLoop
  <2> HIDE DEF g
  <2>4. ASSUME NEW n \in 1 .. m + 1
        PROVE  g[n] = step[<<n, g[n - 1]>>]
    <3>1. CASE n = m + 1
      BY <2>3, <3>1 DEF last
    <3>2. CASE n \in 1 .. m
      BY <2>1, <2>3, <3>2 DEF IsLoop
    <3> QED BY <3>1, <3>2
  <2>5. IsLoop(g, X, step, start, m + 1)
    BY <2>1, <2>3, <2>4 DEF IsLoop
  <2> QED BY <2>5
<1> HIDE DEF P
<1>3. turns \in P
  BY <1>1, <1>2, InductionOverNat
<1> QED BY <1>3 DEF P

\* FlattenSeq, as a loop from the empty sequence.
LEMMA Flattened ==
  ASSUME NEW X, NEW seqs \in Seq(Seq(X))
  PROVE  \E f \in [0 .. Len(seqs) -> Seq(X)] :
           /\ f[0] = <<>>
           /\ \A n \in 1 .. Len(seqs) : f[n] = f[n - 1] \o seqs[n]
           /\ FlattenSeq(seqs) = f[Len(seqs)]
<1> DEFINE length == Len(seqs)
           Step(n, x) == IF n \in 1 .. length THEN x \o seqs[n] ELSE <<>>
           step == [a \in Nat \X Seq(X) |-> Step(a[1], a[2])]
           flatten[i \in 1 .. length] ==
             IF i = 1 THEN seqs[i] ELSE flatten[i - 1] \o seqs[i]
<1>1. /\ length \in Nat /\ DOMAIN seqs = 1 .. length
      /\ \A n \in 1 .. length : seqs[n] \in Seq(X)
  OBVIOUS
<1>2. step \in [Nat \X Seq(X) -> Seq(X)]
  <2>1. ASSUME NEW n \in Nat, NEW x \in Seq(X)
        PROVE  Step(n, x) \in Seq(X)
    BY <1>1
  <2> QED BY <2>1
<1>3. PICK f \in [0 .. length -> Seq(X)] :
        f[0] = <<>> /\ \A n \in 1 .. length : f[n] = step[<<n, f[n - 1]>>]
  <2> DEFINE T == Seq(X)
  <2>1. step \in [Nat \X T -> T] /\ <<>> \in T /\ length \in Nat
    BY <1>1, <1>2
  <2> HIDE DEF step, T, length
  <2>2. \E f : IsLoop(f, T, step, <<>>, length)
    BY <2>1, LoopExists
  <2> QED BY <2>2 DEF T, IsLoop
<1>4. ASSUME NEW n \in 1 .. length
      PROVE  f[n - 1] \in Seq(X) /\ f[n] = f[n - 1] \o seqs[n]
  <2>1. n - 1 \in 0 .. length /\ n \in Nat
    BY <1>1
  <2>2. f[n - 1] \in Seq(X)
    BY SMTT(40), <1>3, <2>1
  <2>3. step[<<n, f[n - 1]>>] = f[n - 1] \o seqs[n]
    BY <2>1, <2>2
  <2> QED BY <1>3, <2>2, <2>3
<1> HIDE DEF step, length
<1>5. length > 0 => f[1] = seqs[1]
  <2> SUFFICES ASSUME length > 0 PROVE f[1] = seqs[1]
    OBVIOUS
  <2>1. 1 \in 1 .. length /\ 1 - 1 = 0
    BY <1>1
  <2>2. f[1] = f[0] \o seqs[1] /\ seqs[1] \in Seq(X)
    BY <1>1, <1>4, <2>1
  <2> QED BY <1>3, <2>2
<1>6. CASE length = 0
  <2>1. FlattenSeq(seqs) = <<>> /\ length \in 0 .. length
    BY <1>1, <1>6 DEF FlattenSeq, length
  <2> QED BY <1>3, <1>4, <1>6, <2>1 DEF length
<1>7. CASE length > 0
  <2>1. FlattenSeq(seqs) = flatten[length]
    BY <1>7 DEF FlattenSeq, length
  <2> DEFINE g == [i \in 1 .. length |-> f[i]]
  <2>2. ASSUME NEW i \in 1 .. length
        PROVE  g[i] = IF i = 1 THEN seqs[i] ELSE g[i - 1] \o seqs[i]
    <3>1. CASE i = 1
      BY <1>5, <1>7, <3>1
    <3>2. CASE i # 1
      <4>1. i - 1 \in 1 .. length
        BY <1>1, <3>2
      <4> QED BY <1>4, <3>2, <4>1
    <3> QED BY <3>1, <3>2
  <2>3. g = [i \in 1 .. length |-> IF i = 1 THEN seqs[i] ELSE g[i - 1] \o seqs[i]]
    BY <2>2
  <2>4. flatten = [i \in 1 .. length |->
                     IF i = 1 THEN seqs[i] ELSE flatten[i - 1] \o seqs[i]]
    <3> HIDE DEF g
    <3> QED BY <2>3
  <2> HIDE DEF flatten
  <2> DEFINE P == {n \in Nat : n + 1 \in 1 .. length => flatten[n + 1] = f[n + 1]}
  <2>5. 0 \in P
    <3>1. f[1] = seqs[1] /\ 1 \in 1 .. length
      BY <1>5, <1>1, <1>7
    <3> QED BY <2>4, <3>1
  <2>6. ASSUME NEW n \in Nat, n \in P
        PROVE  n + 1 \in P
    <3> SUFFICES ASSUME n + 2 \in 1 .. length PROVE flatten[n + 2] = f[n + 2]
      OBVIOUS
    <3>1. flatten[n + 1] = f[n + 1] /\ (n + 2) - 1 = n + 1 /\ n + 2 # 1
      BY <1>1, <2>6
    <3>2. f[n + 2] = f[n + 1] \o seqs[n + 2]
      BY <1>4, <3>1
    <3>3. flatten[n + 2] = flatten[n + 1] \o seqs[n + 2]
      BY <2>4, <3>1
    <3> QED BY <3>1, <3>2, <3>3
  <2> HIDE DEF P
  <2>7. Nat \subseteq P
    BY <2>5, <2>6, InductionOverNat
  <2>8. flatten[length] = f[length]
    <3>1. length - 1 \in Nat /\ (length - 1) + 1 = length /\ length \in 1 .. length
      BY <1>1, <1>7
    <3>2. length - 1 \in P
      BY <2>7, <3>1
    <3> QED BY <3>1, <3>2 DEF P
  <2> QED BY <1>3, <1>4, <2>1, <2>8 DEF length
<1>8. length = 0 \/ length > 0
  BY <1>1
<1> QED BY <1>6, <1>7, <1>8

\* off[i] is the length of the parts before part i.
Offsets(off, seqs, n) ==
  /\ n = Len(seqs) /\ off \in [1 .. n + 1 -> Nat] /\ off[1] = 0
  /\ \A i \in 1 .. n : off[i + 1] = off[i] + Len(seqs[i])

\* The parts are in flat at their offsets, and there is nothing else.
Placed(flat, off, seqs, n) ==
  /\ Len(flat) = off[n + 1]
  /\ \A i \in 1 .. n : \A j \in 1 .. Len(seqs[i]) : flat[off[i] + j] = seqs[i][j]
  /\ \A k \in 1 .. off[n + 1] : \E i \in 1 .. n : off[i] < k /\ k <= off[i + 1]

\* A function on 1 .. n is a sequence.
LEMMA IsSequence ==
  ASSUME NEW S, NEW n \in Nat, NEW f, f = [i \in 1 .. n |-> f[i]],
         \A i \in 1 .. n : f[i] \in S
  PROVE  f \in Seq(S) /\ Len(f) = n
OBVIOUS

\* Where the parts of a flattened sequence are.
LEMMA FlattenedAt ==
  ASSUME NEW X, NEW seqs \in Seq(Seq(X)), NEW n \in Nat, NEW off, Offsets(off, seqs, n),
         NEW flat, flat = FlattenSeq(seqs)
  PROVE  flat \in Seq(X) /\ Placed(flat, off, seqs, n)
<1> USE DEF Offsets
<1>1. PICK f \in [0 .. n -> Seq(X)] :
        /\ f[0] = <<>> /\ FlattenSeq(seqs) = f[n]
        /\ \A i \in 1 .. n : f[i] = f[i - 1] \o seqs[i]
  BY Flattened
<1>2. \A i \in 1 .. n : seqs[i] \in Seq(X)
  OBVIOUS
<1> DEFINE Ends(m) == \A i \in 1 .. m : off[i + 1] <= off[m + 1]
           Holds(m) == \A i \in 1 .. m : \A j \in 1 .. Len(seqs[i]) :
                         f[m][off[i] + j] = seqs[i][j]
           Covers(m) == \A k \in 1 .. off[m + 1] : \E i \in 1 .. m :
                          off[i] < k /\ k <= off[i + 1]
           Places(m) == Len(f[m]) = off[m + 1] /\ Ends(m) /\ Holds(m) /\ Covers(m)
           P == {m \in Nat : m <= n => Places(m)}
<1>3. Places(0)
  BY <1>1
<1>4. ASSUME NEW m \in Nat, m + 1 <= n, Places(m) PROVE Places(m + 1)
  <2>1. m \in 0 .. n /\ m + 1 \in 1 .. n /\ m + 1 \in 1 .. n + 1 /\ m + 2 \in 1 .. n + 1
        /\ (m + 1) - 1 = m /\ (m + 1) + 1 = m + 2
    BY ONLY m \in Nat, n \in Nat, m + 1 <= n
  <2>2. PICK s, t, u : s = f[m] /\ t = seqs[m + 1] /\ u = f[m + 1]
    OBVIOUS
  <2>3. s \in Seq(X) /\ t \in Seq(X) /\ u = s \o t
    BY ONLY <1>1, <1>2, <2>1, <2>2
  <2>4. /\ Len(u) = Len(s) + Len(t) /\ Len(s) \in Nat /\ Len(t) \in Nat
        /\ \A k \in 1 .. Len(s) : u[k] = s[k]
        /\ \A k \in 1 .. Len(t) : u[Len(s) + k] = t[k]
    BY ONLY <2>3
  <2>5. PICK a, b : a = off[m + 1] /\ b = off[m + 2]
    OBVIOUS
  <2>6. a \in Nat /\ b \in Nat
    BY ONLY <2>1, <2>5, off \in [1 .. n + 1 -> Nat]
  <2>7. b = a + Len(t) /\ Len(s) = a
    BY <1>4, <2>1, <2>2, <2>5
  <2>8. Len(u) = b
    BY ONLY <2>4, <2>6, <2>7
  <2>9. ASSUME NEW i \in 1 .. m + 1 PROVE off[i + 1] <= b
    <3>1. CASE i = m + 1
      BY ONLY <2>1, <2>5, <2>6, <3>1
    <3>2. CASE i # m + 1
      <4>1. i \in 1 .. m /\ i + 1 \in 1 .. n + 1
        BY ONLY <2>1, <3>2, m \in Nat, n \in Nat
      <4>2. off[i + 1] <= a /\ off[i + 1] \in Nat
        BY ONLY <1>4, <2>5, <4>1, off \in [1 .. n + 1 -> Nat]
      <4> QED BY ONLY <2>4, <2>6, <2>7, <4>2
    <3> QED BY <3>1, <3>2
  <2>10. ASSUME NEW i \in 1 .. m + 1, NEW j \in 1 .. Len(seqs[i])
         PROVE  u[off[i] + j] = seqs[i][j]
    <3>1. CASE i = m + 1
      <4>1. j \in 1 .. Len(t) /\ off[i] = Len(s) /\ seqs[i] = t
        BY ONLY <2>2, <2>5, <2>7, <3>1, j \in 1 .. Len(seqs[i])
      <4>2. u[off[i] + j] = t[j]
        BY ONLY <2>4, <4>1
      <4> QED BY ONLY <4>1, <4>2
    <3>2. CASE i # m + 1
      <4>1. i \in 1 .. m /\ i + 1 \in 1 .. n + 1 /\ i \in 1 .. n + 1 /\ i \in 1 .. n
        BY ONLY <2>1, <3>2, m \in Nat, n \in Nat
      <4>2. PICK o, v : o = off[i] /\ v = seqs[i]
        OBVIOUS
      <4>3. o \in Nat /\ v \in Seq(X)
        BY ONLY <1>2, <4>1, <4>2, off \in [1 .. n + 1 -> Nat]
      <4>4. off[i + 1] = o + Len(v) /\ off[i + 1] <= a
        BY <1>4, <2>5, <4>1, <4>2
      <4>5. o + j \in 1 .. Len(s)
        <5>1. j \in Nat /\ 1 <= j /\ j <= Len(v) /\ Len(v) \in Nat
          BY ONLY <4>2, <4>3, j \in 1 .. Len(seqs[i])
        <5>2. o + Len(v) <= a
          BY ONLY <4>4
        <5>3. o + j >= 1 /\ o + j <= a /\ o + j \in Nat
          BY ONLY <2>6, <4>3, <5>1, <5>2
        <5> QED BY ONLY <2>6, <2>7, <5>3
      <4>6. s[o + j] = v[j]
        BY ONLY <1>4, <2>2, <4>1, <4>2, j \in 1 .. Len(seqs[i])
      <4> QED BY ONLY <2>4, <4>2, <4>5, <4>6
    <3> QED BY <3>1, <3>2
  <2>11. ASSUME NEW k \in 1 .. b
         PROVE  \E i \in 1 .. m + 1 : off[i] < k /\ k <= off[i + 1]
    <3>1. CASE k <= a
      <4>1. k \in 1 .. a
        BY ONLY <2>6, <3>1, k \in 1 .. b
      <4>2. PICK i \in 1 .. m : off[i] < k /\ k <= off[i + 1]
        BY ONLY <1>4, <2>5, <4>1
      <4> QED BY ONLY <4>2, m \in Nat
    <3>2. CASE k > a
      <4>1. m + 1 \in 1 .. m + 1 /\ off[m + 1] < k /\ k <= off[(m + 1) + 1]
        BY ONLY <2>1, <2>5, <2>6, <3>2, k \in 1 .. b, m \in Nat
      <4> QED BY ONLY <4>1
    <3> QED BY ONLY <2>6, <3>1, <3>2, k \in 1 .. b
  <2>12. Ends(m + 1) /\ Holds(m + 1) /\ Covers(m + 1)
    BY ONLY <2>1, <2>2, <2>5, <2>9, <2>10, <2>11
  <2> QED BY <2>1, <2>2, <2>5, <2>8, <2>12
<1> HIDE DEF Places
<1>5. n \in P
  <2>1. 0 \in P
    BY <1>3
  <2>2. ASSUME NEW m \in Nat, m \in P PROVE m + 1 \in P
    BY <1>4, <2>2
  <2> HIDE DEF P
  <2> QED BY <2>1, <2>2, InductionOverNat
<1>6. Places(n) /\ f[n] \in Seq(X) /\ flat = f[n]
  <2>1. n \in 0 .. n
    OBVIOUS
  <2>2. Places(n)
    BY ONLY <1>5, n \in Nat
  <2>3. f[n] \in Seq(X) /\ flat = f[n]
    BY ONLY <1>1, <2>1, flat = FlattenSeq(seqs), f \in [0 .. n -> Seq(X)]
  <2> QED BY ONLY <2>2, <2>3
<1> QED BY ONLY <1>6 DEF Places, Holds, Covers, Placed

\* What a concatenation holds.
LEMMA Concatenation ==
  ASSUME NEW X, NEW s \in Seq(X), NEW t \in Seq(X), NEW u, u = s \o t
  PROVE  /\ u \in Seq(X) /\ Len(u) = Len(s) + Len(t)
         /\ Len(s) \in Nat /\ Len(t) \in Nat
         /\ \A k \in 1 .. Len(s) : u[k] = s[k]
         /\ \A k \in 1 .. Len(t) : u[Len(s) + k] = t[k]
OBVIOUS

\* What lies between two places of a sequence.
LEMMA Between ==
  ASSUME NEW X, NEW s \in Seq(X), NEW c \in Nat, NEW n \in Nat, c <= n, n <= Len(s),
         NEW t, t = SubSeq(s, c + 1, n)
  PROVE  /\ t \in Seq(X) /\ Len(t) = n - c
         /\ \A i \in 1 .. n - c : t[i] = s[c + i]
<1>1. \A i \in c + 1 .. n : s[i] \in X
  OBVIOUS
<1>2. c + 1 \in Int /\ n \in Int
  OBVIOUS
<1>3. /\ t \in Seq(X) /\ Len(t) = IF c + 1 <= n THEN n - (c + 1) + 1 ELSE 0
      /\ \A i \in 1 .. n - (c + 1) + 1 : t[i] = s[(c + 1) + i - 1]
  BY ONLY <1>1, <1>2, SubSeqProperties, t = SubSeq(s, c + 1, n)
<1> QED BY <1>3

\* Two sequences with the same elements are the same.
LEMMA SameElements ==
  ASSUME NEW X, NEW s \in Seq(X), NEW t \in Seq(X), Len(s) = Len(t),
         \A i \in 1 .. Len(s) : s[i] = t[i]
  PROVE  s = t
OBVIOUS

\* What remains when the first w elements are taken.
LEMMA BetweenTaken ==
  ASSUME NEW X, NEW s \in Seq(X), NEW c \in Nat, NEW n \in Nat, c <= n, n <= Len(s),
         NEW w \in Nat, c + w <= n
  PROVE  LET t == SubSeq(s, c + 1, n)
         IN  /\ SubSeq(t, w + 1, Len(t)) = SubSeq(s, c + w + 1, n)
             /\ SubSeq(t, 1, w) = SubSeq(s, c + 1, c + w)
<1>1. PICK t : t = SubSeq(s, c + 1, n)
  OBVIOUS
<1>2. t \in Seq(X) /\ Len(t) = n - c /\ \A i \in 1 .. n - c : t[i] = s[c + i]
  BY <1>1, Between
<1>3. PICK u, v : u = SubSeq(t, w + 1, Len(t)) /\ v = SubSeq(s, c + w + 1, n)
  OBVIOUS
<1>4. u = v
  <2>1. u \in Seq(X) /\ Len(u) = Len(t) - w /\ \A i \in 1 .. Len(t) - w : u[i] = t[w + i]
    <3>1. Len(t) \in Nat /\ w <= Len(t)
      BY <1>2
    <3> QED BY ONLY <1>2, <1>3, <3>1, Between, w \in Nat
  <2>2. v \in Seq(X) /\ Len(v) = n - (c + w) /\ \A i \in 1 .. n - (c + w) : v[i] = s[c + w + i]
    <3>1. c + w \in Nat /\ c + w <= n
      OBVIOUS
    <3> QED BY <1>3, <3>1, Between
  <2>3. Len(u) = Len(v) /\ Len(u) = n - (c + w)
    BY <1>2, <2>1, <2>2
  <2>4. \A i \in 1 .. n - (c + w) : w + i \in 1 .. n - c /\ c + (w + i) = c + w + i
    OBVIOUS
  <2> QED BY ONLY <1>2, <2>1, <2>2, <2>3, <2>4, SameElements
<1>5. PICK x, y : x = SubSeq(t, 1, w) /\ y = SubSeq(s, c + 1, c + w)
  OBVIOUS
<1>6. x = y
  <2>1. x \in Seq(X) /\ Len(x) = w /\ \A i \in 1 .. w : x[i] = t[i]
    <3>1. 0 \in Nat /\ w <= Len(t) /\ x = SubSeq(t, 0 + 1, w)
      BY <1>2, <1>5
    <3>2. Len(x) = w - 0 /\ x \in Seq(X) /\ \A i \in 1 .. w - 0 : x[i] = t[0 + i]
      BY ONLY <1>2, <3>1, Between, w \in Nat
    <3> QED BY <1>2, <3>2
  <2>2. y \in Seq(X) /\ Len(y) = w /\ \A i \in 1 .. w : y[i] = s[c + i]
    <3>1. PICK e : e = c + w
      OBVIOUS
    <3>2. e \in Nat /\ e <= Len(s) /\ c <= e /\ e - c = w /\ y = SubSeq(s, c + 1, e)
      BY <1>5, <3>1
    <3>3. y \in Seq(X) /\ Len(y) = e - c /\ \A i \in 1 .. e - c : y[i] = s[c + i]
      BY ONLY <3>2, Between, s \in Seq(X), c \in Nat
    <3> QED BY ONLY <3>2, <3>3
  <2>3. \A i \in 1 .. w : i \in 1 .. n - c
    OBVIOUS
  <2> QED BY ONLY <1>2, <2>1, <2>2, <2>3, SameElements
<1> QED BY <1>1, <1>3, <1>4, <1>5, <1>6

\* What remains when more arrives.
LEMMA BetweenJoined ==
  ASSUME NEW X, NEW s \in Seq(X), NEW c \in Nat, NEW n \in Nat, NEW m \in Nat,
         c <= n, n <= m, m <= Len(s)
  PROVE  SubSeq(s, c + 1, n) \o SubSeq(s, n + 1, m) = SubSeq(s, c + 1, m)
<1>1. PICK t, u, v, w : t = SubSeq(s, c + 1, n) /\ u = SubSeq(s, n + 1, m)
                        /\ v = SubSeq(s, c + 1, m) /\ w = t \o u
  OBVIOUS
<1>2. t \in Seq(X) /\ Len(t) = n - c /\ \A i \in 1 .. n - c : t[i] = s[c + i]
  BY <1>1, Between
<1>3. u \in Seq(X) /\ Len(u) = m - n /\ \A i \in 1 .. m - n : u[i] = s[n + i]
  BY <1>1, Between
<1>4. v \in Seq(X) /\ Len(v) = m - c /\ \A i \in 1 .. m - c : v[i] = s[c + i]
  BY <1>1, Between
<1>5. /\ w \in Seq(X) /\ Len(w) = Len(t) + Len(u)
      /\ \A k \in 1 .. Len(t) : w[k] = t[k]
      /\ \A k \in 1 .. Len(u) : w[Len(t) + k] = u[k]
  BY ONLY <1>1, <1>2, <1>3, Concatenation
<1>6. Len(w) = m - c
  BY <1>2, <1>3, <1>5
<1>7. ASSUME NEW i \in 1 .. m - c PROVE w[i] = v[i]
  <2>1. CASE i <= n - c
    <3>1. i \in 1 .. n - c /\ i \in 1 .. Len(t)
      BY <1>2, <2>1
    <3> QED BY ONLY <1>2, <1>4, <1>5, <3>1, i \in 1 .. m - c
  <2>2. CASE i > n - c
    <3>1. PICK k : k = i - (n - c)
      OBVIOUS
    <3>2. k \in 1 .. m - n /\ i = (n - c) + k /\ n + k = c + i
      BY <2>2, <3>1
    <3> QED BY ONLY <1>2, <1>3, <1>4, <1>5, <3>2, i \in 1 .. m - c
  <2> QED BY <2>1, <2>2
<1> QED BY ONLY <1>1, <1>4, <1>5, <1>6, <1>7, SameElements

-----------------------------------------------------------------------------
(* Lines.                                                                   *)

Byte == STRING \cup {CR, LF, "S", Length, Transfer}

\* Where the first line ends, if w bytes without CR, a CR and an LF are what
\* the parser has before it, as far as they have come.
LEMMA LineAhead ==
  ASSUME NEW s \in Seq(Byte), NEW w \in Nat,
         \A i \in 1 .. w : i <= Len(s) => s[i] # CR,
         w + 1 <= Len(s) => s[w + 1] = CR,
         w + 2 <= Len(s) => s[w + 2] = LF
  PROVE  /\ Len(s) >= w + 2 => LineEnds(s) # {} /\ Min(LineEnds(s)) = w + 1
         /\ Len(s) < w + 2 => LineEnds(s) = {}
<1> DEFINE E == LineEnds(s)
<1>1. Len(s) \in Nat
  OBVIOUS
<1>2. \A i \in E : i \in 1 .. Len(s) - 1 /\ s[i] = CR
  BY DEF LineEnds
<1>3. \A i \in E : i > w
  BY <1>1, <1>2
<1>4. ASSUME Len(s) >= w + 2 PROVE E # {} /\ Min(E) = w + 1
  <2>1. w + 1 \in 1 .. Len(s) - 1 /\ s[w + 1] = CR /\ s[(w + 1) + 1] = LF
    BY <1>1, <1>4
  <2>2. w + 1 \in E
    BY <2>1 DEF LineEnds
  <2>3. \A i \in E : w + 1 <= i
    BY <1>1, <1>2, <1>3
  <2>4. \A x \in E : (\A y \in E : x <= y) => x = w + 1
    BY <1>1, <1>2, <2>2, <2>3
  <2> HIDE DEF E
  <2> QED BY <2>2, <2>3, <2>4 DEF Min
<1>5. ASSUME Len(s) < w + 2 PROVE E = {}
  BY <1>1, <1>2, <1>3, <1>5
<1> QED BY <1>4, <1>5

-----------------------------------------------------------------------------
(* What a host sends.                                                       *)

PartName == {"status", "header", "date", "frame", "body"}

Piece == [byte : Byte, part : PartName, nth : Nat]

\* A line of a part is in m after c bytes.
LineAt(m, c, s, part) ==
  /\ c + Len(s) + 2 <= Len(m)
  /\ \A i \in 1 .. Len(s) : m[c + i].byte = s[i] /\ m[c + i].part = part
  /\ m[c + Len(s) + 1].byte = CR /\ m[c + Len(s) + 1].part = "frame"
  /\ m[c + Len(s) + 2].byte = LF /\ m[c + Len(s) + 2].part = "frame"

\* Bytes of the body are in m after c bytes, those after the first b ones.
BodyIn(m, c, s, b) ==
  /\ c + Len(s) <= Len(m)
  /\ \A i \in 1 .. Len(s) :
       m[c + i].byte = s[i] /\ m[c + i].part = "body" /\ m[c + i].nth = b + i

\* The bytes of a part of a response: each knows its place in it.
LEMMA PartIs ==
  ASSUME NEW s \in Seq(Byte), NEW part \in PartName, NEW b \in Nat, NEW m, m = Part(s, part, b)
  PROVE  /\ m \in Seq(Piece) /\ Len(m) = Len(s)
         /\ \A i \in 1 .. Len(s) : m[i].byte = s[i] /\ m[i].part = part /\ m[i].nth = b + i
<1>1. \A i \in 1 .. Len(s) : /\ [byte |-> s[i], part |-> part, nth |-> b + i] \in Piece
                             /\ s[i] \in Byte
  BY DEF Piece
<1>2. m = [i \in 1 .. Len(s) |-> [byte |-> s[i], part |-> part, nth |-> b + i]]
  BY DEF Part
<1>3. Len(s) \in Nat
  OBVIOUS
<1> QED BY ONLY <1>1, <1>2, <1>3

\* A line of a response: its bytes and a line end.
LEMMA LineIs ==
  ASSUME NEW s \in Seq(Byte), NEW part \in PartName, NEW m, m = Line(s, part)
  PROVE  /\ m \in Seq(Piece) /\ Len(m) = Len(s) + 2 /\ LineAt(m, 0, s, part)
         /\ \A k \in 1 .. Len(m) : k <= Len(s) \/ m[k].part = "frame"
<1>1. PICK t, u, e : t = Part(s, part, 0) /\ u = Part(e, "frame", 0) /\ e = <<CR, LF>>
  OBVIOUS
<1>2. e \in Seq(Byte) /\ Len(e) = 2 /\ e[1] = CR /\ e[2] = LF
  BY <1>1 DEF Byte
<1>3. 0 \in Nat /\ "frame" \in PartName
  BY DEF PartName
<1>4. t \in Seq(Piece) /\ Len(t) = Len(s) /\ \A i \in 1 .. Len(s) : t[i].byte = s[i] /\ t[i].part = part
  BY <1>1, <1>3, PartIs
<1>5. u \in Seq(Piece) /\ Len(u) = 2 /\ \A i \in 1 .. 2 : u[i].byte = e[i] /\ u[i].part = "frame"
  <2>1. u \in Seq(Piece) /\ Len(u) = Len(e) /\ \A i \in 1 .. Len(e) : u[i].byte = e[i] /\ u[i].part = "frame"
    <3>1. u = Part(e, "frame", 0) /\ e \in Seq(Byte) /\ 0 \in Nat /\ "frame" \in PartName
      BY <1>1, <1>2, <1>3
    <3> QED BY ONLY <3>1, PartIs
  <2> QED BY <1>2, <2>1
<1>6. m = t \o u
  BY <1>1 DEF Line
<1>7. /\ m \in Seq(Piece) /\ Len(m) = Len(t) + Len(u)
      /\ \A k \in 1 .. Len(t) : m[k] = t[k]
      /\ \A k \in 1 .. Len(u) : m[Len(t) + k] = u[k]
  <2>1. t \in Seq(Piece) /\ u \in Seq(Piece) /\ m = t \o u
    BY <1>4, <1>5, <1>6
  <2> QED BY ONLY <2>1, Concatenation
<1>8. Len(s) \in Nat /\ Len(m) = Len(s) + 2
  BY <1>4, <1>5, <1>7
<1>9. m[Len(s) + 1] = u[1] /\ m[Len(s) + 2] = u[2]
  BY ONLY <1>4, <1>5, <1>7
<1>10. \A i \in 1 .. Len(s) : m[i].byte = s[i] /\ m[i].part = part
  BY ONLY <1>4, <1>7
<1>11. LineAt(m, 0, s, part)
  BY ONLY <1>2, <1>5, <1>8, <1>9, <1>10 DEF LineAt
<1>12. ASSUME NEW k \in 1 .. Len(m), k > Len(s) PROVE m[k].part = "frame"
  <2>1. k = Len(s) + 1 \/ k = Len(s) + 2
    BY ONLY <1>8, <1>12, k \in 1 .. Len(m)
  <2> QED BY ONLY <1>5, <1>9, <2>1
<1> QED BY ONLY <1>7, <1>8, <1>11, <1>12

\* A line of a part of m is a line of m.
LEMMA LineMoved ==
  ASSUME NEW m \in Seq(Piece), NEW u \in Seq(Piece), NEW d \in Nat, d + Len(u) <= Len(m),
         \A k \in 1 .. Len(u) : m[d + k] = u[k],
         NEW c \in Nat, NEW s \in Seq(Byte), NEW part, LineAt(u, c, s, part)
  PROVE  LineAt(m, d + c, s, part)
<1>1. Len(s) \in Nat /\ Len(u) \in Nat /\ Len(m) \in Nat
  OBVIOUS
<1>2. c + Len(s) + 2 <= Len(u)
  BY DEF LineAt
<1>3. PICK e : e = d + c
  OBVIOUS
<1>4. e \in Nat /\ e + Len(s) + 2 <= Len(m)
  BY <1>1, <1>2, <1>3
<1>5. \A i \in 1 .. Len(s) + 2 : m[e + i] = u[c + i]
  <2> SUFFICES ASSUME NEW i \in 1 .. Len(s) + 2 PROVE m[e + i] = u[c + i]
    OBVIOUS
  <2>1. PICK k : k = c + i
    OBVIOUS
  <2>2. k \in 1 .. Len(u) /\ d + k = e + i
    BY <1>1, <1>2, <1>3, <2>1
  <2> QED BY <2>1, <2>2
<1>6. m[e + Len(s) + 1] = u[c + Len(s) + 1] /\ m[e + Len(s) + 2] = u[c + Len(s) + 2]
  <2>1. PICK i : i = Len(s) + 1
    OBVIOUS
  <2>2. i \in 1 .. Len(s) + 2 /\ i + 1 \in 1 .. Len(s) + 2
        /\ e + i = e + Len(s) + 1 /\ c + i = c + Len(s) + 1
        /\ e + (i + 1) = e + Len(s) + 2 /\ c + (i + 1) = c + Len(s) + 2
    BY <1>1, <1>4, <2>1
  <2> QED BY ONLY <1>5, <2>2
<1>7. \A i \in 1 .. Len(s) : m[e + i] = u[c + i]
  BY <1>1, <1>5
<1>8. LineAt(m, e, s, part)
  BY <1>4, <1>6, <1>7 DEF LineAt
<1> QED BY <1>3, <1>8

\* Bytes of the body in a part of m are in m.
LEMMA BodyMoved ==
  ASSUME NEW m \in Seq(Piece), NEW u \in Seq(Piece), NEW d \in Nat, d + Len(u) <= Len(m),
         \A k \in 1 .. Len(u) : m[d + k] = u[k],
         NEW c \in Nat, NEW s \in Seq(Byte), NEW b, BodyIn(u, c, s, b)
  PROVE  BodyIn(m, d + c, s, b)
<1>1. Len(s) \in Nat /\ Len(u) \in Nat /\ Len(m) \in Nat
  OBVIOUS
<1>2. c + Len(s) <= Len(u)
  BY DEF BodyIn
<1>3. PICK e : e = d + c
  OBVIOUS
<1>4. e \in Nat /\ e + Len(s) <= Len(m)
  BY <1>1, <1>2, <1>3
<1>5. ASSUME NEW i \in 1 .. Len(s) PROVE m[e + i] = u[c + i]
  <2>1. PICK k : k = c + i
    OBVIOUS
  <2>2. k \in 1 .. Len(u) /\ d + k = e + i
    BY <1>1, <1>2, <1>3, <2>1
  <2> QED BY <2>1, <2>2
<1>6. BodyIn(m, e, s, b)
  BY <1>4, <1>5 DEF BodyIn
<1> QED BY <1>3, <1>6

-----------------------------------------------------------------------------
(* Sums of sizes.                                                           *)

\* The sums of the sizes before each place exist.
LEMMA PrefixSums ==
  ASSUME NEW n \in Nat, NEW size \in [1 .. n -> Nat]
  PROVE  \E b \in [1 .. n -> Nat] :
           \A i \in 1 .. n : b[i] = IF i = 1 THEN 0 ELSE b[i - 1] + size[i - 1]
<1> DEFINE Step(i, x) == IF i \in 1 .. n THEN x + size[i] ELSE x
           step == [a \in Nat \X Nat |-> Step(a[1], a[2])]
<1>1. step \in [Nat \X Nat -> Nat] /\ 0 \in Nat
  OBVIOUS
<1>2. \A i \in Nat, x \in Nat : step[<<i, x>>] = Step(i, x)
  OBVIOUS
<1> HIDE DEF step
<1>3. PICK f : IsLoop(f, Nat, step, 0, n)
  BY <1>1, LoopExists
<1>4. f \in [0 .. n -> Nat] /\ f[0] = 0 /\ \A i \in 1 .. n : f[i] = f[i - 1] + size[i]
  <2>1. f \in [0 .. n -> Nat] /\ f[0] = 0 /\ \A i \in 1 .. n : f[i] = step[<<i, f[i - 1]>>]
    BY <1>3 DEF IsLoop
  <2>2. \A i \in 1 .. n : i \in Nat /\ f[i - 1] \in Nat
    BY <2>1
  <2> QED BY <1>2, <2>1, <2>2
<1> DEFINE b == [i \in 1 .. n |-> f[i - 1]]
<1>5. b \in [1 .. n -> Nat]
  BY <1>4
<1>6. \A i \in 1 .. n : b[i] = IF i = 1 THEN 0 ELSE b[i - 1] + size[i - 1]
  BY <1>4
<1> QED BY <1>5, <1>6

\* SizesBefore sums the sizes of the chunks.
LEMMA SizesBeforeIs ==
  ASSUME NEW r, r.sizes \in Seq(Nat), NEW n \in Nat, n = Len(r.sizes), NEW b, b = SizesBefore(r)
  PROVE  /\ b \in [1 .. n + 1 -> Nat] /\ b[1] = 0
         /\ \A i \in 1 .. n : b[i + 1] = b[i] + r.sizes[i]
<1> DEFINE size == [i \in 1 .. n + 1 |-> IF i <= n THEN r.sizes[i] ELSE 0]
<1>1. size \in [1 .. n + 1 -> Nat] /\ n + 1 \in Nat /\ \A i \in 1 .. n : size[i] = r.sizes[i]
  OBVIOUS
<1> HIDE DEF size
<1>2. PICK c \in [1 .. n + 1 -> Nat] :
        \A i \in 1 .. n + 1 : c[i] = IF i = 1 THEN 0 ELSE c[i - 1] + size[i - 1]
  BY <1>1, PrefixSums
<1>3. \A i \in 1 .. n + 1 : i # 1 => i - 1 \in 1 .. n
  OBVIOUS
<1>4. c = [i \in 1 .. n + 1 |-> IF i = 1 THEN 0 ELSE c[i - 1] + r.sizes[i - 1]]
  BY <1>1, <1>2, <1>3
<1> DEFINE before[i \in 1 .. n + 1] == IF i = 1 THEN 0 ELSE before[i - 1] + r.sizes[i - 1]
<1>5. before = [i \in 1 .. n + 1 |-> IF i = 1 THEN 0 ELSE before[i - 1] + r.sizes[i - 1]]
  BY <1>4
<1>6. b = before
  BY DEF SizesBefore
<1> HIDE DEF before
<1> DEFINE P == {i \in Nat : i + 1 \in 1 .. n + 1 => b[i + 1] = c[i + 1]}
<1>7. \A i \in 1 .. n + 1 : b[i] = IF i = 1 THEN 0 ELSE b[i - 1] + r.sizes[i - 1]
  BY <1>5, <1>6
<1>8. 0 \in P
  BY <1>2, <1>7
<1>9. ASSUME NEW i \in Nat, i \in P PROVE i + 1 \in P
  <2> SUFFICES ASSUME i + 2 \in 1 .. n + 1 PROVE b[i + 2] = c[i + 2]
    OBVIOUS
  <2>1. i + 1 \in 1 .. n + 1 /\ i + 2 # 1 /\ (i + 2) - 1 = i + 1 /\ i + 1 \in 1 .. n
    OBVIOUS
  <2>2. b[i + 1] = c[i + 1]
    BY <1>9, <2>1
  <2>3. b[i + 2] = b[i + 1] + r.sizes[i + 1] /\ c[i + 2] = c[i + 1] + size[i + 1]
    BY ONLY <1>2, <1>7, <2>1, i + 2 \in 1 .. n + 1
  <2> QED BY <1>1, <2>1, <2>2, <2>3
<1> HIDE DEF P
<1>10. Nat \subseteq P
  BY <1>8, <1>9, InductionOverNat
<1>11. \A i \in 1 .. n + 1 : b[i] = c[i]
  <2> SUFFICES ASSUME NEW i \in 1 .. n + 1 PROVE b[i] = c[i]
    OBVIOUS
  <2>1. i - 1 \in Nat /\ (i - 1) + 1 = i
    OBVIOUS
  <2>2. i - 1 \in P
    BY <1>10, <2>1
  <2> QED BY <2>1, <2>2 DEF P
<1>12. b = c
  <2>1. DOMAIN b = 1 .. n + 1 /\ DOMAIN c = 1 .. n + 1
    BY <1>5, <1>6
  <2>2. b = [i \in 1 .. n + 1 |-> b[i]] /\ c = [i \in 1 .. n + 1 |-> c[i]]
    BY <1>5, <1>6
  <2> QED BY ONLY <1>11, <2>2
<1>13. \A i \in 1 .. n : i + 1 \in 1 .. n + 1 /\ i + 1 # 1 /\ (i + 1) - 1 = i
  OBVIOUS
<1>14. \A i \in 1 .. n : c[i + 1] = c[i] + size[i]
  BY <1>2, <1>13
<1>15. c[1] = 0
  BY <1>2
<1> QED BY ONLY <1>1, <1>2, <1>12, <1>14, <1>15

FrameWidth(r) == IF r.framing = "length" THEN 4 ELSE IF r.framing = "chunked" THEN 3 ELSE 0
FramingAt(r) == 3 * (Len(r.head) + 1)
BodyStart(r) == FramingAt(r) + FrameWidth(r) + 2
\* The chunk that ends a response is one of size 0, and its end is that of the response.
Size(r, i) == IF i <= Len(r.sizes) THEN r.sizes[i] ELSE 0
Before(r, i) == SizesBefore(r)[IF i <= Len(r.sizes) THEN i ELSE Len(r.sizes) + 1]
ChunkAt(r, i) == BodyStart(r) + Before(r, i) + 5 * (i - 1)
ChunkBody(r, i) == SubSeq(r.body, Before(r, i) + 1, Before(r, i) + Size(r, i))

\* What a response is made of.
LEMMA ResponseIs ==
  ASSUME NEW r \in Responses
  PROVE  /\ r.head \in Seq(Byte) /\ Len(r.head) \in Nat
         /\ r.framing \in Framing /\ r.body \in Seq(Byte) /\ Len(r.body) \in Nat
         /\ r.sizes \in Seq(Nat \ {0}) /\ Len(r.sizes) \in Nat
         /\ \A i, j \in 1 .. Len(r.head) : r.head[i] = r.head[j] => i = j
         /\ \A i \in 1 .. Len(r.head) : r.head[i] \notin {CR, LF, Length, Transfer}
         /\ r.framing = "length" => Len(r.body) < Len(Digits)
         /\ r.framing = "chunked" => \A i \in 1 .. Len(r.sizes) : r.sizes[i] < Len(Digits)
<1>1. /\ r.head \in Seq(STRING) /\ r.framing \in Framing /\ r.body \in Seq(STRING)
      /\ r.sizes \in Seq(Nat \ {0})
  BY ResponseAssumption
<1>2. r.head \in Seq(Byte) /\ r.body \in Seq(Byte)
  <2>1. STRING \subseteq Byte
    BY DEF Byte
  <2>2. ASSUME NEW s \in Seq(STRING) PROVE s \in Seq(Byte)
    <3>1. Len(s) \in Nat /\ s = [i \in 1 .. Len(s) |-> s[i]] /\ \A i \in 1 .. Len(s) : s[i] \in STRING
      OBVIOUS
    <3> QED BY ONLY <2>1, <3>1, IsSequence
  <2> QED BY <1>1, <2>2
<1>3. DOMAIN r.head = 1 .. Len(r.head) /\ DOMAIN r.sizes = 1 .. Len(r.sizes)
  BY <1>1
<1>4. \A i, j \in 1 .. Len(r.head) : r.head[i] = r.head[j] => i = j
  BY <1>3, ResponseAssumption DEF IsInjective
<1>5. \A i \in 1 .. Len(r.head) : r.head[i] \notin {CR, LF, Length, Transfer}
  BY <1>3, ResponseAssumption
<1>6. r.framing = "length" => Len(r.body) < Len(Digits)
  BY ResponseAssumption
<1>7. r.framing = "chunked" => \A i \in 1 .. Len(r.sizes) : r.sizes[i] < Len(Digits)
  BY <1>3, ResponseAssumption
<1>8. Len(r.head) \in Nat /\ Len(r.body) \in Nat /\ Len(r.sizes) \in Nat
  BY <1>1
<1> QED BY ONLY <1>1, <1>2, <1>4, <1>5, <1>6, <1>7, <1>8

\* What a digit is.
LEMMA DigitIs ==
  /\ Len(Digits) \in Nat \ {0}
  /\ \A n \in 0 .. Len(Digits) - 1 :
       /\ Digit(n) \in Byte /\ Digit(n) \notin {CR, LF} /\ Value(Digit(n)) = n
       /\ \A m \in 0 .. Len(Digits) - 1 : Digit(m) = Digit(n) => m = n
<1>1. /\ Len(Digits) \in Nat \ {0} /\ DOMAIN Digits = 1 .. Len(Digits)
      /\ \A i \in 1 .. Len(Digits) : Digits[i] \in STRING
  BY DigitsAssumption
<1>2. ASSUME NEW n \in 0 .. Len(Digits) - 1
      PROVE  Digit(n) \in Byte /\ Digit(n) \notin {CR, LF}
  <2>1. n + 1 \in 1 .. Len(Digits)
    BY <1>1
  <2> QED BY <1>1, <2>1, DigitsAssumption DEF Digit, Byte
<1>3. \A m, n \in 0 .. Len(Digits) - 1 : Digit(m) = Digit(n) => m = n
  <2> SUFFICES ASSUME NEW m \in 0 .. Len(Digits) - 1, NEW n \in 0 .. Len(Digits) - 1,
                      Digit(m) = Digit(n)
               PROVE  m = n
    OBVIOUS
  <2>1. m + 1 \in DOMAIN Digits /\ n + 1 \in DOMAIN Digits /\ Digits[m + 1] = Digits[n + 1]
    BY <1>1 DEF Digit
  <2>2. m + 1 = n + 1
    BY <2>1, DigitsAssumption DEF IsInjective
  <2> QED BY <2>2
<1>4. ASSUME NEW n \in 0 .. Len(Digits) - 1 PROVE Value(Digit(n)) = n
  BY <1>3 DEF Value
<1> QED BY ONLY <1>1, <1>2, <1>3, <1>4

FramingLine(r) == IF r.framing = "length" THEN <<Length, Digit(Len(r.body))>> ELSE <<Transfer>>
HeadPart(r, i) == IF r.head[i] = Date THEN "date" ELSE "header"

HeadLines(r) == FlattenSeq([i \in 1 .. Len(r.head) |-> Line(<<r.head[i]>>, HeadPart(r, i))])

\* The lines of the head, each of three bytes.
HeadHolds(r, n, m) ==
  /\ m \in Seq(Piece) /\ Len(m) = 3 * n
  /\ \A i \in 1 .. n : LineAt(m, 3 * (i - 1), <<r.head[i]>>, HeadPart(r, i))
  /\ \A k \in 1 .. 3 * n : m[k].part = "frame" \/ \E i \in 1 .. n : k = 3 * (i - 1) + 1

\* The header lines of a response are where HeadHolds says.
LEMMA HeadIs ==
  ASSUME NEW r \in Responses, NEW n \in Nat, n = Len(r.head), NEW m, m = HeadLines(r)
  PROVE  HeadHolds(r, n, m)
<1> DEFINE lines == [i \in 1 .. n |-> Line(<<r.head[i]>>, HeadPart(r, i))]
<1>1. ASSUME NEW i \in 1 .. n
      PROVE  /\ lines[i] \in Seq(Piece) /\ Len(lines[i]) = 3
             /\ LineAt(lines[i], 0, <<r.head[i]>>, HeadPart(r, i))
             /\ \A k \in 1 .. 3 : k = 1 \/ lines[i][k].part = "frame"
  <2>1. PICK s, part, u : s = <<r.head[i]>> /\ part = HeadPart(r, i) /\ u = Line(s, part)
    OBVIOUS
  <2>2. s \in Seq(Byte) /\ Len(s) = 1 /\ part \in PartName
    BY <2>1, ResponseIs DEF HeadPart, PartName
  <2>3. /\ u \in Seq(Piece) /\ Len(u) = Len(s) + 2 /\ LineAt(u, 0, s, part)
        /\ \A k \in 1 .. Len(u) : k <= Len(s) \/ u[k].part = "frame"
    <3>1. u = Line(s, part)
      BY <2>1
    <3> QED BY ONLY <2>2, <3>1, LineIs
  <2>4. u = lines[i]
    BY <2>1
  <2> QED BY ONLY <2>1, <2>2, <2>3, <2>4
<1>2. lines \in Seq(Seq(Piece)) /\ Len(lines) = n
  <2>1. lines = [i \in 1 .. n |-> lines[i]]
    OBVIOUS
  <2>2. \A i \in 1 .. n : lines[i] \in Seq(Piece)
    BY <1>1
  <2> HIDE DEF lines
  <2> QED BY ONLY <2>1, <2>2, n \in Nat, IsSequence
<1> HIDE DEF lines
<1> DEFINE off == [i \in 1 .. n + 1 |-> 3 * (i - 1)]
<1>3. off \in [1 .. n + 1 -> Nat] /\ off[1] = 0
  OBVIOUS
<1>4. \A i \in 1 .. n + 1 : off[i] = 3 * (i - 1)
  OBVIOUS
<1> HIDE DEF off
<1>5. Offsets(off, lines, n)
  <2>1. ASSUME NEW i \in 1 .. n PROVE off[i + 1] = off[i] + Len(lines[i])
    <3>1. i \in 1 .. n + 1 /\ i + 1 \in 1 .. n + 1
      OBVIOUS
    <3>2. off[i] = 3 * (i - 1) /\ off[i + 1] = 3 * ((i + 1) - 1)
      BY ONLY <1>4, <3>1
    <3>3. Len(lines[i]) = 3
      BY <1>1
    <3> QED BY ONLY <3>2, <3>3, i \in 1 .. n, n \in Nat
  <2> QED BY ONLY <1>2, <1>3, <2>1 DEF Offsets
<1>6. m = FlattenSeq(lines)
  BY DEF lines, HeadLines
<1>7. m \in Seq(Piece) /\ Placed(m, off, lines, n)
  BY ONLY <1>2, <1>5, <1>6, n \in Nat, FlattenedAt
<1>8. Len(m) = 3 * n
  BY ONLY <1>4, <1>7, n \in Nat DEF Placed
<1>9. ASSUME NEW i \in 1 .. n
      PROVE  LineAt(m, 3 * (i - 1), <<r.head[i]>>, HeadPart(r, i))
  <2>1. PICK u, s, part, d : u = lines[i] /\ s = <<r.head[i]>> /\ part = HeadPart(r, i) /\ d = 3 * (i - 1)
    OBVIOUS
  <2>2. u \in Seq(Piece) /\ s \in Seq(Byte) /\ LineAt(u, 0, s, part) /\ Len(u) = 3
    BY <1>1, <2>1, ResponseIs
  <2>3. d \in Nat /\ d + Len(u) <= Len(m) /\ 0 \in Nat /\ off[i] = d /\ d + 0 = d
    BY <1>4, <1>8, <2>1, <2>2
  <2>4. \A k \in 1 .. Len(u) : m[d + k] = u[k]
    BY ONLY <1>7, <2>1, <2>3, i \in 1 .. n DEF Placed
  <2>5. LineAt(m, d + 0, s, part)
    BY ONLY <1>7, <2>2, <2>3, <2>4, LineMoved
  <2> QED BY <2>1, <2>3, <2>5
<1>10. ASSUME NEW k \in 1 .. 3 * n
       PROVE  m[k].part = "frame" \/ \E i \in 1 .. n : k = 3 * (i - 1) + 1
  <2>1. k \in 1 .. off[n + 1]
    BY ONLY <1>7, <1>8, k \in 1 .. 3 * n DEF Placed
  <2>2. PICK i \in 1 .. n : off[i] < k /\ k <= off[i + 1]
    BY ONLY <1>7, <2>1 DEF Placed
  <2>3. PICK d, j : d = 3 * (i - 1) /\ j = k - d
    OBVIOUS
  <2>4. off[i] = d /\ off[i + 1] = d + 3 /\ d \in Nat
    BY ONLY <1>4, <2>3, i \in 1 .. n, n \in Nat
  <2>5. j \in 1 .. 3 /\ k = d + j
    BY ONLY <2>2, <2>3, <2>4, k \in 1 .. 3 * n, n \in Nat
  <2>6. m[k] = lines[i][j]
    BY ONLY <1>1, <1>7, <2>4, <2>5 DEF Placed
  <2>7. j = 1 \/ m[k].part = "frame"
    BY ONLY <1>1, <2>5, <2>6
  <2> QED BY ONLY <2>3, <2>5, <2>7
<1> QED BY ONLY <1>7, <1>8, <1>9, <1>10 DEF HeadHolds

\* t is in u after d pieces.
Holds(u, d, t) ==
  /\ d \in Nat /\ t \in Seq(Piece) /\ u \in Seq(Piece) /\ d + Len(t) <= Len(u)
  /\ \A k \in 1 .. Len(t) : u[d + k] = t[k]

\* What one part after the other holds.
LEMMA Joined ==
  ASSUME NEW s \in Seq(Piece), NEW t \in Seq(Piece), NEW u, u = s \o t
  PROVE  /\ u \in Seq(Piece) /\ Len(u) = Len(s) + Len(t) /\ Len(s) \in Nat /\ Len(t) \in Nat
         /\ Holds(u, 0, s) /\ Holds(u, Len(s), t)
<1>1. /\ u \in Seq(Piece) /\ Len(u) = Len(s) + Len(t)
      /\ Len(s) \in Nat /\ Len(t) \in Nat
      /\ \A k \in 1 .. Len(s) : u[k] = s[k]
      /\ \A k \in 1 .. Len(t) : u[Len(s) + k] = t[k]
  BY Concatenation
<1>2. /\ 0 \in Nat /\ 0 + Len(s) <= Len(u) /\ Len(s) + Len(t) <= Len(u)
      /\ \A k \in 1 .. Len(s) : u[0 + k] = s[k]
  BY ONLY <1>1
<1>3. Holds(u, 0, s)
  BY ONLY <1>1, <1>2, s \in Seq(Piece) DEF Holds
<1>4. Holds(u, Len(s), t)
  BY ONLY <1>1, <1>2, t \in Seq(Piece) DEF Holds
<1> QED BY ONLY <1>1, <1>3, <1>4

\* A part of a part is a part.
LEMMA HoldsPart ==
  ASSUME NEW u, NEW d, NEW t, NEW e, NEW s, Holds(u, d, t), Holds(t, e, s)
  PROVE  Holds(u, d + e, s)
<1>1. /\ d \in Nat /\ e \in Nat /\ Len(t) \in Nat /\ Len(s) \in Nat /\ Len(u) \in Nat
      /\ d + Len(t) <= Len(u) /\ e + Len(s) <= Len(t)
      /\ s \in Seq(Piece) /\ u \in Seq(Piece)
  BY DEF Holds
<1>2. PICK a : a = d + e
  OBVIOUS
<1>3. a \in Nat /\ a + Len(s) <= Len(u)
  BY ONLY <1>1, <1>2
<1>4. ASSUME NEW k \in 1 .. Len(s) PROVE u[a + k] = s[k]
  <2>1. PICK j : j = e + k
    OBVIOUS
  <2>2. j \in 1 .. Len(t) /\ d + j = a + k
    BY ONLY <1>1, <1>2, <2>1, k \in 1 .. Len(s)
  <2>3. u[d + j] = t[j]
    BY <2>2 DEF Holds
  <2>4. t[e + k] = s[k]
    BY DEF Holds
  <2> QED BY ONLY <2>1, <2>2, <2>3, <2>4
<1>5. Holds(u, a, s)
  BY ONLY <1>1, <1>3, <1>4 DEF Holds
<1> QED BY ONLY <1>2, <1>5

\* A line of a part of m is a line of m.
LEMMA LineOfPart ==
  ASSUME NEW m, NEW d, NEW u, Holds(m, d, u),
         NEW c \in Nat, NEW s \in Seq(Byte), NEW part, LineAt(u, c, s, part)
  PROVE  LineAt(m, d + c, s, part)
<1>1. /\ m \in Seq(Piece) /\ u \in Seq(Piece) /\ d \in Nat /\ d + Len(u) <= Len(m)
      /\ \A k \in 1 .. Len(u) : m[d + k] = u[k]
  BY DEF Holds
<1> QED BY ONLY <1>1, LineMoved, c \in Nat, s \in Seq(Byte), LineAt(u, c, s, part)

\* Bytes of the body in a part are bytes of the body in the whole.
LEMMA BodyOfPart ==
  ASSUME NEW m, NEW d, NEW u, Holds(m, d, u),
         NEW c \in Nat, NEW s \in Seq(Byte), NEW b, BodyIn(u, c, s, b)
  PROVE  BodyIn(m, d + c, s, b)
<1>1. /\ m \in Seq(Piece) /\ u \in Seq(Piece) /\ d \in Nat /\ d + Len(u) <= Len(m)
      /\ \A k \in 1 .. Len(u) : m[d + k] = u[k]
  BY DEF Holds
<1> QED BY ONLY <1>1, BodyMoved, c \in Nat, s \in Seq(Byte), BodyIn(u, c, s, b)

\* The lines before the body.
TopHolds(r, m) ==
  /\ LineAt(m, 0, StatusLine, "status")
  /\ \A i \in 1 .. Len(r.head) : LineAt(m, 3 * i, <<r.head[i]>>, HeadPart(r, i))
  /\ r.framing # "close" => LineAt(m, FramingAt(r), FramingLine(r), "frame")
  /\ LineAt(m, BodyStart(r) - 2, <<>>, "frame")
  /\ \A k \in 1 .. BodyStart(r) :
       m[k].part = "frame" \/ k = 1 \/ \E i \in 1 .. Len(r.head) : k = 3 * i + 1

\* The places of the lines are numbers.
LEMMA PlacesAre ==
  ASSUME NEW r \in Responses
  PROVE  /\ FrameWidth(r) \in Nat /\ FramingAt(r) \in Nat /\ BodyStart(r) \in Nat
         /\ FramingAt(r) >= 3 /\ BodyStart(r) = FramingAt(r) + FrameWidth(r) + 2
         /\ r.framing # "close" => /\ FramingLine(r) \in Seq(Byte)
                                   /\ FrameWidth(r) = Len(FramingLine(r)) + 2
         /\ r.framing = "close" => FrameWidth(r) = 0
<1>1. r.framing \in {"length", "chunked", "close"} /\ Len(r.head) \in Nat
  BY ResponseIs DEF Framing
<1>2. FrameWidth(r) = IF r.framing = "length" THEN 4 ELSE IF r.framing = "chunked" THEN 3 ELSE 0
  BY <1>1 DEF FrameWidth
<1>3. FramingAt(r) \in Nat /\ FramingAt(r) >= 3 /\ FrameWidth(r) \in Nat
  BY <1>1, <1>2 DEF FramingAt
<1>4. BodyStart(r) = FramingAt(r) + FrameWidth(r) + 2
  BY DEF BodyStart
<1>5. CASE r.framing = "length"
  <2>1. Len(r.body) \in 0 .. Len(Digits) - 1
    BY <1>5, ResponseIs, DigitIs
  <2>2. Digit(Len(r.body)) \in Byte /\ Length \in Byte
    BY <2>1, DigitIs DEF Byte
  <2>3. FramingLine(r) = <<Length, Digit(Len(r.body))>>
    BY <1>5 DEF FramingLine
  <2>4. FramingLine(r) \in Seq(Byte) /\ Len(FramingLine(r)) = 2
    BY <2>2, <2>3
  <2> QED BY <1>2, <1>3, <1>4, <1>5, <2>4
<1>6. CASE r.framing = "chunked"
  <2>1. FramingLine(r) = <<Transfer>> /\ Transfer \in Byte
    BY <1>6 DEF FramingLine, Byte
  <2>2. FramingLine(r) \in Seq(Byte) /\ Len(FramingLine(r)) = 1
    BY <2>1
  <2> QED BY <1>2, <1>3, <1>4, <1>6, <2>2
<1>7. CASE r.framing = "close"
  BY <1>2, <1>3, <1>4, <1>7
<1> QED BY <1>1, <1>5, <1>6, <1>7

\* The top of a response has its lines where TopHolds says.
LEMMA TopIs ==
  ASSUME NEW r \in Responses, NEW m, m = Top(r)
  PROVE  m \in Seq(Piece) /\ Len(m) = BodyStart(r) /\ TopHolds(r, m)
<1>1. PICK h, n : h = HeadLines(r) /\ n = Len(r.head)
  OBVIOUS
<1>2. n \in Nat
  BY <1>1, ResponseIs
<1>3. /\ h \in Seq(Piece) /\ Len(h) = 3 * n
      /\ \A i \in 1 .. n : LineAt(h, 3 * (i - 1), <<r.head[i]>>, HeadPart(r, i))
      /\ \A k \in 1 .. 3 * n : h[k].part = "frame" \/ \E i \in 1 .. n : k = 3 * (i - 1) + 1
  <2>1. r \in Responses /\ n \in Nat /\ n = Len(r.head)
    BY <1>1, <1>2
  <2>2. h = HeadLines(r)
    BY <1>1
  <2>3. HeadHolds(r, n, h)
    BY ONLY <2>1, <2>2, HeadIs
  <2> QED BY ONLY <2>3 DEF HeadHolds
<1>4. PICK a : a = Line(StatusLine, "status")
  OBVIOUS
<1>5. StatusLine \in Seq(Byte) /\ Len(StatusLine) = 1 /\ "status" \in PartName
      /\ "frame" \in PartName /\ <<>> \in Seq(Byte) /\ Len(<<>>) = 0
  BY DEF StatusLine, Byte, PartName
<1>6. /\ a \in Seq(Piece) /\ Len(a) = Len(StatusLine) + 2 /\ LineAt(a, 0, StatusLine, "status")
      /\ \A k \in 1 .. Len(a) : k <= Len(StatusLine) \/ a[k].part = "frame"
  <2>1. PICK l, part : l = StatusLine /\ part = "status"
    OBVIOUS
  <2>2. /\ a \in Seq(Piece) /\ Len(a) = Len(l) + 2 /\ LineAt(a, 0, l, part)
        /\ \A k \in 1 .. Len(a) : k <= Len(l) \/ a[k].part = "frame"
    <3>1. l \in Seq(Byte) /\ part \in PartName /\ a = Line(l, part)
      BY ONLY <1>4, <1>5, <2>1
    <3> QED BY ONLY <3>1, LineIs
  <2> QED BY ONLY <2>1, <2>2
<1>7. PICK d : d = Line(<<>>, "frame")
  OBVIOUS
<1>8. /\ d \in Seq(Piece) /\ Len(d) = Len(<<>>) + 2 /\ LineAt(d, 0, <<>>, "frame")
      /\ \A k \in 1 .. Len(d) : k <= Len(<<>>) \/ d[k].part = "frame"
  BY ONLY <1>5, <1>7, LineIs
<1>9. PICK f : f = CASE r.framing = "length" -> Line(<<Length, Digit(Len(r.body))>>, "frame")
                     [] r.framing = "chunked" -> Line(<<Transfer>>, "frame")
                     [] OTHER -> <<>>
  OBVIOUS
<1>10. /\ f \in Seq(Piece) /\ Len(f) = FrameWidth(r)
       /\ r.framing # "close" => LineAt(f, 0, FramingLine(r), "frame")
       /\ \A k \in 1 .. Len(f) : f[k].part = "frame"
  <2>1. CASE r.framing = "close"
    <3>1. f = <<>>
      BY <1>9, <2>1
    <3> QED BY <2>1, <3>1, PlacesAre
  <2>2. CASE r.framing # "close"
    <3>1. PICK l : l = FramingLine(r)
      OBVIOUS
    <3>2. l \in Seq(Byte) /\ FrameWidth(r) = Len(l) + 2
      BY <2>2, <3>1, PlacesAre
    <3>3. f = Line(l, "frame")
      BY <1>9, <2>2, <3>1, ResponseIs DEF Framing, FramingLine
    <3>4. /\ f \in Seq(Piece) /\ Len(f) = Len(l) + 2 /\ LineAt(f, 0, l, "frame")
          /\ \A k \in 1 .. Len(f) : k <= Len(l) \/ f[k].part = "frame"
      BY ONLY <1>5, <3>2, <3>3, LineIs
    <3>5. \A k \in 1 .. Len(l) : f[k].part = "frame"
      <4>1. \A k \in 1 .. Len(l) : 0 + k = k
        BY <3>2
      <4> QED BY ONLY <3>4, <4>1 DEF LineAt
    <3> QED BY ONLY <3>1, <3>2, <3>4, <3>5
  <2> QED BY <2>1, <2>2
<1>11. PICK x, y : x = a \o h /\ y = x \o f /\ m = y \o d
  BY <1>1, <1>4, <1>7, <1>9 DEF Top, HeadPart, HeadLines
<1>12. x \in Seq(Piece) /\ Len(x) = Len(a) + Len(h) /\ Holds(x, 0, a) /\ Holds(x, Len(a), h)
  BY ONLY <1>3, <1>6, <1>11, Joined
<1>13. y \in Seq(Piece) /\ Len(y) = Len(x) + Len(f) /\ Holds(y, 0, x) /\ Holds(y, Len(x), f)
  BY ONLY <1>10, <1>11, <1>12, Joined
<1>14. m \in Seq(Piece) /\ Len(m) = Len(y) + Len(d) /\ Holds(m, 0, y) /\ Holds(m, Len(y), d)
  BY ONLY <1>8, <1>11, <1>13, Joined
<1>15. PICK fw, at, e : fw = FrameWidth(r) /\ at = FramingAt(r) /\ e = BodyStart(r)
  OBVIOUS
<1>16. fw \in Nat /\ at = 3 * (n + 1) /\ at \in Nat /\ e = at + fw + 2
  BY <1>1, <1>2, <1>15, PlacesAre DEF FramingAt
<1>17. Len(a) = 3 /\ Len(d) = 2 /\ Len(x) = at /\ Len(y) = at + fw /\ Len(m) = e /\ Len(f) = fw
       /\ Len(h) = 3 * n
  BY ONLY <1>2, <1>3, <1>5, <1>6, <1>8, <1>10, <1>12, <1>13, <1>14, <1>15, <1>16
<1>18. Holds(m, 0, a) /\ Holds(m, 3, h) /\ Holds(m, at, f) /\ Holds(m, at + fw, d)
  <2>1. Holds(m, 0 + 0, x) /\ Holds(m, 0 + at, f)
    BY ONLY <1>13, <1>14, <1>17, HoldsPart
  <2>2. 0 + 0 = 0 /\ 0 + at = at /\ 0 + 3 = 3
    BY ONLY <1>16
  <2>3. Holds(m, 0, x) /\ Holds(x, 3, h)
    BY ONLY <1>12, <1>17, <2>1, <2>2
  <2>4. Holds(m, 0 + 0, a) /\ Holds(m, 0 + 3, h)
    BY ONLY <1>12, <2>3, HoldsPart
  <2> QED BY ONLY <1>14, <1>17, <2>1, <2>2, <2>4
<1>19. LineAt(m, 0, StatusLine, "status")
  <2>1. LineAt(m, 0 + 0, StatusLine, "status")
    BY ONLY <1>5, <1>6, <1>18, LineOfPart, 0 \in Nat
  <2>2. 0 + 0 = 0
    OBVIOUS
  <2> QED BY ONLY <2>1, <2>2
<1>20. ASSUME NEW i \in 1 .. n
       PROVE  LineAt(m, 3 * i, <<r.head[i]>>, HeadPart(r, i))
  <2>1. PICK l, part, c : l = <<r.head[i]>> /\ part = HeadPart(r, i) /\ c = 3 * (i - 1)
    OBVIOUS
  <2>2. l \in Seq(Byte)
    BY <1>1, <2>1, ResponseIs
  <2>3. c \in Nat /\ 3 + c = 3 * i
    BY ONLY <1>2, <2>1, i \in 1 .. n
  <2>4. LineAt(h, c, l, part)
    BY ONLY <1>3, <2>1, i \in 1 .. n
  <2>5. LineAt(m, 3 + c, l, part)
    BY ONLY <1>18, <2>2, <2>3, <2>4, LineOfPart
  <2> QED BY ONLY <2>1, <2>3, <2>5
<1>21. ASSUME r.framing # "close" PROVE LineAt(m, at, FramingLine(r), "frame")
  <2>1. PICK l : l = FramingLine(r)
    OBVIOUS
  <2>2. l \in Seq(Byte) /\ LineAt(f, 0, l, "frame") /\ 0 \in Nat /\ at + 0 = at
    BY <1>10, <1>16, <1>21, <2>1, PlacesAre
  <2>3. LineAt(m, at + 0, l, "frame")
    BY ONLY <1>18, <2>2, LineOfPart
  <2> QED BY ONLY <2>1, <2>2, <2>3
<1>22. LineAt(m, e - 2, <<>>, "frame")
  <2>1. PICK c : c = at + fw
    OBVIOUS
  <2>2. c \in Nat /\ c + 0 = c /\ 0 \in Nat /\ e - 2 = c
    BY ONLY <1>16, <2>1
  <2>3. LineAt(m, c + 0, <<>>, "frame")
    BY ONLY <1>5, <1>8, <1>18, <2>1, <2>2, LineOfPart
  <2> QED BY ONLY <2>2, <2>3
<1>24. ASSUME NEW k \in 1 .. e
       PROVE  m[k].part = "frame" \/ k = 1 \/ \E i \in 1 .. n : k = 3 * i + 1
  <2>1. CASE k <= 3
    <3>1. k \in 1 .. Len(a) /\ 0 + k = k
      BY ONLY <1>2, <1>16, <1>17, <2>1, k \in 1 .. e
    <3>2. m[k] = a[k]
      BY ONLY <1>18, <3>1 DEF Holds
    <3>3. k = 1 \/ a[k].part = "frame"
      BY ONLY <1>5, <1>6, <3>1
    <3> QED BY ONLY <3>2, <3>3
  <2>2. CASE k > 3 /\ k <= at
    <3>1. PICK j : j = k - 3
      OBVIOUS
    <3>2. j \in 1 .. Len(h) /\ j \in 1 .. 3 * n /\ k = 3 + j
      BY ONLY <1>2, <1>16, <1>17, <2>2, <3>1, k \in 1 .. e
    <3>3. m[k] = h[j]
      BY ONLY <1>18, <3>2 DEF Holds
    <3>4. CASE h[j].part = "frame"
      BY <3>3, <3>4
    <3>5. CASE \E i \in 1 .. n : j = 3 * (i - 1) + 1
      <4>1. PICK i \in 1 .. n : j = 3 * (i - 1) + 1
        BY <3>5
      <4>2. k = 3 * i + 1
        BY ONLY <1>2, <3>2, <4>1
      <4> QED BY <4>2
    <3> QED BY <1>3, <3>2, <3>4, <3>5
  <2>3. CASE k > at /\ k <= at + fw
    <3>1. PICK j : j = k - at
      OBVIOUS
    <3>2. j \in 1 .. Len(f) /\ k = at + j
      <4>1. at \in Nat /\ fw \in Nat /\ e \in Nat /\ Len(f) = fw
        BY ONLY <1>16, <1>17
      <4>2. k \in Nat /\ k > at /\ k <= at + fw
        BY ONLY <2>3, <4>1, k \in 1 .. e
      <4> QED BY ONLY <3>1, <4>1, <4>2
    <3>3. m[k] = f[j]
      BY ONLY <1>18, <3>2 DEF Holds
    <3> QED BY ONLY <1>10, <3>2, <3>3
  <2>4. CASE k > at + fw
    <3>1. PICK j, b : j = k - b /\ b = at + fw
      OBVIOUS
    <3>2. j \in 1 .. Len(d) /\ k = b + j /\ ~ (j <= 0)
      <4>1. b \in Nat /\ e = b + 2 /\ k > b /\ Len(d) = 2
        BY ONLY <1>16, <1>17, <2>4, <3>1
      <4> QED BY ONLY <3>1, <4>1, k \in 1 .. e
    <3>3. m[k] = d[j]
      BY ONLY <1>18, <3>1, <3>2 DEF Holds
    <3> QED BY ONLY <1>5, <1>8, <3>2, <3>3
  <2> QED BY ONLY <1>16, <2>1, <2>2, <2>3, <2>4, k \in 1 .. e
<1>23. TopHolds(r, m)
  BY ONLY <1>1, <1>15, <1>19, <1>20, <1>21, <1>22, <1>24 DEF TopHolds
<1> QED BY ONLY <1>14, <1>15, <1>17, <1>23

\* Where the chunks are.
ChunkPlaces(r, k) ==
  /\ \A i \in 1 .. k + 2 : /\ Before(r, i) \in Nat /\ ChunkAt(r, i) \in Nat /\ Size(r, i) \in Nat
                           /\ Before(r, i) <= Len(r.body)
  /\ \A i \in 1 .. k + 1 : /\ Before(r, i + 1) = Before(r, i) + Size(r, i)
                           /\ ChunkAt(r, i + 1) = ChunkAt(r, i) + Size(r, i) + 5
                           /\ Size(r, i) < Len(Digits) /\ Len(ChunkBody(r, i)) = Size(r, i)
                           /\ ChunkBody(r, i) \in Seq(Byte)
  /\ \A i \in 1 .. k : Size(r, i) = r.sizes[i] /\ Size(r, i) > 0 /\ Before(r, i) = SizesBefore(r)[i]
  /\ Before(r, 1) = 0 /\ ChunkAt(r, 1) = BodyStart(r)
  /\ Before(r, k + 1) = Len(r.body) /\ Before(r, k + 2) = Len(r.body) /\ Size(r, k + 1) = 0

\* The chunks of a response follow one another, and hold its body.
LEMMA ChunksAt ==
  ASSUME NEW r \in Responses, r.framing = "chunked", NEW k \in Nat, k = Len(r.sizes)
  PROVE  ChunkPlaces(r, k)
<1>1. r.sizes \in Seq(Nat \ {0}) /\ r.body \in Seq(Byte) /\ Len(r.body) \in Nat
  BY ResponseIs
<1>2. r.sizes \in Seq(Nat) /\ \A i \in 1 .. k : r.sizes[i] \in Nat /\ r.sizes[i] > 0
  <2>1. \A i \in 1 .. k : r.sizes[i] \in Nat /\ r.sizes[i] > 0
    BY ONLY <1>1, k = Len(r.sizes), k \in Nat
  <2>2. PICK s : s = r.sizes
    OBVIOUS
  <2>3. s \in Seq(Nat \ {0}) /\ Len(s) = k /\ \A i \in 1 .. k : s[i] \in Nat
    BY ONLY <1>1, <2>1, <2>2, k = Len(r.sizes)
  <2>4. s = [i \in 1 .. k |-> s[i]]
    BY ONLY <2>3
  <2>5. s \in Seq(Nat)
    BY ONLY <2>3, <2>4, k \in Nat, IsSequence
  <2> QED BY ONLY <2>1, <2>2, <2>5
<1>3. PICK b : b = SizesBefore(r)
  OBVIOUS
<1>4. /\ b \in [1 .. k + 1 -> Nat] /\ b[1] = 0
      /\ \A i \in 1 .. k : b[i + 1] = b[i] + r.sizes[i]
  BY ONLY <1>2, <1>3, k \in Nat, k = Len(r.sizes), SizesBeforeIs
<1>5. b[k + 1] = Len(r.body)
  BY <1>3, ResponseAssumption
<1>6. /\ \A i \in 1 .. k : Before(r, i) = b[i] /\ Size(r, i) = r.sizes[i]
      /\ Before(r, k + 1) = b[k + 1] /\ Before(r, k + 2) = b[k + 1] /\ Size(r, k + 1) = 0 /\ Size(r, k + 2) = 0
  BY ONLY <1>3, k \in Nat, k = Len(r.sizes) DEF Before, Size
<1>7. \A i \in 1 .. k + 1 : i \in 1 .. k \/ i = k + 1
  OBVIOUS
<1>8. ASSUME NEW i \in 1 .. k + 2 PROVE Before(r, i) \in Nat /\ Size(r, i) \in Nat
  <2>1. i \in 1 .. k \/ i = k + 1 \/ i = k + 2
    OBVIOUS
  <2>2. k + 1 \in 1 .. k + 1 /\ \A j \in 1 .. k : j \in 1 .. k + 1
    OBVIOUS
  <2>3. b[k + 1] \in Nat /\ 0 \in Nat /\ \A j \in 1 .. k : b[j] \in Nat /\ r.sizes[j] \in Nat
    BY ONLY <1>2, <1>4, <2>2
  <2> QED BY ONLY <1>6, <2>1, <2>3
<1>9. ASSUME NEW i \in 1 .. k + 1
      PROVE  Before(r, i + 1) = Before(r, i) + Size(r, i) /\ Size(r, i) < Len(Digits)
  <2>1. CASE i \in 1 .. k
    <3>1. Before(r, i + 1) = b[i + 1]
      <4>1. i + 1 \in 1 .. k \/ i + 1 = k + 1
        BY <2>1
      <4> QED BY ONLY <1>6, <4>1
    <3>2. Size(r, i) < Len(Digits)
      <4>1. \A j \in 1 .. Len(r.sizes) : r.sizes[j] < Len(Digits)
        BY ResponseIs
      <4> QED BY ONLY <1>6, <2>1, <4>1, k = Len(r.sizes)
    <3> QED BY ONLY <1>4, <1>6, <2>1, <3>1, <3>2
  <2>2. CASE i = k + 1
    <3>1. i + 1 = k + 2 /\ b[k + 1] + 0 = b[k + 1]
      BY <1>1, <1>5, <2>2
    <3>2. 0 < Len(Digits)
      BY DigitIs
    <3> QED BY ONLY <1>6, <2>2, <3>1, <3>2
  <2> QED BY <1>7, <2>1, <2>2
<1>10. \A i \in 1 .. k + 2 : Before(r, i) <= Len(r.body)
  <2> DEFINE P == {x \in Nat : x <= k => Before(r, (k + 1) - x) <= Len(r.body)}
  <2>1. 0 \in P
    <3>1. (k + 1) - 0 = k + 1
      OBVIOUS
    <3> QED BY <1>1, <1>5, <1>6, <3>1
  <2>2. ASSUME NEW x \in Nat, x \in P PROVE x + 1 \in P
    <3> SUFFICES ASSUME x + 1 <= k PROVE Before(r, (k + 1) - (x + 1)) <= Len(r.body)
      OBVIOUS
    <3>1. PICK i : i = (k + 1) - (x + 1)
      OBVIOUS
    <3>2. i \in 1 .. k + 1 /\ i + 1 = (k + 1) - x /\ x <= k /\ i \in 1 .. k + 2 /\ i + 1 \in 1 .. k + 2
      BY <3>1
    <3>3. Before(r, i + 1) <= Len(r.body)
      BY <2>2, <3>2
    <3>4. Before(r, i) \in Nat /\ Size(r, i) \in Nat /\ Before(r, i + 1) = Before(r, i) + Size(r, i)
      BY ONLY <1>8, <1>9, <3>2
    <3> QED BY ONLY <1>1, <3>1, <3>3, <3>4
  <2> HIDE DEF P
  <2>3. Nat \subseteq P
    BY <2>1, <2>2, InductionOverNat
  <2>4. ASSUME NEW i \in 1 .. k + 1 PROVE Before(r, i) <= Len(r.body)
    <3>1. PICK x : x = (k + 1) - i
      OBVIOUS
    <3>2. x \in Nat /\ x <= k /\ (k + 1) - x = i
      BY <3>1
    <3>3. x \in P
      BY <2>3, <3>2
    <3> QED BY <3>2, <3>3 DEF P
  <2>5. \A i \in 1 .. k + 2 : i \in 1 .. k + 1 \/ i = k + 2
    OBVIOUS
  <2>6. Before(r, k + 2) <= Len(r.body)
    BY ONLY <1>1, <1>5, <1>6
  <2> QED BY ONLY <2>4, <2>5, <2>6
<1>11. PICK t : t = BodyStart(r)
  OBVIOUS
<1>12. t \in Nat /\ \A i : ChunkAt(r, i) = t + Before(r, i) + 5 * (i - 1)
  BY <1>11, PlacesAre DEF ChunkAt
<1>13. \A i \in 1 .. k + 2 : ChunkAt(r, i) \in Nat
  BY ONLY <1>8, <1>12, k \in Nat
<1>14. ASSUME NEW i \in 1 .. k + 1 PROVE ChunkAt(r, i + 1) = ChunkAt(r, i) + Size(r, i) + 5
  <2>1. i \in 1 .. k + 2 /\ i + 1 \in 1 .. k + 2
    OBVIOUS
  <2>2. PICK x, y, s : x = Before(r, i) /\ y = Before(r, i + 1) /\ s = Size(r, i)
    OBVIOUS
  <2>3. x \in Nat /\ s \in Nat /\ y = x + s
    BY ONLY <1>8, <1>9, <2>1, <2>2, i \in 1 .. k + 1
  <2>4. ChunkAt(r, i) = t + x + 5 * (i - 1) /\ ChunkAt(r, i + 1) = t + y + 5 * ((i + 1) - 1)
    BY ONLY <1>12, <2>2
  <2> QED BY ONLY <1>12, <2>2, <2>3, <2>4, i \in 1 .. k + 1, k \in Nat
<1>15. ASSUME NEW i \in 1 .. k + 1 PROVE Len(ChunkBody(r, i)) = Size(r, i) /\ ChunkBody(r, i) \in Seq(Byte)
  <2>1. i \in 1 .. k + 2 /\ i + 1 \in 1 .. k + 2
    OBVIOUS
  <2>2. PICK x, y, s, u : x = Before(r, i) /\ y = Before(r, i) + Size(r, i) /\ s = Size(r, i) /\ u = ChunkBody(r, i)
    OBVIOUS
  <2>3. x \in Nat /\ y \in Nat /\ s \in Nat /\ y = x + s /\ y <= Len(r.body)
    <3>1. Before(r, i) \in Nat /\ Size(r, i) \in Nat /\ Before(r, i + 1) = Before(r, i) + Size(r, i)
          /\ Before(r, i + 1) <= Len(r.body)
      BY ONLY <1>8, <1>9, <1>10, <2>1, i \in 1 .. k + 1
    <3> QED BY ONLY <2>2, <3>1
  <2>4. u = SubSeq(r.body, x + 1, y) /\ x <= y
    BY <2>2, <2>3 DEF ChunkBody
  <2>5. u \in Seq(Byte) /\ Len(u) = y - x
    BY ONLY <1>1, <2>3, <2>4, Between
  <2> QED BY ONLY <2>2, <2>3, <2>5
<1>16. ChunkAt(r, 1) = BodyStart(r) /\ Before(r, 1) = 0
  <2>1. Before(r, 1) = 0
    <3>1. 1 \in 1 .. k \/ k = 0
      OBVIOUS
    <3> QED BY ONLY <1>4, <1>6, <3>1
  <2>2. ChunkAt(r, 1) = t + 0 + 5 * (1 - 1)
    BY ONLY <1>12, <2>1
  <2> QED BY ONLY <1>11, <1>12, <2>1, <2>2
<1> QED BY ONLY <1>2, <1>3, <1>5, <1>6, <1>8, <1>9, <1>10, <1>13, <1>14, <1>15, <1>16 DEF ChunkPlaces

\* What a chunk is made of.
ChunkHolds(r, i, u) ==
  /\ u \in Seq(Piece) /\ Len(u) = Size(r, i) + 5
  /\ LineAt(u, 0, <<Digit(Size(r, i))>>, "frame")
  /\ BodyIn(u, 3, ChunkBody(r, i), Before(r, i))
  /\ LineAt(u, 3 + Size(r, i), <<>>, "frame")
  /\ \A x \in 1 .. Len(u) : u[x].part = "frame" \/ \E j \in 1 .. Size(r, i) : x = 3 + j

\* Chunk i of the response, or the one of size 0 that ends it.
LEMMA ChunkIs ==
  ASSUME NEW r \in Responses, r.framing = "chunked", NEW k \in Nat, k = Len(r.sizes),
         NEW i \in 1 .. k + 1, NEW u,
         u = Line(<<Digit(Size(r, i))>>, "frame")
               \o Part(ChunkBody(r, i), "body", Before(r, i)) \o Line(<<>>, "frame")
  PROVE  ChunkHolds(r, i, u)
<1>1. PICK l, z, b, n, w : /\ l = <<Digit(Size(r, i))>> /\ z = Size(r, i) /\ b = ChunkBody(r, i)
                           /\ n = Before(r, i) /\ w = <<>>
  OBVIOUS
<1>2. i \in 1 .. k + 2
  OBVIOUS
<1>3. z \in Nat /\ z < Len(Digits) /\ n \in Nat /\ b \in Seq(Byte) /\ Len(b) = z
  BY <1>1, <1>2, ChunksAt DEF ChunkPlaces
<1>4. l \in Seq(Byte) /\ Len(l) = 1 /\ w \in Seq(Byte) /\ Len(w) = 0
  <2>1. z \in 0 .. Len(Digits) - 1
    BY <1>3, DigitIs
  <2>2. Digit(z) \in Byte
    BY <2>1, DigitIs
  <2> QED BY ONLY <1>1, <2>2
<1>5. PICK a, p, d, e : /\ a = Line(l, "frame") /\ p = Part(b, "body", n) /\ d = Line(w, "frame")
                        /\ e = a \o p /\ u = e \o d
  BY <1>1
<1>6. "frame" \in PartName /\ "body" \in PartName
  BY DEF PartName
<1>7. /\ a \in Seq(Piece) /\ Len(a) = Len(l) + 2 /\ LineAt(a, 0, l, "frame")
      /\ \A x \in 1 .. Len(a) : x <= Len(l) \/ a[x].part = "frame"
  BY ONLY <1>4, <1>5, <1>6, LineIs
<1>8. /\ d \in Seq(Piece) /\ Len(d) = Len(w) + 2 /\ LineAt(d, 0, w, "frame")
      /\ \A x \in 1 .. Len(d) : x <= Len(w) \/ d[x].part = "frame"
  BY ONLY <1>4, <1>5, <1>6, LineIs
<1>9. /\ p \in Seq(Piece) /\ Len(p) = Len(b)
      /\ \A x \in 1 .. Len(b) : p[x].byte = b[x] /\ p[x].part = "body" /\ p[x].nth = n + x
  BY ONLY <1>3, <1>5, <1>6, PartIs
<1>10. e \in Seq(Piece) /\ Len(e) = Len(a) + Len(p) /\ Holds(e, 0, a) /\ Holds(e, Len(a), p)
  <2>1. a \in Seq(Piece) /\ p \in Seq(Piece) /\ e = a \o p
    BY ONLY <1>5, <1>7, <1>9
  <2> QED BY ONLY <2>1, Joined
<1>11. u \in Seq(Piece) /\ Len(u) = Len(e) + Len(d) /\ Holds(u, 0, e) /\ Holds(u, Len(e), d)
  <2>1. e \in Seq(Piece) /\ d \in Seq(Piece) /\ u = e \o d
    BY ONLY <1>5, <1>8, <1>10
  <2> QED BY ONLY <2>1, Joined
<1>12. Len(a) = 3 /\ Len(p) = z /\ Len(d) = 2 /\ Len(e) = 3 + z /\ Len(u) = z + 5
  BY ONLY <1>3, <1>4, <1>7, <1>8, <1>9, <1>10, <1>11
<1>13. Holds(u, 0, a) /\ Holds(u, 3, p) /\ Holds(u, 3 + z, d)
  <2>1. Holds(e, 3, p)
    BY ONLY <1>10, <1>12
  <2>2. Holds(u, 0 + 0, a) /\ Holds(u, 0 + 3, p)
    BY ONLY <1>10, <1>11, <2>1, HoldsPart
  <2>3. 0 + 0 = 0 /\ 0 + 3 = 3
    OBVIOUS
  <2> QED BY ONLY <1>11, <1>12, <2>2, <2>3
<1>14. LineAt(u, 0, l, "frame")
  <2>1. LineAt(u, 0 + 0, l, "frame")
    BY ONLY <1>4, <1>7, <1>13, LineOfPart, 0 \in Nat
  <2>2. 0 + 0 = 0
    OBVIOUS
  <2> QED BY ONLY <2>1, <2>2
<1>15. BodyIn(u, 3, b, n)
  <2>1. BodyIn(p, 0, b, n)
    <3>1. \A x \in 1 .. Len(b) : 0 + x = x
      BY <1>3
    <3> QED BY ONLY <1>3, <1>9, <1>12, <3>1 DEF BodyIn
  <2>2. BodyIn(u, 3 + 0, b, n)
    BY ONLY <1>3, <1>13, <2>1, BodyOfPart, 0 \in Nat
  <2>3. 3 + 0 = 3
    OBVIOUS
  <2> QED BY ONLY <2>2, <2>3
<1>16. LineAt(u, 3 + z, w, "frame")
  <2>1. PICK c : c = 3 + z
    OBVIOUS
  <2>2. Holds(u, c, d) /\ c + 0 = c
    BY ONLY <1>3, <1>13, <2>1
  <2>3. LineAt(u, c + 0, w, "frame")
    BY ONLY <1>4, <1>8, <2>2, LineOfPart, 0 \in Nat
  <2> QED BY ONLY <2>1, <2>2, <2>3
<1>17. ASSUME NEW x \in 1 .. Len(u) PROVE u[x].part = "frame" \/ \E j \in 1 .. z : x = 3 + j
  <2>1. CASE x <= 3
    <3>1. LineAt(u, 0, l, "frame") /\ (x = 1 \/ x = 2 \/ x = 3)
      BY ONLY <1>3, <1>12, <1>14, <2>1, x \in 1 .. Len(u)
    <3>2. 1 \in 1 .. Len(l) /\ 0 + 1 = 1 /\ 0 + Len(l) + 1 = 2 /\ 0 + Len(l) + 2 = 3
      BY ONLY <1>4
    <3> QED BY ONLY <3>1, <3>2 DEF LineAt
  <2>2. CASE x > 3 /\ x <= 3 + z
    <3>1. x - 3 \in 1 .. z /\ x = 3 + (x - 3)
      BY ONLY <1>3, <1>12, <2>2, x \in 1 .. Len(u)
    <3> QED BY ONLY <3>1
  <2>3. CASE x > 3 + z
    <3>1. PICK c : c = 3 + z
      OBVIOUS
    <3>2. c \in Nat /\ (x = c + 1 \/ x = c + 2) /\ c + Len(w) + 1 = c + 1 /\ c + Len(w) + 2 = c + 2
      BY ONLY <1>3, <1>4, <1>12, <2>3, <3>1, x \in 1 .. Len(u)
    <3> QED BY ONLY <1>16, <3>1, <3>2 DEF LineAt
  <2> QED BY ONLY <1>3, <1>12, <2>1, <2>2, <2>3, x \in 1 .. Len(u)
<1> QED BY ONLY <1>1, <1>11, <1>12, <1>14, <1>15, <1>16, <1>17 DEF ChunkHolds

\* Concatenation is associative, and the empty sequence is neutral.
LEMMA JoinedTwice ==
  ASSUME NEW X, NEW s \in Seq(X), NEW t \in Seq(X), NEW u \in Seq(X)
  PROVE  (s \o t) \o u = s \o (t \o u) /\ s \o <<>> = s
<1>1. PICK a, b, c, d : a = s \o t /\ b = t \o u /\ c = a \o u /\ d = s \o b
  OBVIOUS
<1>2. /\ a \in Seq(X) /\ Len(a) = Len(s) + Len(t) /\ Len(s) \in Nat /\ Len(t) \in Nat
      /\ \A k \in 1 .. Len(s) : a[k] = s[k]
      /\ \A k \in 1 .. Len(t) : a[Len(s) + k] = t[k]
  BY ONLY <1>1, Concatenation, s \in Seq(X), t \in Seq(X)
<1>3. /\ b \in Seq(X) /\ Len(b) = Len(t) + Len(u) /\ Len(u) \in Nat
      /\ \A k \in 1 .. Len(t) : b[k] = t[k]
      /\ \A k \in 1 .. Len(u) : b[Len(t) + k] = u[k]
  BY ONLY <1>1, Concatenation, t \in Seq(X), u \in Seq(X)
<1>4. /\ c \in Seq(X) /\ Len(c) = Len(a) + Len(u)
      /\ \A k \in 1 .. Len(a) : c[k] = a[k]
      /\ \A k \in 1 .. Len(u) : c[Len(a) + k] = u[k]
  BY ONLY <1>1, <1>2, Concatenation, u \in Seq(X)
<1>5. /\ d \in Seq(X) /\ Len(d) = Len(s) + Len(b)
      /\ \A k \in 1 .. Len(s) : d[k] = s[k]
      /\ \A k \in 1 .. Len(b) : d[Len(s) + k] = b[k]
  BY ONLY <1>1, <1>3, Concatenation, s \in Seq(X)
<1>6. PICK x, y, z : x = Len(s) /\ y = Len(t) /\ z = Len(u)
  OBVIOUS
<1>7. x \in Nat /\ y \in Nat /\ z \in Nat /\ Len(a) = x + y /\ Len(b) = y + z /\ Len(c) = x + y + z /\ Len(d) = x + y + z
  BY ONLY <1>2, <1>3, <1>4, <1>5, <1>6
<1>8. ASSUME NEW k \in 1 .. Len(c) PROVE c[k] = d[k]
  <2>1. CASE k <= x
    <3>1. k \in 1 .. Len(s) /\ k \in 1 .. Len(a)
      BY ONLY <1>6, <1>7, <2>1, k \in 1 .. Len(c)
    <3> QED BY ONLY <1>2, <1>4, <1>5, <3>1
  <2>2. CASE k > x /\ k <= x + y
    <3>1. PICK j : j = k - x
      OBVIOUS
    <3>2. j \in 1 .. Len(t) /\ j \in 1 .. Len(b) /\ k = Len(s) + j /\ k \in 1 .. Len(a)
      BY ONLY <1>6, <1>7, <2>2, <3>1, k \in 1 .. Len(c)
    <3>3. c[k] = t[j]
      BY ONLY <1>2, <1>4, <3>2
    <3>4. d[k] = t[j]
      BY ONLY <1>3, <1>5, <3>2
    <3> QED BY ONLY <3>3, <3>4
  <2>3. CASE k > x + y
    <3>1. PICK j, i : j = k - (x + y) /\ i = y + j
      OBVIOUS
    <3>2. j \in 1 .. Len(u) /\ k = Len(a) + j /\ k = Len(s) + i /\ i \in 1 .. Len(b) /\ i = Len(t) + j
      BY ONLY <1>6, <1>7, <2>3, <3>1, k \in 1 .. Len(c)
    <3>3. c[k] = u[j]
      BY ONLY <1>4, <3>2
    <3>4. d[k] = u[j]
      BY ONLY <1>3, <1>5, <3>2
    <3> QED BY ONLY <3>3, <3>4
  <2> QED BY ONLY <1>7, <2>1, <2>2, <2>3, k \in 1 .. Len(c)
<1>9. c = d
  BY ONLY <1>4, <1>5, <1>7, <1>8, SameElements
<1>10. s \o <<>> = s
  OBVIOUS
<1> QED BY ONLY <1>1, <1>9, <1>10

\* The lines before the body of a message that starts with them.
LEMMA TopOfPart ==
  ASSUME NEW r \in Responses, NEW m, NEW u, Holds(m, 0, u), TopHolds(r, u), Len(u) = BodyStart(r)
  PROVE  TopHolds(r, m)
<1>1. PICK e, at, n, fl : e = BodyStart(r) /\ at = FramingAt(r) /\ n = Len(r.head) /\ fl = FramingLine(r)
  OBVIOUS
<1>2. /\ e \in Nat /\ at \in Nat /\ n \in Nat /\ e >= 2
      /\ r.framing # "close" => fl \in Seq(Byte)
  BY <1>1, PlacesAre, ResponseIs
<1>3. ASSUME NEW c \in Nat, NEW s \in Seq(Byte), NEW part, LineAt(u, c, s, part)
      PROVE  LineAt(m, c, s, part)
  <2>1. LineAt(m, 0 + c, s, part)
    BY ONLY <1>3, LineOfPart, Holds(m, 0, u), c \in Nat, s \in Seq(Byte)
  <2>2. 0 + c = c
    OBVIOUS
  <2> QED BY ONLY <2>1, <2>2
<1>4. LineAt(m, 0, StatusLine, "status")
  <2>1. LineAt(u, 0, StatusLine, "status")
    BY DEF TopHolds
  <2>2. StatusLine \in Seq(Byte)
    BY DEF StatusLine, Byte
  <2> QED BY <1>3, <2>1, <2>2
<1>5. ASSUME NEW i \in 1 .. n PROVE LineAt(m, 3 * i, <<r.head[i]>>, HeadPart(r, i))
  <2>1. PICK l, c, part : l = <<r.head[i]>> /\ c = 3 * i /\ part = HeadPart(r, i)
    OBVIOUS
  <2>2. l \in Seq(Byte) /\ c \in Nat
    BY <1>1, <1>2, <2>1, ResponseIs
  <2>3. LineAt(u, c, l, part)
    BY <1>1, <2>1 DEF TopHolds
  <2> QED BY ONLY <1>3, <2>1, <2>2, <2>3
<1>6. r.framing # "close" => LineAt(m, at, fl, "frame")
  BY <1>1, <1>2, <1>3 DEF TopHolds
<1>7. LineAt(m, e - 2, <<>>, "frame")
  <2>1. PICK c, w : c = e - 2 /\ w = <<>>
    OBVIOUS
  <2>2. c \in Nat /\ w \in Seq(Byte)
    BY <1>2, <2>1
  <2>3. LineAt(u, c, w, "frame")
    BY <1>1, <2>1 DEF TopHolds
  <2> QED BY ONLY <1>3, <2>1, <2>2, <2>3
<1>8. ASSUME NEW k \in 1 .. e
      PROVE  m[k].part = "frame" \/ k = 1 \/ \E i \in 1 .. n : k = 3 * i + 1
  <2>1. m[0 + k] = u[k] /\ 0 + k = k
    BY <1>1, <1>2 DEF Holds
  <2>2. u[k].part = "frame" \/ k = 1 \/ \E i \in 1 .. n : k = 3 * i + 1
    BY <1>1 DEF TopHolds
  <2> QED BY ONLY <2>1, <2>2
<1> QED BY ONLY <1>1, <1>4, <1>5, <1>6, <1>7, <1>8 DEF TopHolds

\* Chunk i is where it should be.
ChunkInAt(r, m, i) ==
  /\ LineAt(m, ChunkAt(r, i), <<Digit(Size(r, i))>>, "frame")
  /\ BodyIn(m, ChunkAt(r, i) + 3, ChunkBody(r, i), Before(r, i))
  /\ LineAt(m, ChunkAt(r, i) + (3 + Size(r, i)), <<>>, "frame")
  /\ \A x \in 1 .. Size(r, i) + 5 :
       m[ChunkAt(r, i) + x].part = "frame" \/ \E j \in 1 .. Size(r, i) : x = 3 + j

\* The bytes of a response, which is a plain stream.
MessageHolds(r, m) ==
  /\ m \in Seq(Piece) /\ TopHolds(r, m) /\ hasPlainStream(r)
  /\ r.framing = "chunked" =>
       /\ Len(m) = ChunkAt(r, Len(r.sizes) + 2)
       /\ \A i \in 1 .. Len(r.sizes) + 1 : ChunkInAt(r, m, i)
  /\ r.framing # "chunked" =>
       Len(m) = BodyStart(r) + Len(r.body) /\ BodyIn(m, BodyStart(r), r.body, 0)

\* A chunk in a part that the message holds is in the message.
LEMMA ChunkPlaced ==
  ASSUME NEW r \in Responses, r.framing = "chunked", NEW k \in Nat, k = Len(r.sizes),
         NEW i \in 1 .. k + 1, NEW m, NEW u, Holds(m, ChunkAt(r, i), u), ChunkHolds(r, i, u)
  PROVE  ChunkInAt(r, m, i)
<1>1. PICK l, z, b, n, w, c : /\ l = <<Digit(Size(r, i))>> /\ z = Size(r, i) /\ b = ChunkBody(r, i)
                              /\ n = Before(r, i) /\ w = <<>> /\ c = ChunkAt(r, i)
  OBVIOUS
<1>2. i \in 1 .. k + 2
  OBVIOUS
<1>3. z \in Nat /\ z < Len(Digits) /\ n \in Nat /\ b \in Seq(Byte) /\ c \in Nat
  BY <1>1, <1>2, ChunksAt DEF ChunkPlaces
<1>4. l \in Seq(Byte) /\ w \in Seq(Byte)
  <2>1. z \in 0 .. Len(Digits) - 1
    BY <1>3, DigitIs
  <2>2. Digit(z) \in Byte
    BY <2>1, DigitIs
  <2> QED BY ONLY <1>1, <2>2
<1>5. Holds(m, c, u)
  BY <1>1
<1>6. /\ Len(u) = z + 5 /\ LineAt(u, 0, l, "frame") /\ BodyIn(u, 3, b, n)
      /\ LineAt(u, 3 + z, w, "frame")
      /\ \A x \in 1 .. Len(u) : u[x].part = "frame" \/ \E j \in 1 .. z : x = 3 + j
  BY <1>1 DEF ChunkHolds
<1>7. LineAt(m, c, l, "frame")
  <2>1. LineAt(m, c + 0, l, "frame")
    BY ONLY <1>4, <1>5, <1>6, LineOfPart, 0 \in Nat
  <2>2. c + 0 = c
    BY <1>3
  <2> QED BY ONLY <2>1, <2>2
<1>8. BodyIn(m, c + 3, b, n)
  BY ONLY <1>3, <1>5, <1>6, BodyOfPart, 3 \in Nat
<1>9. LineAt(m, c + (3 + z), w, "frame")
  <2>1. PICK d : d = 3 + z
    OBVIOUS
  <2>2. LineAt(u, d, w, "frame") /\ d \in Nat
    BY ONLY <1>3, <1>6, <2>1
  <2>3. LineAt(m, c + d, w, "frame")
    BY ONLY <1>4, <1>5, <2>2, LineOfPart
  <2> QED BY ONLY <2>1, <2>3
<1>10. ASSUME NEW x \in 1 .. z + 5 PROVE m[c + x].part = "frame" \/ \E j \in 1 .. z : x = 3 + j
  <2>1. m[c + x] = u[x]
    BY ONLY <1>5, <1>6, x \in 1 .. z + 5 DEF Holds
  <2> QED BY ONLY <1>6, <2>1, x \in 1 .. z + 5
<1> QED BY ONLY <1>1, <1>7, <1>8, <1>9, <1>10 DEF ChunkInAt

\* A chunked message is its top, its chunks and the last empty one.
LEMMA ChunkedMessageIs ==
  ASSUME NEW r \in Responses, r.framing = "chunked", NEW m, m = Message(r)
  PROVE  MessageHolds(r, m)
<1>1. PICK k, t, T : k = Len(r.sizes) /\ t = BodyStart(r) /\ T = Top(r)
  OBVIOUS
<1>2. k \in Nat /\ t \in Nat
  BY <1>1, ResponseIs, PlacesAre
<1>3. T \in Seq(Piece) /\ Len(T) = t /\ TopHolds(r, T)
  BY <1>1, TopIs
<1> DEFINE seqs == [i \in 1 .. k |-> ChunkOf(r, i)]
<1>4. ASSUME NEW i \in 1 .. k PROVE seqs[i] = ChunkOf(r, i) /\ ChunkHolds(r, i, ChunkOf(r, i))
  <2>1. i \in 1 .. k + 1
    BY <1>2
  <2>2. Size(r, i) = r.sizes[i] /\ Before(r, i) = SizesBefore(r)[i]
    BY <1>1, <1>2, ChunksAt DEF ChunkPlaces
  <2>3. ChunkOf(r, i) = Line(<<Digit(Size(r, i))>>, "frame")
               \o Part(ChunkBody(r, i), "body", Before(r, i)) \o Line(<<>>, "frame")
    BY <2>2 DEF ChunkOf, ChunkBody
  <2>4. PICK u : u = ChunkOf(r, i)
    OBVIOUS
  <2>5. ChunkHolds(r, i, u)
    BY <1>1, <1>2, <2>1, <2>3, <2>4, ChunkIs
  <2> QED BY <2>4, <2>5
<1>5. seqs = [i \in 1 .. k |-> seqs[i]]
  OBVIOUS
<1>6. FlattenSeq([i \in 1 .. Len(r.sizes) |-> ChunkOf(r, i)]) = FlattenSeq(seqs)
  BY <1>1
<1> HIDE DEF seqs
<1>7. seqs \in Seq(Seq(Piece)) /\ Len(seqs) = k
  <2>1. \A i \in 1 .. k : seqs[i] \in Seq(Piece)
    BY <1>4 DEF ChunkHolds
  <2> QED BY ONLY <1>2, <1>5, <2>1, IsSequence
<1> DEFINE off == [i \in 1 .. k + 1 |-> ChunkAt(r, i) - t]
<1>8. /\ \A i \in 1 .. k + 1 : ChunkAt(r, i) \in Nat
      /\ \A i \in 1 .. k + 1 : ChunkAt(r, i + 1) = ChunkAt(r, i) + Size(r, i) + 5
      /\ \A i \in 1 .. k + 1 : Size(r, i) \in Nat
      /\ ChunkAt(r, 1) = t
  <2>1. ChunkPlaces(r, k)
    BY ONLY <1>1, <1>2, ChunksAt, r \in Responses, r.framing = "chunked"
  <2>2. \A i \in 1 .. k + 1 : i \in 1 .. k + 2
    BY ONLY <1>2
  <2>3. \A i \in 1 .. k + 1 : ChunkAt(r, i) \in Nat /\ Size(r, i) \in Nat
    BY ONLY <2>1, <2>2 DEF ChunkPlaces
  <2>4. \A i \in 1 .. k + 1 : ChunkAt(r, i + 1) = ChunkAt(r, i) + Size(r, i) + 5
    BY ONLY <2>1 DEF ChunkPlaces
  <2>5. ChunkAt(r, 1) = t
    BY ONLY <1>1, <2>1 DEF ChunkPlaces
  <2> QED BY ONLY <2>3, <2>4, <2>5
<1>9. \A i \in 1 .. k + 1 : ChunkAt(r, i) >= t
  <2> DEFINE P == {x \in Nat : x <= k => ChunkAt(r, x + 1) >= t}
  <2>1. 0 \in P
    BY <1>2, <1>8
  <2>2. ASSUME NEW x \in Nat, x \in P PROVE x + 1 \in P
    <3> SUFFICES ASSUME x + 1 <= k PROVE ChunkAt(r, (x + 1) + 1) >= t
      OBVIOUS
    <3>1. PICK y : y = x + 1
      OBVIOUS
    <3>2. y \in 1 .. k + 1 /\ y + 1 \in 1 .. k + 1
      BY <1>2, <3>1
    <3>3. ChunkAt(r, y) >= t
      BY <1>2, <2>2, <3>1
    <3>4. ChunkAt(r, y + 1) = ChunkAt(r, y) + Size(r, y) + 5 /\ ChunkAt(r, y) \in Nat /\ Size(r, y) \in Nat
      BY ONLY <1>8, <3>2
    <3> QED BY ONLY <1>2, <3>1, <3>3, <3>4
  <2> HIDE DEF P
  <2>3. Nat \subseteq P
    BY <2>1, <2>2, InductionOverNat
  <2>4. ASSUME NEW i \in 1 .. k + 1 PROVE ChunkAt(r, i) >= t
    <3>1. i - 1 \in Nat /\ i - 1 <= k /\ (i - 1) + 1 = i
      BY <1>2
    <3>2. i - 1 \in P
      BY <2>3, <3>1
    <3> QED BY <3>1, <3>2 DEF P
  <2> QED BY <2>4
<1>10. \A i \in 1 .. k + 1 : off[i] = ChunkAt(r, i) - t
  OBVIOUS
<1>11. off \in [1 .. k + 1 -> Nat]
  BY <1>2, <1>8, <1>9
<1> HIDE DEF off
<1>12. Offsets(off, seqs, k)
  <2>1. off[1] = 0
    BY <1>2, <1>8, <1>10
  <2>2. ASSUME NEW i \in 1 .. k PROVE off[i + 1] = off[i] + Len(seqs[i])
    <3>1. i \in 1 .. k + 1 /\ i + 1 \in 1 .. k + 1
      BY <1>2
    <3>2. Len(seqs[i]) = Size(r, i) + 5
      BY <1>4 DEF ChunkHolds
    <3>3. off[i] = ChunkAt(r, i) - t /\ off[i + 1] = ChunkAt(r, i + 1) - t
      BY ONLY <1>10, <3>1
    <3>4. ChunkAt(r, i + 1) = ChunkAt(r, i) + Size(r, i) + 5 /\ ChunkAt(r, i) \in Nat /\ Size(r, i) \in Nat
      BY ONLY <1>8, <3>1
    <3> QED BY ONLY <1>2, <3>2, <3>3, <3>4
  <2> QED BY ONLY <1>7, <1>11, <2>1, <2>2 DEF Offsets
<1>13. PICK F : F = FlattenSeq(seqs)
  OBVIOUS
<1>14. F \in Seq(Piece) /\ Placed(F, off, seqs, k)
  BY ONLY <1>2, <1>7, <1>12, <1>13, FlattenedAt
<1>15. Len(F) = ChunkAt(r, k + 1) - t
  <2>1. k + 1 \in 1 .. k + 1
    BY <1>2
  <2> QED BY ONLY <1>10, <1>14, <2>1 DEF Placed
<1>16. PICK L0, Lb, P0, v : /\ L0 = Line(<<Digit(0)>>, "frame") /\ Lb = Line(<<>>, "frame")
                            /\ P0 = Part(ChunkBody(r, k + 1), "body", Before(r, k + 1))
                            /\ v = (L0 \o P0) \o Lb
  OBVIOUS
<1>17. ChunkHolds(r, k + 1, v)
  <2>1. PICK i : i = k + 1
    OBVIOUS
  <2>2. i \in 1 .. k + 1 /\ Size(r, i) = 0
    <3>1. ChunkPlaces(r, k)
      BY ONLY <1>1, <1>2, ChunksAt, r \in Responses, r.framing = "chunked"
    <3>2. Size(r, k + 1) = 0
      BY ONLY <3>1 DEF ChunkPlaces
    <3> QED BY ONLY <1>2, <2>1, <3>2
  <2>3. v = Line(<<Digit(Size(r, i))>>, "frame")
               \o Part(ChunkBody(r, i), "body", Before(r, i)) \o Line(<<>>, "frame")
    BY <1>16, <2>1, <2>2
  <2>4. ChunkHolds(r, i, v)
    BY ONLY <1>1, <1>2, <2>2, <2>3, ChunkIs, r \in Responses, r.framing = "chunked"
  <2> QED BY <2>1, <2>4
<1>18. L0 \in Seq(Piece) /\ Lb \in Seq(Piece) /\ P0 = <<>>
  <2>1. PICK l, w, fr : l = <<Digit(0)>> /\ w = <<>> /\ fr = "frame"
    OBVIOUS
  <2>2. l \in Seq(Byte) /\ w \in Seq(Byte) /\ fr \in PartName
    <3>1. 0 \in 0 .. Len(Digits) - 1
      BY DigitIs
    <3>2. Digit(0) \in Byte
      BY <3>1, DigitIs
    <3> QED BY <2>1, <3>2 DEF PartName
  <2>3. L0 \in Seq(Piece)
    <3>1. L0 = Line(l, fr)
      BY <1>16, <2>1
    <3> QED BY ONLY <2>2, <3>1, LineIs
  <2>4. Lb \in Seq(Piece)
    <3>1. Lb = Line(w, fr)
      BY <1>16, <2>1
    <3> QED BY ONLY <2>2, <3>1, LineIs
  <2>5. PICK b : b = ChunkBody(r, k + 1)
    OBVIOUS
  <2>6. b \in Seq(Byte) /\ Len(b) = 0
    <3>1. k + 1 \in 1 .. k + 1
      BY <1>2
    <3>2. Len(ChunkBody(r, k + 1)) = Size(r, k + 1) /\ Size(r, k + 1) = 0 /\ ChunkBody(r, k + 1) \in Seq(Byte)
      BY <1>1, <1>2, <3>1, ChunksAt DEF ChunkPlaces
    <3> QED BY <2>5, <3>2
  <2>7. P0 = <<>>
    BY <1>16, <2>5, <2>6 DEF Part
  <2> QED BY <2>3, <2>4, <2>7
<1>19. PICK g : g = F \o v
  OBVIOUS
<1>20. m = T \o g
  <2>1. m = T \o ((F \o L0) \o Lb)
    BY <1>1, <1>6, <1>13, <1>16 DEF Message
  <2>2. (F \o L0) \o Lb = F \o (L0 \o Lb) /\ L0 \o <<>> = L0
    BY ONLY <1>14, <1>18, JoinedTwice
  <2> QED BY ONLY <1>16, <1>18, <1>19, <2>1, <2>2
<1>21. v \in Seq(Piece) /\ Len(v) = 5
  <2>1. v \in Seq(Piece) /\ Len(v) = Size(r, k + 1) + 5
    BY <1>17 DEF ChunkHolds
  <2>2. Size(r, k + 1) = 0
    BY <1>1, <1>2, ChunksAt DEF ChunkPlaces
  <2> QED BY <2>1, <2>2
<1>22. g \in Seq(Piece) /\ Len(g) = Len(F) + Len(v) /\ Holds(g, 0, F) /\ Holds(g, Len(F), v)
  BY ONLY <1>14, <1>19, <1>21, Joined
<1>23. m \in Seq(Piece) /\ Len(m) = Len(T) + Len(g) /\ Holds(m, 0, T) /\ Holds(m, Len(T), g)
  BY ONLY <1>3, <1>20, <1>22, Joined
<1>24. Len(m) = ChunkAt(r, k + 2)
  <2>1. k + 1 \in 1 .. k + 1 /\ (k + 1) + 1 = k + 2
    BY <1>2
  <2>2. ChunkAt(r, k + 2) = ChunkAt(r, k + 1) + Size(r, k + 1) + 5 /\ ChunkAt(r, k + 1) \in Nat
    BY ONLY <1>8, <2>1
  <2>3. Size(r, k + 1) = 0
    BY <1>1, <1>2, ChunksAt DEF ChunkPlaces
  <2> QED BY ONLY <1>2, <1>3, <1>15, <1>21, <1>22, <1>23, <2>2, <2>3
<1>25. ASSUME NEW i \in 1 .. k PROVE ChunkInAt(r, m, i)
  <2>1. PICK u, c, o : u = seqs[i] /\ c = ChunkAt(r, i) /\ o = off[i]
    OBVIOUS
  <2>2. i \in 1 .. k + 1 /\ i + 1 \in 1 .. k + 1
    BY <1>2
  <2>3. o \in Nat /\ c = t + o /\ u \in Seq(Piece) /\ Len(u) \in Nat
    <3>1. o = c - t /\ c \in Nat /\ c >= t
      BY ONLY <1>8, <1>9, <1>10, <2>1, <2>2
    <3>2. u \in Seq(Piece)
      BY ONLY <1>7, <2>1, i \in 1 .. k
    <3> QED BY ONLY <1>2, <3>1, <3>2
  <2>4. o + Len(u) <= Len(F)
    <3>1. off[k + 1] = Len(F)
      BY ONLY <1>14 DEF Placed
    <3>2. off[i + 1] = o + Len(u)
      BY ONLY <1>12, <2>1, i \in 1 .. k DEF Offsets
    <3>3. ASSUME o + Len(u) > Len(F) PROVE FALSE
      <4>1. CASE i = k
        BY ONLY <2>3, <3>1, <3>2, <3>3, <4>1, <1>14
      <4>2. CASE i # k
        <5> DEFINE P == {x \in Nat : x + i <= k => off[x + i + 1] >= o + Len(u)}
        <5>1. 0 \in P
          <6>1. 0 + i + 1 = i + 1 /\ o + Len(u) \in Nat
            BY <2>3, <1>2
          <6> QED BY <3>2, <6>1
        <5>2. ASSUME NEW x \in Nat, x \in P PROVE x + 1 \in P
          <6> SUFFICES ASSUME (x + 1) + i <= k PROVE off[(x + 1) + i + 1] >= o + Len(u)
            OBVIOUS
          <6>1. PICK y : y = x + i + 1
            OBVIOUS
          <6>2. y \in 1 .. k /\ y \in 1 .. k + 1 /\ y + 1 \in 1 .. k + 1 /\ y + 1 = (x + 1) + i + 1 /\ x + i <= k
            BY <1>2, <6>1
          <6>3. off[y] >= o + Len(u)
            BY <5>2, <6>1, <6>2
          <6>4. off[y + 1] = off[y] + Len(seqs[y]) /\ Len(seqs[y]) \in Nat
            BY ONLY <1>7, <1>12, <6>2 DEF Offsets
          <6>5. off[y] \in Nat
            BY ONLY <1>11, <6>2
          <6> QED BY ONLY <2>3, <6>2, <6>3, <6>4, <6>5
        <5> HIDE DEF P
        <5>3. Nat \subseteq P
          BY <5>1, <5>2, InductionOverNat
        <5>4. k - i \in P /\ (k - i) + i <= k /\ (k - i) + i + 1 = k + 1
          <6>1. k - i \in Nat
            BY <1>2
          <6> QED BY <1>2, <5>3, <6>1
        <5>5. off[k + 1] >= o + Len(u)
          BY <5>4 DEF P
        <5> QED BY ONLY <2>3, <3>1, <3>3, <5>5, <1>14
      <4> QED BY <4>1, <4>2
    <3>4. Len(F) \in Nat
      BY <1>14
    <3> QED BY ONLY <2>3, <3>3, <3>4
  <2>5. Holds(F, o, u)
    <3>1. \A j \in 1 .. Len(u) : F[o + j] = u[j]
      BY ONLY <1>14, <2>1, i \in 1 .. k DEF Placed
    <3> QED BY ONLY <1>14, <2>3, <2>4, <3>1 DEF Holds
  <2>6. Holds(m, t + (0 + o), u)
    <3>1. Holds(g, 0 + o, u)
      BY ONLY <1>22, <2>5, HoldsPart
    <3>2. Holds(m, t, g)
      BY ONLY <1>3, <1>23
    <3> QED BY ONLY <3>1, <3>2, HoldsPart
  <2>7. Holds(m, c, u)
    <3>1. t + (0 + o) = c
      BY ONLY <1>2, <2>3
    <3> QED BY ONLY <2>6, <3>1
  <2>8. ChunkHolds(r, i, u)
    BY <1>4, <2>1
  <2> QED BY ONLY <1>1, <1>2, <2>1, <2>2, <2>7, <2>8, ChunkPlaced, r \in Responses, r.framing = "chunked"
<1>26. ChunkInAt(r, m, k + 1)
  <2>1. PICK i, c, o : i = k + 1 /\ c = ChunkAt(r, i) /\ o = Len(F)
    OBVIOUS
  <2>2. i \in 1 .. k + 1 /\ c = t + o
    <3>1. i \in 1 .. k + 1
      BY ONLY <1>2, <2>1
    <3>2. c \in Nat
      BY ONLY <1>8, <2>1, <3>1
    <3> QED BY ONLY <1>2, <1>15, <2>1, <3>1, <3>2
  <2>3. Holds(m, t, g) /\ Holds(g, o, v)
    BY ONLY <1>3, <1>22, <1>23, <2>1
  <2>4. Holds(m, t + o, v)
    BY ONLY <2>3, HoldsPart
  <2>5. Holds(m, ChunkAt(r, i), v) /\ ChunkHolds(r, i, v)
    BY ONLY <1>17, <2>1, <2>2, <2>4
  <2>6. ChunkInAt(r, m, i)
    BY ONLY <1>1, <1>2, <2>2, <2>5, ChunkPlaced, r \in Responses, r.framing = "chunked"
  <2> QED BY <2>1, <2>6
<1>27. \A i \in 1 .. k + 1 : ChunkInAt(r, m, i)
  <2>1. \A i \in 1 .. k + 1 : i \in 1 .. k \/ i = k + 1
    BY <1>2
  <2> QED BY ONLY <1>25, <1>26, <2>1
<1>28. TopHolds(r, m) /\ hasPlainStream(r)
  BY ONLY <1>1, <1>3, <1>23, TopOfPart, r \in Responses, r.framing = "chunked" DEF hasPlainStream
<1> QED BY ONLY <1>1, <1>23, <1>24, <1>27, <1>28, r.framing = "chunked" DEF MessageHolds

\* Every message holds its response, if that is a plain stream.
LEMMA MessageIs ==
  ASSUME NEW r \in Responses, hasPlainStream(r), NEW m, m = Message(r)
  PROVE  MessageHolds(r, m)
<1>1. CASE r.framing = "chunked"
  BY <1>1, ChunkedMessageIs
<1>2. CASE r.framing # "chunked"
  <2>1. PICK t, T, b, p : t = BodyStart(r) /\ T = Top(r) /\ b = r.body /\ p = Part(b, "body", 0)
    OBVIOUS
  <2>2. T \in Seq(Piece) /\ Len(T) = t /\ TopHolds(r, T)
    BY <2>1, TopIs
  <2>3. b \in Seq(Byte) /\ t \in Nat /\ Len(b) \in Nat
    BY <2>1, ResponseIs, PlacesAre
  <2>4. /\ p \in Seq(Piece) /\ Len(p) = Len(b)
        /\ \A x \in 1 .. Len(b) : p[x].byte = b[x] /\ p[x].part = "body" /\ p[x].nth = 0 + x
    <3>1. PICK pt : pt = "body"
      OBVIOUS
    <3>2. pt \in PartName
      BY <3>1 DEF PartName
    <3>3. p = Part(b, pt, 0)
      BY <2>1, <3>1
    <3>4. /\ p \in Seq(Piece) /\ Len(p) = Len(b)
          /\ \A x \in 1 .. Len(b) : p[x].byte = b[x] /\ p[x].part = pt /\ p[x].nth = 0 + x
      BY ONLY <2>3, <3>2, <3>3, PartIs, 0 \in Nat
    <3> QED BY ONLY <3>1, <3>4
  <2>5. m = T \o p
    BY <1>2, <2>1 DEF Message
  <2>6. m \in Seq(Piece) /\ Len(m) = Len(T) + Len(p) /\ Holds(m, 0, T) /\ Holds(m, Len(T), p)
    BY ONLY <2>2, <2>4, <2>5, Joined
  <2>7. BodyIn(p, 0, b, 0)
    <3>1. \A x \in 1 .. Len(b) : 0 + x = x
      BY <2>3
    <3>2. 0 + Len(b) <= Len(p)
      BY <2>3, <2>4
    <3> QED BY ONLY <2>4, <3>1, <3>2 DEF BodyIn
  <2>8. BodyIn(m, t, b, 0)
    <3>1. Holds(m, t, p)
      BY ONLY <2>2, <2>6
    <3>2. BodyIn(m, t + 0, b, 0)
      BY ONLY <2>3, <2>7, <3>1, BodyOfPart, 0 \in Nat
    <3>3. t + 0 = t
      BY <2>3
    <3> QED BY ONLY <3>2, <3>3
  <2>9. TopHolds(r, m)
    BY ONLY <2>1, <2>2, <2>6, TopOfPart, r \in Responses
  <2> QED BY ONLY <1>2, <2>1, <2>2, <2>4, <2>6, <2>8, <2>9, hasPlainStream(r) DEF MessageHolds
<1> QED BY <1>1, <1>2

-----------------------------------------------------------------------------
(* What the parser takes.                                                   *)

Fields == {"remaining", "currentByteIdx", "left", "isChunked", "hasStatus",
           "statusLineEndIndex", "headers", "headersComplete", "chunks",
           "bodyStartIndex", "body", "complete", "thrown"}

IsParser(p) == p = [f \in Fields |-> p[f]]

\* What the top of a response says.
SameTop(p, q) ==
  /\ q.isChunked = p.isChunked /\ q.hasStatus = p.hasStatus
  /\ q.statusLineEndIndex = p.statusLineEndIndex /\ q.headers = p.headers
  /\ q.headersComplete = p.headersComplete /\ q.thrown = p.thrown

\* What its body says.
SameBody(p, q) ==
  /\ q.left = p.left /\ q.chunks = p.chunks /\ q.bodyStartIndex = p.bodyStartIndex
  /\ q.body = p.body /\ q.complete = p.complete

SameBytes(p, q) == q.remaining = p.remaining /\ q.currentByteIdx = p.currentByteIdx

\* Parsers that agree on all fields are equal.
LEMMA SameParser ==
  ASSUME NEW p, NEW q, IsParser(p), IsParser(q), SameTop(p, q), SameBody(p, q), SameBytes(p, q)
  PROVE  p = q
<1>1. \A f \in Fields : p[f] = q[f]
  BY DEF Fields, SameTop, SameBody, SameBytes
<1>2. p = [f \in Fields |-> p[f]] /\ q = [f \in Fields |-> q[f]]
  BY DEF IsParser
<1> QED BY ONLY <1>1, <1>2

\* take moves the parser on and changes nothing else.
LEMMA TakeIs ==
  ASSUME NEW p, IsParser(p), NEW n, NEW q, q = take(p, n)
  PROVE  /\ IsParser(q) /\ SameTop(p, q) /\ SameBody(p, q)
         /\ q.remaining = SubSeq(p.remaining, n + 1, Len(p.remaining))
         /\ q.currentByteIdx = p.currentByteIdx + n
<1>1. IsParser(q)
  BY DEF take, IsParser, Fields
<1>2. SameTop(p, q)
  BY DEF take, IsParser, Fields, SameTop
<1>3. SameBody(p, q)
  BY DEF take, IsParser, Fields, SameBody
<1>4. /\ q.remaining = SubSeq(p.remaining, n + 1, Len(p.remaining))
      /\ q.currentByteIdx = p.currentByteIdx + n
  BY DEF take, IsParser, Fields
<1> QED BY <1>1, <1>2, <1>3, <1>4

\* The bytes of a message are those of its pieces.
LEMMA BytesAre ==
  ASSUME NEW m \in Seq(Piece), NEW b, b = BytesOf(m)
  PROVE  b \in Seq(Byte) /\ Len(b) = Len(m) /\ \A i \in 1 .. Len(m) : b[i] = m[i].byte
<1>1. Len(m) \in Nat /\ b = [i \in 1 .. Len(m) |-> m[i].byte]
  BY DEF BytesOf
<1>2. \A i \in 1 .. Len(m) : b[i] = m[i].byte /\ m[i].byte \in Byte
  <2>1. \A i \in 1 .. Len(m) : m[i] \in Piece
    BY <1>1
  <2>2. \A x \in Piece : x.byte \in Byte
    BY DEF Piece
  <2> QED BY ONLY <1>1, <2>1, <2>2
<1>3. b = [i \in 1 .. Len(m) |-> b[i]] /\ \A i \in 1 .. Len(m) : b[i] \in Byte
  BY ONLY <1>1, <1>2
<1>4. b \in Seq(Byte) /\ Len(b) = Len(m)
  BY ONLY <1>1, <1>3, IsSequence
<1> QED BY <1>2, <1>4

\* The parser p has taken c of n bytes.
At(p, b, c, n) == p.remaining = SubSeq(b, c + 1, n) /\ p.currentByteIdx = c

\* The parser takes line s, up to d.
LineTakes(p, b, s, d, n) ==
  /\ hasLine(p) /\ line(p) = s /\ At(getLine(p), b, d, n)
  /\ IsParser(getLine(p)) /\ SameTop(p, getLine(p)) /\ SameBody(p, getLine(p))

\* A line that has come as a whole is taken; one that has not is not there yet.
LEMMA LineTaken ==
  ASSUME NEW m \in Seq(Piece), NEW b, b = BytesOf(m), NEW c \in Nat, NEW n \in Nat, c <= n, n <= Len(m),
         NEW s \in Seq(Byte), \A i \in 1 .. Len(s) : s[i] # CR, NEW part, LineAt(m, c, s, part),
         NEW p, IsParser(p), At(p, b, c, n), NEW d, d = c + Len(s) + 2
  PROVE  /\ d <= n => LineTakes(p, b, s, d, n)
         /\ d > n => ~hasLine(p)
<1>1. b \in Seq(Byte) /\ Len(b) = Len(m) /\ \A i \in 1 .. Len(m) : b[i] = m[i].byte
  BY BytesAre
<1>2. Len(m) \in Nat /\ Len(s) \in Nat /\ d \in Nat /\ d <= Len(m)
  BY DEF LineAt
<1>3. PICK t, w : t = p.remaining /\ w = Len(s)
  OBVIOUS
<1>4. t \in Seq(Byte) /\ Len(t) = n - c /\ \A i \in 1 .. n - c : t[i] = b[c + i]
  <2>1. t = SubSeq(b, c + 1, n)
    BY <1>3 DEF At
  <2> QED BY ONLY <1>1, <2>1, Between, c \in Nat, n \in Nat, c <= n, n <= Len(m)
<1>5. \A i \in 1 .. w : m[c + i].byte = s[i]
  BY <1>3 DEF LineAt
<1>6. m[c + w + 1].byte = CR /\ m[c + w + 2].byte = LF
  BY <1>3 DEF LineAt
<1>7. ASSUME NEW i \in 1 .. n - c PROVE t[i] = m[c + i].byte
  <2>1. PICK k : k = c + i
    OBVIOUS
  <2>2. k \in 1 .. Len(m)
    BY <1>2, <2>1
  <2> QED BY ONLY <1>1, <1>4, <2>1, <2>2, i \in 1 .. n - c
<1>8. /\ \A i \in 1 .. w : i <= Len(t) => t[i] # CR
      /\ w + 1 <= Len(t) => t[w + 1] = CR
      /\ w + 2 <= Len(t) => t[w + 2] = LF
  <2>1. ASSUME NEW i \in 1 .. w, i <= Len(t) PROVE t[i] # CR
    <3>1. i \in 1 .. n - c /\ i \in 1 .. Len(s)
      BY ONLY <1>2, <1>3, <1>4, <2>1, i \in 1 .. w, c \in Nat, n \in Nat
    <3> QED BY <1>5, <1>7, <3>1
  <2>2. ASSUME w + 1 <= Len(t) PROVE t[w + 1] = CR
    <3>1. PICK k : k = w + 1
      OBVIOUS
    <3>2. k \in 1 .. n - c /\ c + k = c + w + 1
      BY ONLY <1>2, <1>3, <1>4, <2>2, <3>1, c \in Nat, n \in Nat
    <3> QED BY ONLY <1>6, <1>7, <3>1, <3>2
  <2>3. ASSUME w + 2 <= Len(t) PROVE t[w + 2] = LF
    <3>1. PICK k : k = w + 2
      OBVIOUS
    <3>2. k \in 1 .. n - c /\ c + k = c + w + 2
      BY ONLY <1>2, <1>3, <1>4, <2>3, <3>1, c \in Nat, n \in Nat
    <3> QED BY ONLY <1>6, <1>7, <3>1, <3>2
  <2> QED BY ONLY <2>1, <2>2, <2>3
<1>9. /\ Len(t) >= w + 2 => LineEnds(t) # {} /\ Min(LineEnds(t)) = w + 1
      /\ Len(t) < w + 2 => LineEnds(t) = {}
  <2>1. w \in Nat
    BY <1>2, <1>3
  <2> QED BY ONLY <1>4, <1>8, <2>1, LineAhead
<1>10. ASSUME d <= n PROVE LineTakes(p, b, s, d, n)
  <2>1. hasLine(p) /\ Min(LineEnds(t)) = w + 1
    BY <1>2, <1>3, <1>4, <1>9, <1>10 DEF hasLine
  <2>2. line(p) = SubSeq(t, 1, w)
    <3>1. (w + 1) - 1 = w
      BY <1>2, <1>3
    <3> QED BY <1>3, <2>1, <3>1 DEF line
  <2>3. SubSeq(t, 1, w) = s
    <3>1. PICK x : x = SubSeq(t, 1, w)
      OBVIOUS
    <3>2. 0 \in Nat /\ w \in Nat /\ 0 <= w /\ w <= Len(t) /\ x = SubSeq(t, 0 + 1, w)
      BY <1>2, <1>3, <1>4, <1>10, <3>1
    <3>3. x \in Seq(Byte) /\ Len(x) = w - 0 /\ \A i \in 1 .. w - 0 : x[i] = t[0 + i]
      BY ONLY <1>4, <3>2, Between
    <3>4. Len(x) = Len(s)
      BY ONLY <1>2, <1>3, <3>3
    <3>5. ASSUME NEW i \in 1 .. Len(x) PROVE x[i] = s[i]
      <4>1. i \in 1 .. n - c /\ i \in 1 .. w /\ 0 + i = i /\ w - 0 = w
        BY ONLY <1>2, <1>3, <1>4, <3>2, <3>4, i \in 1 .. Len(x)
      <4> QED BY ONLY <1>5, <1>7, <3>3, <4>1
    <3> QED BY ONLY <3>1, <3>3, <3>4, <3>5, SameElements, s \in Seq(Byte)
  <2>4. PICK q, v : q = getLine(p) /\ v = w + 2
    OBVIOUS
  <2>5. v \in Nat /\ c + v = d /\ q = take(p, v)
    <3>1. v \in Nat /\ c + v = d
      BY <1>2, <1>3, <2>4
    <3>2. Len(line(p)) = w
      BY <1>3, <2>2, <2>3
    <3> QED BY <2>4, <3>1, <3>2 DEF getLine
  <2>6. /\ IsParser(q) /\ SameTop(p, q) /\ SameBody(p, q)
        /\ q.remaining = SubSeq(t, v + 1, Len(t)) /\ q.currentByteIdx = p.currentByteIdx + v
    BY ONLY <1>3, <2>5, TakeIs, IsParser(p)
  <2>7. At(q, b, d, n)
    <3>1. t = SubSeq(b, c + 1, n) /\ p.currentByteIdx = c
      BY <1>3 DEF At
    <3>2. c + v <= n
      BY <1>10, <2>5
    <3>3. SubSeq(t, v + 1, Len(t)) = SubSeq(b, c + v + 1, n)
      BY ONLY <1>1, <2>5, <3>1, <3>2, BetweenTaken, c \in Nat, n \in Nat, c <= n, n <= Len(m)
    <3>4. q.remaining = SubSeq(b, d + 1, n)
      BY ONLY <2>5, <2>6, <3>3
    <3>5. q.currentByteIdx = d
      BY ONLY <2>5, <2>6, <3>1
    <3> QED BY <3>4, <3>5 DEF At
  <2> QED BY ONLY <2>1, <2>2, <2>3, <2>4, <2>6, <2>7 DEF LineTakes
<1>11. ASSUME d > n PROVE ~hasLine(p)
  <2>1. Len(t) < w + 2
    BY ONLY <1>2, <1>3, <1>4, <1>11, c \in Nat, n \in Nat, d = c + Len(s) + 2
  <2> QED BY <1>3, <1>9, <2>1 DEF hasLine
<1> QED BY <1>10, <1>11

-----------------------------------------------------------------------------
(* The lines before the body, of which the empty one is the last.           *)

LinesOf(r) == Len(r.head) + (IF r.framing = "close" THEN 1 ELSE 2)

LineText(r, k) ==
  IF k = 0 THEN StatusLine
  ELSE IF k <= Len(r.head) THEN <<r.head[k]>>
  ELSE IF k < LinesOf(r) THEN FramingLine(r) ELSE <<>>

LineStart(r, k) ==
  IF k <= Len(r.head) + 1 THEN 3 * k
  ELSE IF k <= LinesOf(r) THEN BodyStart(r) - 2 ELSE BodyStart(r)

LinePart(r, k) == IF k = 0 THEN "status" ELSE IF k <= Len(r.head) THEN HeadPart(r, k) ELSE "frame"

\* Line k is where it should be.
TopLine(r, m, k) ==
  /\ LineStart(r, k) \in Nat
  /\ LineStart(r, k + 1) = LineStart(r, k) + Len(LineText(r, k)) + 2
  /\ LineText(r, k) \in Seq(Byte) /\ \A i \in 1 .. Len(LineText(r, k)) : LineText(r, k)[i] # CR
  /\ LineAt(m, LineStart(r, k), LineText(r, k), LinePart(r, k))

\* Where each line of the top of a message is.
LEMMA TopLines ==
  ASSUME NEW r \in Responses, NEW m, MessageHolds(r, m), NEW k \in 0 .. LinesOf(r)
  PROVE  TopLine(r, m, k)
<1>1. PICK n, last, e, l, at : n = Len(r.head) /\ last = LinesOf(r) /\ e = BodyStart(r) /\ l = LineText(r, k) /\ at = FramingAt(r)
  OBVIOUS
<1>2. /\ n \in Nat /\ e \in Nat /\ e >= 2 /\ at = 3 * (n + 1)
      /\ last = n + (IF r.framing = "close" THEN 1 ELSE 2)
      /\ e = at + FrameWidth(r) + 2 /\ FrameWidth(r) \in Nat
      /\ r.framing = "close" => FrameWidth(r) = 0
      /\ r.framing # "close" => FramingLine(r) \in Seq(Byte) /\ FrameWidth(r) = Len(FramingLine(r)) + 2
  <2>1. n \in Nat
    BY <1>1, ResponseIs
  <2>2. last = n + (IF r.framing = "close" THEN 1 ELSE 2) /\ at = 3 * (n + 1)
    BY <1>1 DEF LinesOf, FramingAt
  <2>3. /\ e \in Nat /\ FrameWidth(r) \in Nat /\ FramingAt(r) >= 3
        /\ e = FramingAt(r) + FrameWidth(r) + 2 /\ FramingAt(r) \in Nat
    BY <1>1, PlacesAre
  <2>4. e >= 2 /\ e = at + FrameWidth(r) + 2
    BY ONLY <1>1, <2>3
  <2>5. /\ r.framing = "close" => FrameWidth(r) = 0
        /\ r.framing # "close" => FramingLine(r) \in Seq(Byte) /\ FrameWidth(r) = Len(FramingLine(r)) + 2
    BY PlacesAre
  <2> QED BY ONLY <2>1, <2>2, <2>3, <2>4, <2>5
<1>3. last \in Nat /\ last >= n + 1 /\ k \in 0 .. last
  <2>1. last = n + 1 \/ last = n + 2
    BY ONLY <1>2
  <2>2. n \in Nat
    BY <1>2
  <2>3. last \in Nat /\ last >= n + 1
    BY ONLY <2>1, <2>2
  <2> QED BY <1>1, <2>3
<1>4. TopHolds(r, m)
  BY DEF MessageHolds
<1>5. CASE k = 0
  <2>1. l = StatusLine /\ LineStart(r, k) = 0 /\ LineStart(r, k + 1) = 3 /\ LinePart(r, k) = "status"
    <3>1. 0 <= n + 1 /\ 0 + 1 <= n + 1 /\ n \in Nat
      BY ONLY <1>2
    <3>2. LineStart(r, k) = 3 * 0 /\ LineStart(r, k + 1) = 3 * (0 + 1)
      BY ONLY <1>1, <1>5, <3>1 DEF LineStart
    <3>3. l = StatusLine /\ LinePart(r, k) = "status"
      BY ONLY <1>1, <1>5 DEF LineText, LinePart
    <3> QED BY ONLY <3>2, <3>3
  <2>2. StatusLine \in Seq(Byte) /\ Len(StatusLine) = 1 /\ StatusLine[1] # CR
    BY DEF StatusLine, Byte, CR
  <2>3. LineAt(m, 0, StatusLine, "status")
    BY <1>4 DEF TopHolds
  <2> QED BY <1>1, <2>1, <2>2, <2>3 DEF TopLine
<1>6. CASE k \in 1 .. n
  <2>1. l = <<r.head[k]>> /\ LineStart(r, k) = 3 * k /\ LineStart(r, k + 1) = 3 * (k + 1) /\ LinePart(r, k) = HeadPart(r, k)
    <3>1. k # 0 /\ k <= n /\ k <= n + 1 /\ k + 1 <= n + 1
      BY ONLY <1>2, <1>6
    <3>2. LineStart(r, k) = 3 * k /\ LineStart(r, k + 1) = 3 * (k + 1)
      BY ONLY <1>1, <3>1 DEF LineStart
    <3>3. l = <<r.head[k]>> /\ LinePart(r, k) = HeadPart(r, k)
      BY ONLY <1>1, <3>1 DEF LineText, LinePart
    <3> QED BY ONLY <3>2, <3>3
  <2>2. l \in Seq(Byte) /\ Len(l) = 1 /\ l[1] = r.head[k] /\ l[1] # CR
    <3>1. r.head \in Seq(Byte) /\ r.head[k] \notin {CR, LF, Length, Transfer}
      BY <1>1, <1>6, ResponseIs
    <3>2. r.head[k] \in Byte
      BY <1>1, <1>6, <3>1
    <3> QED BY ONLY <2>1, <3>1, <3>2
  <2>3. LineAt(m, 3 * k, <<r.head[k]>>, HeadPart(r, k))
    BY <1>1, <1>4, <1>6 DEF TopHolds
  <2>4. 3 * k \in Nat /\ 3 * (k + 1) = 3 * k + 1 + 2
    BY <1>2, <1>6
  <2>5. \A i \in 1 .. Len(l) : l[i] # CR
    BY ONLY <2>2
  <2>6. LineStart(r, k) \in Nat /\ LineStart(r, k + 1) = LineStart(r, k) + Len(l) + 2
    BY ONLY <2>1, <2>2, <2>4
  <2>7. LineAt(m, LineStart(r, k), l, LinePart(r, k))
    BY ONLY <2>1, <2>3
  <2> QED BY ONLY <1>1, <2>2, <2>5, <2>6, <2>7 DEF TopLine
<1>7. CASE k = n + 1 /\ r.framing # "close"
  <2>1. l = FramingLine(r) /\ LineStart(r, k) = at /\ LineStart(r, k + 1) = e - 2 /\ LinePart(r, k) = "frame"
    <3>1. k # 0 /\ ~(k <= n) /\ k < last /\ k <= n + 1 /\ ~(k + 1 <= n + 1) /\ k + 1 <= last /\ 3 * k = at
      BY <1>2, <1>7
    <3> QED BY <1>1, <3>1 DEF LineText, LineStart, LinePart
  <2>2. l \in Seq(Byte) /\ \A i \in 1 .. Len(l) : l[i] # CR
    <3>1. CASE r.framing = "length"
      <4>1. l = <<Length, Digit(Len(r.body))>> /\ Len(r.body) \in 0 .. Len(Digits) - 1
        BY <2>1, <3>1, ResponseIs, DigitIs DEF FramingLine
      <4>2. Digit(Len(r.body)) \notin {CR, LF}
        BY <4>1, DigitIs
      <4>3. Length # CR
        BY DEF Length, CR
      <4>4. \A i \in 1 .. Len(l) : l[i] # CR
        BY ONLY <4>1, <4>2, <4>3
      <4> QED BY <1>2, <1>7, <2>1, <4>4
    <3>2. CASE r.framing # "length"
      <4>1. l = <<Transfer>> /\ Transfer # CR
        BY <2>1, <3>2 DEF FramingLine, Transfer, CR
      <4>2. \A i \in 1 .. Len(l) : l[i] # CR
        BY ONLY <4>1
      <4> QED BY <1>2, <1>7, <2>1, <4>2
    <3> QED BY <3>1, <3>2
  <2>3. LineAt(m, at, FramingLine(r), "frame")
    BY <1>1, <1>4, <1>7 DEF TopHolds
  <2>4. at \in Nat /\ e - 2 = at + Len(l) + 2
    BY <1>2, <1>7, <2>1
  <2> QED BY ONLY <1>1, <2>1, <2>2, <2>3, <2>4 DEF TopLine
<1>8. CASE k = last
  <2>1. l = <<>> /\ LineStart(r, k) = e - 2 /\ LineStart(r, k + 1) = e /\ LinePart(r, k) = "frame"
    <3>1. k # 0 /\ ~(k <= n) /\ ~(k < last) /\ ~(k + 1 <= last) /\ ~(k + 1 <= n + 1) /\ k <= last
      BY <1>2, <1>8
    <3>2. LineStart(r, k) = e - 2
      <4>1. CASE r.framing = "close"
        <5>1. k = n + 1 /\ 3 * k = e - 2 /\ k <= n + 1
          BY <1>2, <1>8, <4>1
        <5> QED BY <1>1, <5>1 DEF LineStart
      <4>2. CASE r.framing # "close"
        <5>1. ~(k <= n + 1) /\ k <= last
          BY <1>2, <1>8, <4>2
        <5> QED BY <1>1, <5>1 DEF LineStart
      <4> QED BY <4>1, <4>2
    <3>3. l = <<>> /\ LinePart(r, k) = "frame"
      BY <1>1, <3>1 DEF LineText, LinePart
    <3>4. LineStart(r, k + 1) = e
      BY <1>1, <3>1 DEF LineStart
    <3> QED BY <3>2, <3>3, <3>4
  <2>2. LineAt(m, e - 2, <<>>, "frame")
    BY <1>1, <1>4 DEF TopHolds
  <2>3. e - 2 \in Nat /\ e = (e - 2) + 0 + 2 /\ l \in Seq(Byte) /\ Len(l) = 0
    BY <1>2, <2>1
  <2>4. \A i \in 1 .. Len(l) : l[i] # CR
    BY ONLY <2>3
  <2> QED BY ONLY <1>1, <2>1, <2>2, <2>3, <2>4 DEF TopLine
<1>9. k = 0 \/ k \in 1 .. n \/ (k = n + 1 /\ r.framing # "close") \/ k = last
  BY <1>2, <1>3
<1> QED BY <1>5, <1>6, <1>7, <1>8, <1>9

\* The top ends with the empty line, after the header lines and that of the framing.
LEMMA TopEnds ==
  ASSUME NEW r \in Responses
  PROVE  /\ LinesOf(r) \in Nat \ {0} /\ LinesOf(r) >= Len(r.head) + 1
         /\ LineStart(r, 0) = 0 /\ LineStart(r, LinesOf(r) + 1) = BodyStart(r)
         /\ LineText(r, LinesOf(r)) = <<>> /\ LineText(r, 0) = StatusLine
         /\ r.framing # "close" => LinesOf(r) = Len(r.head) + 2
         /\ r.framing = "close" => LinesOf(r) = Len(r.head) + 1
<1>1. PICK n, last : n = Len(r.head) /\ last = LinesOf(r)
  OBVIOUS
<1>2. n \in Nat
  BY <1>1, ResponseIs
<1>3. last = n + (IF r.framing = "close" THEN 1 ELSE 2)
  BY <1>1 DEF LinesOf
<1>4. last \in Nat /\ last # 0 /\ ~(last <= n) /\ ~(last < last) /\ ~(last + 1 <= last) /\ ~(last + 1 <= n + 1)
  BY <1>2, <1>3
<1>5. LineText(r, last) = <<>> /\ LineStart(r, last + 1) = BodyStart(r)
  BY <1>1, <1>4 DEF LineText, LineStart
<1>6. LineStart(r, 0) = 0 /\ LineText(r, 0) = StatusLine
  <2>1. 0 <= Len(r.head) + 1 /\ 3 * 0 = 0
    BY <1>1, <1>2
  <2> QED BY ONLY <2>1 DEF LineText, LineStart
<1>7. last >= n + 1 /\ (r.framing # "close" => last = n + 2) /\ (r.framing = "close" => last = n + 1)
  BY ONLY <1>2, <1>3
<1> QED BY ONLY <1>1, <1>4, <1>5, <1>6, <1>7

-----------------------------------------------------------------------------
(* The headers.                                                             *)

LineKey(r, k) == LineText(r, k)[1]
Keys(r, k) == {LineKey(r, j) : j \in 1 .. k - 1}

HeaderOf(r, k) ==
  [value |-> Tail(LineText(r, k)), fromIndex |-> LineStart(r, k),
   toIndex |-> LineStart(r, k) + Len(LineText(r, k))]

\* The headers of the lines before line k.
HeadersAre(r, k, hs) ==
  /\ hs = [h \in Keys(r, k) |-> hs[h]]
  /\ \A j \in 1 .. k - 1 : hs[LineKey(r, j)] = HeaderOf(r, j)

\* The header lines have different keys.
LEMMA KeysDiffer ==
  ASSUME NEW r \in Responses, NEW i \in 1 .. LinesOf(r) - 1, NEW j \in 1 .. LinesOf(r) - 1,
         LineKey(r, i) = LineKey(r, j)
  PROVE  i = j
<1>1. PICK n, last : n = Len(r.head) /\ last = LinesOf(r)
  OBVIOUS
<1>2. /\ n \in Nat /\ last \in Nat /\ last >= n + 1
      /\ r.framing # "close" => last = n + 2
      /\ r.framing = "close" => last = n + 1
  BY <1>1, TopEnds, ResponseIs
<1>3. ASSUME NEW k \in 1 .. n PROVE LineKey(r, k) = r.head[k] /\ r.head[k] \notin {CR, LF, Length, Transfer}
  <2>1. LineText(r, k) = <<r.head[k]>>
    BY <1>1, <1>2 DEF LineText
  <2>2. r.head[k] \notin {CR, LF, Length, Transfer}
    BY <1>1, ResponseIs
  <2> QED BY <2>1, <2>2 DEF LineKey
<1>4. ASSUME NEW k \in 1 .. last - 1, k \notin 1 .. n
      PROVE  k = n + 1 /\ LineKey(r, k) \in {Length, Transfer}
  <2>1. k = n + 1 /\ r.framing # "close" /\ k # 0 /\ ~(k <= n) /\ k < last
    BY <1>2, <1>4
  <2>2. LineText(r, k) = FramingLine(r)
    BY <1>1, <2>1 DEF LineText
  <2> QED BY <2>1, <2>2 DEF LineKey, FramingLine
<1>5. i \in 1 .. last - 1 /\ j \in 1 .. last - 1
  BY <1>1
<1>6. CASE i \in 1 .. n /\ j \in 1 .. n
  <2>1. r.head[i] = r.head[j]
    BY <1>3, <1>6
  <2> QED BY <1>1, <1>6, <2>1, ResponseIs
<1> QED BY <1>3, <1>4, <1>5, <1>6

\* The keys say how the body is framed.
LEMMA KeysAre ==
  ASSUME NEW r \in Responses
  PROVE  /\ Transfer \in Keys(r, LinesOf(r)) <=> r.framing = "chunked"
         /\ Length \in Keys(r, LinesOf(r)) <=> r.framing = "length"
         /\ r.framing = "length" =>
              /\ LinesOf(r) - 1 \in 1 .. LinesOf(r) - 1 /\ LineKey(r, LinesOf(r) - 1) = Length
              /\ Tail(LineText(r, LinesOf(r) - 1)) = <<Digit(Len(r.body))>>
<1>1. PICK n, last : n = Len(r.head) /\ last = LinesOf(r)
  OBVIOUS
<1>2. /\ n \in Nat /\ last \in Nat /\ last >= n + 1
      /\ r.framing # "close" => last = n + 2
      /\ r.framing = "close" => last = n + 1
      /\ r.framing \in {"length", "chunked", "close"}
  BY <1>1, TopEnds, ResponseIs DEF Framing
<1>3. ASSUME NEW k \in 1 .. n PROVE LineKey(r, k) \notin {Length, Transfer}
  <2>1. LineText(r, k) = <<r.head[k]>>
    BY <1>1, <1>2 DEF LineText
  <2>2. r.head[k] \notin {CR, LF, Length, Transfer}
    BY <1>1, ResponseIs
  <2> QED BY <2>1, <2>2 DEF LineKey
<1>4. ASSUME r.framing # "close" PROVE n + 1 \in 1 .. last - 1 /\ LineText(r, n + 1) = FramingLine(r)
  <2>1. n + 1 # 0 /\ ~(n + 1 <= n) /\ n + 1 < last
    BY <1>2, <1>4
  <2> QED BY <1>1, <1>2, <2>1 DEF LineText
<1>5. Length # Transfer
  BY DEF Length, Transfer
<1>6. Keys(r, last) = {LineKey(r, j) : j \in 1 .. last - 1}
  BY DEF Keys
<1>7. CASE r.framing = "length"
  <2>1. LineText(r, n + 1) = <<Length, Digit(Len(r.body))>>
    BY <1>4, <1>7 DEF FramingLine
  <2>2. LineKey(r, n + 1) = Length /\ Tail(LineText(r, n + 1)) = <<Digit(Len(r.body))>>
    <3>1. PICK d : d = Digit(Len(r.body))
      OBVIOUS
    <3>2. LineText(r, n + 1) = <<Length, d>>
      BY ONLY <2>1, <3>1
    <3>3. <<Length, d>>[1] = Length
      OBVIOUS
    <3>4. Tail(<<Length, d>>) = <<d>>
      OBVIOUS
    <3>5. LineKey(r, n + 1) = Length
      BY ONLY <3>2, <3>3 DEF LineKey
    <3> QED BY ONLY <3>1, <3>2, <3>4, <3>5
  <2>3. last - 1 = n + 1 /\ n + 1 \in 1 .. last - 1 /\ \A j \in 1 .. last - 1 : j \in 1 .. n \/ j = n + 1
    BY <1>2, <1>7
  <2>4. Length \in Keys(r, last) /\ Transfer \notin Keys(r, last)
    BY ONLY <1>3, <1>5, <1>6, <2>2, <2>3
  <2> QED BY ONLY <1>1, <1>7, <2>2, <2>3, <2>4
<1>8. CASE r.framing = "chunked"
  <2>1. LineText(r, n + 1) = <<Transfer>>
    BY <1>4, <1>8 DEF FramingLine
  <2>2. LineKey(r, n + 1) = Transfer
    BY <2>1 DEF LineKey
  <2>3. n + 1 \in 1 .. last - 1 /\ \A j \in 1 .. last - 1 : j \in 1 .. n \/ j = n + 1
    BY <1>2, <1>8
  <2>4. Transfer \in Keys(r, last) /\ Length \notin Keys(r, last)
    BY ONLY <1>3, <1>5, <1>6, <2>2, <2>3
  <2> QED BY ONLY <1>1, <1>8, <2>4
<1>9. CASE r.framing = "close"
  <2>1. \A j \in 1 .. last - 1 : j \in 1 .. n
    BY <1>2, <1>9
  <2>2. Transfer \notin Keys(r, last) /\ Length \notin Keys(r, last)
    BY ONLY <1>3, <1>6, <2>1
  <2> QED BY ONLY <1>1, <1>9, <2>2
<1> QED BY <1>2, <1>7, <1>8, <1>9

\* One header more.
LEMMA HeadersGrow ==
  ASSUME NEW r \in Responses, NEW k \in 1 .. LinesOf(r) - 1, NEW hs, HeadersAre(r, k, hs),
         NEW x, x = set(hs, LineKey(r, k), HeaderOf(r, k))
  PROVE  HeadersAre(r, k + 1, x)
<1>1. LinesOf(r) \in Nat
  BY TopEnds
<1>2. DOMAIN hs = Keys(r, k) /\ \A j \in 1 .. k - 1 : hs[LineKey(r, j)] = HeaderOf(r, j)
  BY DEF HeadersAre
<1>3. Keys(r, k + 1) = Keys(r, k) \cup {LineKey(r, k)}
  <2>1. \A j : j \in 1 .. (k + 1) - 1 <=> j \in 1 .. k - 1 \/ j = k
    BY <1>1
  <2> QED BY <2>1 DEF Keys
<1>4. x = [h \in Keys(r, k + 1) |-> IF h = LineKey(r, k) THEN HeaderOf(r, k) ELSE hs[h]]
  BY <1>2, <1>3 DEF set
<1>5. ASSUME NEW j \in 1 .. (k + 1) - 1 PROVE x[LineKey(r, j)] = HeaderOf(r, j)
  <2>1. LineKey(r, j) \in Keys(r, k + 1)
    BY DEF Keys
  <2>2. CASE j = k
    BY <1>4, <2>1, <2>2
  <2>3. CASE j # k
    <3>1. j \in 1 .. k - 1 /\ j \in 1 .. LinesOf(r) - 1
      BY <1>1, <2>3
    <3>2. LineKey(r, j) # LineKey(r, k)
      BY <2>3, <3>1, KeysDiffer
    <3> QED BY ONLY <1>2, <1>4, <2>1, <3>1, <3>2
  <2> QED BY <2>2, <2>3
<1>6. x = [h \in Keys(r, k + 1) |-> x[h]]
  BY <1>4
<1> QED BY <1>5, <1>6 DEF HeadersAre

\* The lines read determine the headers.
LEMMA SameHeaders ==
  ASSUME NEW r, NEW k, NEW x, NEW y, HeadersAre(r, k, x), HeadersAre(r, k, y)
  PROVE  x = y
<1>1. \A h \in Keys(r, k) : x[h] = y[h]
  BY DEF HeadersAre, Keys
<1>2. x = [h \in Keys(r, k) |-> x[h]] /\ y = [h \in Keys(r, k) |-> y[h]]
  BY DEF HeadersAre
<1> QED BY ONLY <1>1, <1>2

-----------------------------------------------------------------------------
(* The parser before the body.                                              *)

\* k lines have been read, of n bytes.
InTop(r, b, n, k, p) ==
  /\ IsParser(p) /\ At(p, b, LineStart(r, k), n)
  /\ k = 0 => p.hasStatus = FALSE /\ p.statusLineEndIndex = 0
  /\ k # 0 => p.hasStatus = TRUE /\ p.statusLineEndIndex = 1
  /\ HeadersAre(r, k, p.headers)
  /\ p.isChunked = FALSE /\ p.headersComplete = FALSE /\ p.thrown = FALSE
  /\ p.left = 0 /\ p.chunks = <<>> /\ p.bodyStartIndex = 0 /\ p.body = <<>> /\ p.complete = FALSE

\* The empty line has been read.
PastTop(r, p) ==
  /\ IsParser(p)
  /\ p.hasStatus = TRUE /\ p.statusLineEndIndex = 1 /\ HeadersAre(r, LinesOf(r), p.headers)
  /\ p.headersComplete = TRUE /\ p.thrown = FALSE
  /\ r.framing = "chunked" => p.isChunked = TRUE
  /\ r.framing # "chunked" => p.isChunked = FALSE

LeftOf(r) == IF r.framing = "length" THEN Len(r.body) ELSE IF r.framing = "chunked" THEN 0 ELSE -1

AfterTop(r, b, n, p) ==
  /\ PastTop(r, p) /\ At(p, b, BodyStart(r), n) /\ p.left = LeftOf(r)
  /\ p.chunks = <<>> /\ p.bodyStartIndex = 0 /\ p.body = <<>> /\ p.complete = FALSE

\* The status line is taken.
LEMMA StatusTurn ==
  ASSUME NEW r \in Responses, NEW b, NEW n \in Nat, NEW p, InTop(r, b, n, 0, p),
         LineTakes(p, b, LineText(r, 0), LineStart(r, 1), n), LineStart(r, 1) = 3,
         NEW q, q = headerTurn(p)
  PROVE  InTop(r, b, n, 1, q)
<1>1. PICK g : g = getLine(p)
  OBVIOUS
<1>2. hasLine(p) /\ line(p) = StatusLine /\ At(g, b, 3, n) /\ IsParser(g) /\ SameTop(p, g) /\ SameBody(p, g)
  BY <1>1, TopEnds DEF LineTakes
<1>3. q = [g EXCEPT !.hasStatus = (line(p) = StatusLine), !.statusLineEndIndex = g.currentByteIdx - 2]
  BY <1>1, <1>2 DEF headerTurn, InTop
<1>4. q = [g EXCEPT !.hasStatus = TRUE, !.statusLineEndIndex = 1]
  <2>1. g.currentByteIdx - 2 = 1 /\ (line(p) = StatusLine) = TRUE
    BY <1>2 DEF At
  <2> QED BY ONLY <1>3, <2>1
<1>5. IsParser(q)
  BY ONLY <1>2, <1>4 DEF IsParser, Fields
<1>6. /\ q.hasStatus = TRUE /\ q.statusLineEndIndex = 1 /\ q.headers = g.headers
      /\ q.isChunked = g.isChunked /\ q.headersComplete = g.headersComplete /\ q.thrown = g.thrown
  BY ONLY <1>2, <1>4 DEF IsParser, Fields
<1>7. SameBody(g, q) /\ At(q, b, 3, n)
  BY ONLY <1>2, <1>4 DEF IsParser, Fields, SameBody, At
<1>8. HeadersAre(r, 1, q.headers)
  <2>1. HeadersAre(r, 0, q.headers)
    BY <1>2, <1>6 DEF SameTop, InTop
  <2>2. Keys(r, 0) = {} /\ Keys(r, 1) = {}
    BY DEF Keys
  <2>3. 1 .. 1 - 1 = {} /\ 1 .. 0 - 1 = {}
    OBVIOUS
  <2> QED BY ONLY <2>1, <2>2, <2>3 DEF HeadersAre
<1>9. q.isChunked = FALSE /\ q.headersComplete = FALSE /\ q.thrown = FALSE
  BY <1>2, <1>6 DEF SameTop, InTop
<1>10. q.left = 0 /\ q.chunks = <<>> /\ q.bodyStartIndex = 0 /\ q.body = <<>> /\ q.complete = FALSE
  BY <1>2, <1>7 DEF SameBody, InTop
<1>11. At(q, b, LineStart(r, 1), n)
  BY <1>7
<1> QED BY ONLY <1>5, <1>6, <1>8, <1>9, <1>10, <1>11 DEF InTop

\* A header is taken.
LEMMA HeaderTaken ==
  ASSUME NEW r \in Responses, NEW m, MessageHolds(r, m), NEW b, NEW n \in Nat,
         NEW k \in 1 .. LinesOf(r) - 1, NEW p, InTop(r, b, n, k, p),
         LineTakes(p, b, LineText(r, k), LineStart(r, k + 1), n),
         NEW q, q = headerTurn(p)
  PROVE  InTop(r, b, n, k + 1, q)
<1>1. PICK g, l, c, d, j : /\ g = getLine(p) /\ l = LineText(r, k) /\ c = LineStart(r, k)
                           /\ d = LineStart(r, k + 1) /\ j = k + 1
  OBVIOUS
<1>2. hasLine(p) /\ line(p) = l /\ At(g, b, d, n) /\ IsParser(g) /\ SameTop(p, g) /\ SameBody(p, g)
  BY <1>1 DEF LineTakes
<1>3. LinesOf(r) \in Nat /\ k \in 0 .. LinesOf(r) /\ k # 0 /\ j # 0
  BY <1>1, TopEnds
<1>4. c \in Nat /\ d = c + Len(l) + 2 /\ l \in Seq(Byte)
  <2>1. TopLine(r, m, k)
    BY <1>3, TopLines
  <2> QED BY <1>1, <2>1 DEF TopLine
<1>5. l # <<>>
  <2>1. CASE k <= Len(r.head)
    <3>1. l = <<r.head[k]>>
      BY <1>1, <1>3, <2>1 DEF LineText
    <3> QED BY <3>1
  <2>2. CASE ~(k <= Len(r.head))
    <3>1. l = FramingLine(r)
      BY <1>1, <1>3, <2>2 DEF LineText
    <3>2. <<Length, Digit(Len(r.body))>> # <<>> /\ <<Transfer>> # <<>>
      OBVIOUS
    <3> QED BY <3>1, <3>2 DEF FramingLine
  <2> QED BY <2>1, <2>2
<1>6. p.hasStatus = TRUE /\ p.headersComplete = FALSE
  BY <1>3 DEF InTop
<1>7. q = header(p)
  BY ONLY <1>2, <1>5, <1>6, q = headerTurn(p) DEF headerTurn
<1>8. Len(l) \in Nat /\ g.currentByteIdx = d
  BY ONLY <1>2, <1>4 DEF At
<1>9. g.currentByteIdx - Len(l) - 2 = c /\ g.currentByteIdx - 2 = c + Len(l)
  BY ONLY <1>4, <1>8
<1>10. PICK x : x = set(g.headers, LineKey(r, k), HeaderOf(r, k))
  OBVIOUS
<1>11. q = [g EXCEPT !.headers = x]
  BY ONLY <1>1, <1>2, <1>7, <1>9, <1>10 DEF header, HeaderOf, LineKey
<1>12. HeadersAre(r, j, x)
  <2>1. HeadersAre(r, k, g.headers)
    BY <1>2 DEF SameTop, InTop
  <2> QED BY ONLY <1>1, <1>10, <2>1, HeadersGrow, r \in Responses, k \in 1 .. LinesOf(r) - 1
<1>13. IsParser(q)
  BY ONLY <1>2, <1>11 DEF IsParser, Fields
<1>14. /\ q.headers = x /\ q.hasStatus = g.hasStatus /\ q.statusLineEndIndex = g.statusLineEndIndex
       /\ q.isChunked = g.isChunked /\ q.headersComplete = g.headersComplete /\ q.thrown = g.thrown
  BY ONLY <1>2, <1>11 DEF IsParser, Fields
<1>15. SameBody(g, q) /\ At(q, b, d, n)
  BY ONLY <1>2, <1>11 DEF IsParser, Fields, SameBody, At
<1>16. q.isChunked = FALSE /\ q.headersComplete = FALSE /\ q.thrown = FALSE
  BY <1>2, <1>14 DEF SameTop, InTop
<1>17. q.hasStatus = TRUE /\ q.statusLineEndIndex = 1
  BY <1>2, <1>3, <1>14 DEF SameTop, InTop
<1>18. q.left = 0 /\ q.chunks = <<>> /\ q.bodyStartIndex = 0 /\ q.body = <<>> /\ q.complete = FALSE
  BY <1>2, <1>15 DEF SameBody, InTop
<1>19. At(q, b, LineStart(r, j), n) /\ HeadersAre(r, j, q.headers)
  BY <1>1, <1>12, <1>14, <1>15
<1>20. InTop(r, b, n, j, q)
  BY ONLY <1>3, <1>13, <1>16, <1>17, <1>18, <1>19 DEF InTop
<1> QED BY <1>1, <1>20

\* The empty line is taken.
LEMMA EndTaken ==
  ASSUME NEW r \in Responses, NEW b, NEW n \in Nat,
         NEW k, k = LinesOf(r), NEW p, InTop(r, b, n, k, p),
         LineTakes(p, b, LineText(r, k), LineStart(r, k + 1), n),
         NEW q, q = headerTurn(p)
  PROVE  AfterTop(r, b, n, q)
<1>1. PICK g, hs : g = getLine(p) /\ hs = p.headers
  OBVIOUS
<1>2. /\ hasLine(p) /\ line(p) = <<>> /\ At(g, b, BodyStart(r), n)
      /\ IsParser(g) /\ SameTop(p, g) /\ SameBody(p, g)
  BY <1>1, TopEnds DEF LineTakes
<1>3. k # 0 /\ p.hasStatus = TRUE /\ p.headersComplete = FALSE
  BY TopEnds DEF InTop
<1>4. q = headersEnd(p)
  BY ONLY <1>2, <1>3, q = headerTurn(p) DEF headerTurn
<1>5. PICK g2 : g2 = [g EXCEPT !.headersComplete = TRUE]
  OBVIOUS
<1>6. /\ IsParser(g2) /\ g2.headersComplete = TRUE /\ g2.hasStatus = g.hasStatus
      /\ g2.statusLineEndIndex = g.statusLineEndIndex /\ g2.headers = g.headers
      /\ g2.isChunked = g.isChunked /\ g2.thrown = g.thrown
  BY ONLY <1>2, <1>5 DEF IsParser, Fields
<1>7. SameBody(g, g2) /\ SameBytes(g, g2)
  BY ONLY <1>2, <1>5 DEF IsParser, Fields, SameBody, SameBytes
<1>8. /\ g2.hasStatus = TRUE /\ g2.statusLineEndIndex = 1 /\ g2.headers = hs /\ HeadersAre(r, LinesOf(r), hs)
      /\ g2.isChunked = FALSE /\ g2.thrown = FALSE
  BY <1>1, <1>2, <1>3, <1>6 DEF SameTop, InTop
<1>9. g2.left = 0 /\ g2.chunks = <<>> /\ g2.bodyStartIndex = 0 /\ g2.body = <<>> /\ g2.complete = FALSE
  BY <1>2, <1>7 DEF SameBody, InTop
<1>10. At(g2, b, BodyStart(r), n)
  BY <1>2, <1>7 DEF At, SameBytes
<1>11. DOMAIN hs = Keys(r, LinesOf(r))
  BY <1>8 DEF HeadersAre
<1>12. q = CASE Transfer \in DOMAIN hs -> [g2 EXCEPT !.isChunked = TRUE]
             [] Transfer \notin DOMAIN hs /\ Length \in DOMAIN hs ->
                  [g2 EXCEPT !.left = Value(hs[Length].value[1])]
             [] OTHER -> [g2 EXCEPT !.left = -1]
  BY <1>1, <1>4, <1>5 DEF headersEnd
<1>13. CASE r.framing = "chunked"
  <2>1. q = [g2 EXCEPT !.isChunked = TRUE]
    <3>1. Transfer \in DOMAIN hs
      BY <1>11, <1>13, KeysAre
    <3> QED BY ONLY <1>12, <3>1
  <2>2. /\ IsParser(q) /\ q.isChunked = TRUE /\ q.hasStatus = TRUE /\ q.statusLineEndIndex = 1
        /\ q.headers = hs /\ q.headersComplete = TRUE /\ q.thrown = FALSE
    BY ONLY <1>6, <1>8, <2>1 DEF IsParser, Fields
  <2>3. q.left = 0 /\ q.chunks = <<>> /\ q.bodyStartIndex = 0 /\ q.body = <<>> /\ q.complete = FALSE
    BY ONLY <1>6, <1>9, <2>1 DEF IsParser, Fields
  <2>4. At(q, b, BodyStart(r), n)
    BY ONLY <1>6, <1>10, <2>1 DEF IsParser, Fields, At
  <2>5. LeftOf(r) = 0
    BY <1>13 DEF LeftOf
  <2> QED BY ONLY <1>8, <1>13, <2>2, <2>3, <2>4, <2>5 DEF AfterTop, PastTop
<1>14. CASE r.framing # "chunked"
  <2>1. PICK x : x = LeftOf(r)
    OBVIOUS
  <2>2. Transfer \notin DOMAIN hs
    BY <1>11, <1>14, KeysAre
  <2>3. q = [g2 EXCEPT !.left = x]
    <3>1. CASE r.framing = "length"
      <4>1. PICK j : j = LinesOf(r) - 1
        OBVIOUS
      <4>2. j \in 1 .. LinesOf(r) - 1 /\ LineKey(r, j) = Length /\ Tail(LineText(r, j)) = <<Digit(Len(r.body))>>
            /\ Length \in DOMAIN hs
        BY <1>11, <3>1, <4>1, KeysAre
      <4>3. hs[Length] = HeaderOf(r, j)
        BY <1>8, <4>2 DEF HeadersAre
      <4>4. hs[Length].value = <<Digit(Len(r.body))>>
        BY <4>2, <4>3 DEF HeaderOf
      <4>5. hs[Length].value[1] = Digit(Len(r.body))
        BY ONLY <4>4
      <4>6. Len(r.body) \in 0 .. Len(Digits) - 1
        BY <3>1, ResponseIs, DigitIs
      <4>7. Value(hs[Length].value[1]) = x
        BY <2>1, <3>1, <4>5, <4>6, DigitIs DEF LeftOf
      <4> QED BY ONLY <1>12, <2>2, <4>2, <4>7
    <3>2. CASE r.framing # "length"
      <4>1. Length \notin DOMAIN hs
        BY <1>11, <3>2, KeysAre
      <4>2. x = -1
        BY <1>14, <2>1, <3>2 DEF LeftOf
      <4> QED BY ONLY <1>12, <2>2, <4>1, <4>2
    <3> QED BY <3>1, <3>2
  <2>4. /\ IsParser(q) /\ q.isChunked = FALSE /\ q.hasStatus = TRUE /\ q.statusLineEndIndex = 1
        /\ q.headers = hs /\ q.headersComplete = TRUE /\ q.thrown = FALSE
    BY ONLY <1>6, <1>8, <2>3 DEF IsParser, Fields
  <2>5. q.left = x /\ q.chunks = <<>> /\ q.bodyStartIndex = 0 /\ q.body = <<>> /\ q.complete = FALSE
    BY ONLY <1>6, <1>9, <2>3 DEF IsParser, Fields
  <2>6. At(q, b, BodyStart(r), n)
    BY ONLY <1>6, <1>10, <2>3 DEF IsParser, Fields, At
  <2> QED BY ONLY <1>8, <1>14, <2>1, <2>4, <2>5, <2>6 DEF AfterTop, PastTop
<1> QED BY <1>13, <1>14

\* What has come of a body that ends with the stream has no line.
LEMMA NoLineInBody ==
  ASSUME NEW r \in Responses, r.framing = "close", NEW m, MessageHolds(r, m), NEW b, b = BytesOf(m),
         NEW n \in Nat, BodyStart(r) <= n, n <= Len(m), NEW p, p.remaining = SubSeq(b, BodyStart(r) + 1, n)
  PROVE  ~hasLine(p)
<1>1. PICK t, y, e : t = p.remaining /\ y = r.body /\ e = BodyStart(r)
  OBVIOUS
<1>2. /\ m \in Seq(Piece) /\ b \in Seq(Byte) /\ Len(b) = Len(m) /\ \A i \in 1 .. Len(m) : b[i] = m[i].byte
  BY BytesAre DEF MessageHolds
<1>3. e \in Nat /\ y \in Seq(Byte) /\ Len(y) \in Nat /\ LineEnds(y) = {}
  BY <1>1, PlacesAre, ResponseIs DEF MessageHolds, hasPlainStream
<1>4. Len(m) = e + Len(y) /\ BodyIn(m, e, y, 0)
  BY <1>1 DEF MessageHolds
<1>5. t \in Seq(Byte) /\ Len(t) = n - e /\ \A i \in 1 .. n - e : t[i] = b[e + i]
  BY ONLY <1>1, <1>2, <1>3, Between, n \in Nat, BodyStart(r) <= n, n <= Len(m), p.remaining = SubSeq(b, BodyStart(r) + 1, n)
<1>6. ASSUME NEW i \in 1 .. n - e PROVE t[i] = y[i] /\ i \in 1 .. Len(y)
  <2>1. i \in 1 .. Len(y)
    BY ONLY <1>1, <1>3, <1>4, n \in Nat, n <= Len(m), i \in 1 .. n - e
  <2>2. PICK k : k = e + i
    OBVIOUS
  <2>3. k \in 1 .. Len(m)
    BY ONLY <1>3, <1>4, <2>1, <2>2
  <2>4. m[k].byte = y[i]
    BY ONLY <1>4, <2>1, <2>2 DEF BodyIn
  <2> QED BY ONLY <1>2, <1>5, <2>1, <2>2, <2>3, <2>4, i \in 1 .. n - e
<1>7. ASSUME NEW i \in LineEnds(t) PROVE FALSE
  <2>1. i \in 1 .. Len(t) - 1 /\ t[i] = CR /\ t[i + 1] = LF
    BY DEF LineEnds
  <2>2. i \in 1 .. n - e /\ i + 1 \in 1 .. n - e
    BY ONLY <1>3, <1>5, <2>1, n \in Nat
  <2>3. i + 1 \in 1 .. Len(y) /\ y[i] = CR /\ y[i + 1] = LF
    BY ONLY <1>6, <2>1, <2>2
  <2>4. i \in 1 .. Len(y) - 1
    BY ONLY <1>3, <2>1, <2>3
  <2> QED BY ONLY <1>3, <2>3, <2>4 DEF LineEnds
<1> QED BY <1>1, <1>7 DEF hasLine

\* One turn of the loop over the lines before the body.
LEMMA HeaderTurn ==
  ASSUME NEW r \in Responses, NEW m, MessageHolds(r, m), NEW b, b = BytesOf(m),
         NEW n \in Nat, n <= Len(m), NEW k \in 0 .. LinesOf(r), NEW p, InTop(r, b, n, k, p),
         LineStart(r, k) <= n, NEW q, q = headerTurn(p)
  PROVE  /\ LineStart(r, k + 1) > n => q = p
         /\ LineStart(r, k + 1) <= n /\ k < LinesOf(r) => InTop(r, b, n, k + 1, q)
         /\ LineStart(r, k + 1) <= n /\ k = LinesOf(r) => AfterTop(r, b, n, q)
<1>1. PICK l, c, d, pt : l = LineText(r, k) /\ c = LineStart(r, k) /\ d = LineStart(r, k + 1) /\ pt = LinePart(r, k)
  OBVIOUS
<1>2. TopLine(r, m, k)
  BY TopLines
<1>3. /\ c \in Nat /\ d = c + Len(l) + 2 /\ l \in Seq(Byte) /\ \A i \in 1 .. Len(l) : l[i] # CR
      /\ LineAt(m, c, l, pt)
  BY <1>1, <1>2 DEF TopLine
<1>4. m \in Seq(Piece) /\ IsParser(p) /\ At(p, b, c, n) /\ c <= n
  BY <1>1 DEF MessageHolds, InTop
<1>5. /\ d <= n => LineTakes(p, b, l, d, n)
      /\ d > n => ~hasLine(p)
  BY ONLY <1>3, <1>4, LineTaken, b = BytesOf(m), n \in Nat, n <= Len(m)
<1>6. ASSUME d > n PROVE q = p
  BY <1>5, <1>6 DEF headerTurn
<1>7. ASSUME d <= n PROVE LineTakes(p, b, LineText(r, k), LineStart(r, k + 1), n)
  BY <1>1, <1>5, <1>7
<1>8. ASSUME d <= n, k < LinesOf(r) PROVE InTop(r, b, n, k + 1, q)
  <2>1. CASE k = 0
    <3>1. LineStart(r, 1) = 3
      BY ResponseIs DEF LineStart
    <3>2. InTop(r, b, n, 0, p) /\ LineTakes(p, b, LineText(r, 0), LineStart(r, 1), n)
      BY <1>7, <1>8, <2>1
    <3>3. InTop(r, b, n, 1, q)
      BY ONLY <3>1, <3>2, StatusTurn, r \in Responses, n \in Nat, q = headerTurn(p)
    <3> QED BY <2>1, <3>3
  <2>2. CASE k # 0
    <3>1. k \in 1 .. LinesOf(r) - 1
      BY <1>8, <2>2, TopEnds
    <3>2. LineTakes(p, b, LineText(r, k), LineStart(r, k + 1), n)
      BY <1>7, <1>8
    <3> QED BY ONLY <3>1, <3>2, HeaderTaken, r \in Responses, MessageHolds(r, m), n \in Nat,
                    InTop(r, b, n, k, p), q = headerTurn(p)
  <2> QED BY <2>1, <2>2
<1>9. ASSUME d <= n, k = LinesOf(r) PROVE AfterTop(r, b, n, q)
  <2>1. LineTakes(p, b, LineText(r, k), LineStart(r, k + 1), n)
    BY <1>7, <1>9
  <2> QED BY ONLY <1>9, <2>1, EndTaken, r \in Responses, n \in Nat, InTop(r, b, n, k, p), q = headerTurn(p)
<1>10. d \in Nat
  BY <1>3
<1> QED BY <1>1, <1>6, <1>8, <1>9, <1>10

\* The loop stops after the empty line.
LEMMA HeadersAreRead ==
  ASSUME NEW r \in Responses, NEW m, MessageHolds(r, m), NEW b, b = BytesOf(m),
         NEW n \in Nat, n <= Len(m), BodyStart(r) <= n, NEW p, AfterTop(r, b, n, p)
  PROVE  headerTurn(p) = p
<1>1. CASE r.framing = "close"
  <2>1. ~hasLine(p)
    <3>1. p.remaining = SubSeq(b, BodyStart(r) + 1, n)
      BY DEF AfterTop, At
    <3> QED BY <1>1, <3>1, NoLineInBody
  <2> QED BY <2>1 DEF headerTurn
<1>2. CASE r.framing # "close"
  <2>1. p.headersComplete = TRUE /\ (p.isChunked = TRUE \/ p.left # -1)
    <3>1. r.framing = "chunked" \/ LeftOf(r) # -1
      BY <1>2, ResponseIs DEF LeftOf, Framing
    <3> QED BY <3>1 DEF AfterTop, PastTop
  <2> QED BY <2>1 DEF headerTurn
<1> QED BY <1>1, <1>2

-----------------------------------------------------------------------------
(* The loop over the lines before the body.                                 *)

\* f[j] is the parser after j turns.
HeaderTurns(f, p, turns) ==
  f[0] = p /\ \A j \in 1 .. turns : f[j] = headerTurn(f[j - 1])

\* readHeaders, as a sequence of turns.
LEMMA HeaderLoop ==
  ASSUME NEW p, NEW turns \in Nat, turns = Len(p.remaining)
  PROVE  \E f : HeaderTurns(f, p, turns) /\ readHeaders(p) = f[turns]
<1> DEFINE P == {m \in Nat : \E f : f = [j \in 0 .. m |-> IF j = 0 THEN p ELSE headerTurn(f[j - 1])]}
<1>1. 0 \in P
  <2> DEFINE f == [j \in 0 .. 0 |-> p]
  <2>1. \A j \in 0 .. 0 : j = 0
    OBVIOUS
  <2>2. f = [j \in 0 .. 0 |-> IF j = 0 THEN p ELSE headerTurn(f[j - 1])]
    BY ONLY <2>1
  <2> QED BY <2>2
<1>2. ASSUME NEW m \in Nat, m \in P PROVE m + 1 \in P
  <2>1. PICK f : f = [j \in 0 .. m |-> IF j = 0 THEN p ELSE headerTurn(f[j - 1])]
    BY <1>2
  <2>2. PICK last : last = headerTurn(f[m])
    OBVIOUS
  <2> DEFINE g == [j \in 0 .. m + 1 |-> IF j = m + 1 THEN last ELSE f[j]]
  <2>3. ASSUME NEW j \in 0 .. m + 1
        PROVE  g[j] = IF j = 0 THEN p ELSE headerTurn(g[j - 1])
    <3>1. CASE j = 0
      <4>1. j # m + 1 /\ j \in 0 .. m
        BY <3>1
      <4> QED BY <2>1, <3>1, <4>1
    <3>2. CASE j # 0 /\ j # m + 1
      <4>1. j \in 0 .. m /\ j - 1 \in 0 .. m + 1 /\ j - 1 # m + 1
        BY <3>2
      <4>2. g[j] = f[j] /\ g[j - 1] = f[j - 1]
        BY <3>2, <4>1
      <4>3. f[j] = headerTurn(f[j - 1])
        BY <2>1, <3>2, <4>1
      <4> QED BY ONLY <3>2, <4>2, <4>3
    <3>3. CASE j = m + 1
      <4>1. j - 1 = m /\ m \in 0 .. m + 1 /\ m # m + 1 /\ j # 0
        BY <3>3
      <4>2. g[j] = last /\ g[j - 1] = f[m]
        BY <3>3, <4>1
      <4> QED BY ONLY <2>2, <4>1, <4>2
    <3> QED BY <3>1, <3>2, <3>3
  <2>4. g = [j \in 0 .. m + 1 |-> g[j]]
    OBVIOUS
  <2> HIDE DEF g
  <2>5. g = [j \in 0 .. m + 1 |-> IF j = 0 THEN p ELSE headerTurn(g[j - 1])]
    BY ONLY <2>3, <2>4
  <2> QED BY <2>5
<1> HIDE DEF P
<1>3. turns \in P
  BY <1>1, <1>2, InductionOverNat
<1>4. PICK f : f = [j \in 0 .. turns |-> IF j = 0 THEN p ELSE headerTurn(f[j - 1])]
  BY <1>3 DEF P
<1> DEFINE read[j \in 0 .. turns] == IF j = 0 THEN p ELSE headerTurn(read[j - 1])
<1>5. read = [j \in 0 .. turns |-> IF j = 0 THEN p ELSE headerTurn(read[j - 1])]
  BY <1>4
<1>6. readHeaders(p) = read[turns]
  BY turns = Len(p.remaining) DEF readHeaders
<1> HIDE DEF read
<1>7. read[0] = p
  BY ONLY <1>5, turns \in Nat
<1>8. \A j \in 1 .. turns : j \in 0 .. turns /\ j # 0
  OBVIOUS
<1>9. \A j \in 1 .. turns : read[j] = headerTurn(read[j - 1])
  BY ONLY <1>5, <1>8
<1> QED BY <1>6, <1>7, <1>9 DEF HeaderTurns

\* The top has been read as far as n bytes have it, but for g turns at most.
TopRead(r, b, n, g, p) ==
  \/ AfterTop(r, b, n, p) /\ BodyStart(r) <= n
  \/ \E k \in 0 .. LinesOf(r) :
       /\ InTop(r, b, n, k, p) /\ LineStart(r, k) <= n
       /\ n < LineStart(r, k + 1) \/ n - LineStart(r, k) <= g

\* A turn over the lines reads the next one, or is over.
LEMMA TopReadTurn ==
  ASSUME NEW r \in Responses, NEW m, MessageHolds(r, m), NEW b, b = BytesOf(m),
         NEW n \in Nat, n <= Len(m), NEW g \in Nat, NEW h \in Nat, g <= h + 1, NEW p, TopRead(r, b, n, g, p),
         NEW q, q = headerTurn(p)
  PROVE  TopRead(r, b, n, h, q)
<1>1. CASE AfterTop(r, b, n, p) /\ BodyStart(r) <= n
  <2>1. q = p
    BY <1>1, HeadersAreRead
  <2> QED BY <1>1, <2>1 DEF TopRead
<1>2. CASE \E k \in 0 .. LinesOf(r) :
             /\ InTop(r, b, n, k, p) /\ LineStart(r, k) <= n
             /\ n < LineStart(r, k + 1) \/ n - LineStart(r, k) <= g
  <2>1. PICK k \in 0 .. LinesOf(r) :
             /\ InTop(r, b, n, k, p) /\ LineStart(r, k) <= n
             /\ n < LineStart(r, k + 1) \/ n - LineStart(r, k) <= g
    BY <1>2
  <2>2. TopLine(r, m, k)
    BY TopLines
  <2>3. PICK c, d, w : c = LineStart(r, k) /\ d = LineStart(r, k + 1) /\ w = Len(LineText(r, k))
    OBVIOUS
  <2>4. c \in Nat /\ w \in Nat /\ d = c + w + 2
    BY <2>2, <2>3 DEF TopLine
  <2>5. /\ d > n => q = p
        /\ d <= n /\ k < LinesOf(r) => InTop(r, b, n, k + 1, q)
        /\ d <= n /\ k = LinesOf(r) => AfterTop(r, b, n, q)
    BY <2>1, <2>3, HeaderTurn
  <2>6. CASE d > n
    BY <2>1, <2>3, <2>4, <2>5, <2>6 DEF TopRead
  <2>7. CASE d <= n /\ k < LinesOf(r)
    <3>1. PICK j : j = k + 1
      OBVIOUS
    <3>2. j \in 0 .. LinesOf(r) /\ InTop(r, b, n, j, q) /\ LineStart(r, j) = d
      BY <2>3, <2>5, <2>7, <3>1, TopEnds
    <3>3. n - c <= g
      BY <2>1, <2>3, <2>4, <2>7
    <3>4. n - d <= h
      BY <2>4, <3>3
    <3> QED BY <2>7, <3>2, <3>4 DEF TopRead
  <2>8. CASE d <= n /\ k = LinesOf(r)
    <3>1. d = BodyStart(r)
      BY <2>3, <2>8, TopEnds
    <3> QED BY <2>5, <2>8, <3>1 DEF TopRead
  <2>9. d \in Nat /\ LinesOf(r) \in Nat
    BY <2>4, TopEnds
  <2> QED BY <2>6, <2>7, <2>8, <2>9
<1> QED BY <1>1, <1>2 DEF TopRead

\* The lines that have come are read.
LEMMA TopIsRead ==
  ASSUME NEW r \in Responses, NEW m, MessageHolds(r, m), NEW b, b = BytesOf(m),
         NEW n \in Nat, n <= Len(m), NEW k \in 0 .. LinesOf(r), NEW p, InTop(r, b, n, k, p),
         LineStart(r, k) <= n, NEW q, q = readHeaders(p)
  PROVE  TopRead(r, b, n, 0, q)
<1>1. PICK c : c = LineStart(r, k)
  OBVIOUS
<1>2. c \in Nat /\ c <= n
  BY <1>1, TopLines DEF TopLine
<1>3. b \in Seq(Byte) /\ Len(b) = Len(m)
  BY BytesAre DEF MessageHolds
<1>4. PICK turns : turns = Len(p.remaining)
  OBVIOUS
<1>5. turns = n - c
  <2>1. p.remaining = SubSeq(b, c + 1, n)
    BY <1>1 DEF InTop, At
  <2> QED BY ONLY <1>2, <1>3, <1>4, <2>1, Between, n \in Nat, n <= Len(m)
<1>6. turns \in Nat
  BY <1>2, <1>5
<1>7. PICK f : HeaderTurns(f, p, turns) /\ readHeaders(p) = f[turns]
  BY ONLY <1>4, <1>6, HeaderLoop
<1>8. f[0] = p /\ \A j \in 1 .. turns : f[j] = headerTurn(f[j - 1])
  BY <1>7 DEF HeaderTurns
<1> DEFINE P == {j \in Nat : j <= turns => TopRead(r, b, n, turns - j, f[j])}
<1>9. 0 \in P
  <2>1. n - LineStart(r, k) <= turns /\ turns - 0 = turns
    BY <1>1, <1>2, <1>5
  <2>2. TopRead(r, b, n, turns, p)
    BY <1>1, <1>2, <2>1 DEF TopRead
  <2> QED BY <1>8, <2>1, <2>2
<1>10. ASSUME NEW j \in Nat, j \in P PROVE j + 1 \in P
  <2> SUFFICES ASSUME j + 1 <= turns PROVE TopRead(r, b, n, turns - (j + 1), f[j + 1])
    OBVIOUS
  <2>1. PICK g, h, x, y : g = turns - j /\ h = turns - (j + 1) /\ x = f[j] /\ y = f[j + 1]
    OBVIOUS
  <2>2. g \in Nat /\ h \in Nat /\ g <= h + 1 /\ j <= turns
    BY <1>6, <2>1
  <2>3. TopRead(r, b, n, g, x)
    BY <1>10, <2>1, <2>2
  <2>4. y = headerTurn(x)
    <3>1. j + 1 \in 1 .. turns /\ (j + 1) - 1 = j
      BY <1>6
    <3> QED BY <1>8, <2>1, <3>1
  <2>5. TopRead(r, b, n, h, y)
    BY ONLY <2>2, <2>3, <2>4, TopReadTurn, r \in Responses, MessageHolds(r, m), b = BytesOf(m), n \in Nat, n <= Len(m)
  <2> QED BY <2>1, <2>5
<1> HIDE DEF P
<1>11. turns \in P
  BY <1>6, <1>9, <1>10, InductionOverNat
<1>12. TopRead(r, b, n, turns - turns, f[turns])
  BY <1>6, <1>11 DEF P
<1>13. turns - turns = 0
  BY <1>6
<1> QED BY <1>7, <1>12, <1>13

-----------------------------------------------------------------------------
(* The bytes of the body.                                                   *)

\* Sequences that agree between two places have the same part there.
LEMMA SameBetween ==
  ASSUME NEW X, NEW s \in Seq(X), NEW t \in Seq(X), NEW c \in Nat, NEW d \in Nat, NEW w \in Nat,
         c + w <= Len(s), d + w <= Len(t), \A i \in 1 .. w : s[c + i] = t[d + i]
  PROVE  SubSeq(s, c + 1, c + w) = SubSeq(t, d + 1, d + w)
<1>1. PICK e, f, u, v : e = c + w /\ f = d + w /\ u = SubSeq(s, c + 1, e) /\ v = SubSeq(t, d + 1, f)
  OBVIOUS
<1>2. e \in Nat /\ f \in Nat /\ c <= e /\ d <= f /\ e - c = w /\ f - d = w /\ e <= Len(s) /\ f <= Len(t)
  BY ONLY <1>1, c \in Nat, d \in Nat, w \in Nat, c + w <= Len(s), d + w <= Len(t)
<1>3. u \in Seq(X) /\ Len(u) = e - c /\ \A i \in 1 .. e - c : u[i] = s[c + i]
  BY ONLY <1>1, <1>2, Between, s \in Seq(X), c \in Nat
<1>4. v \in Seq(X) /\ Len(v) = f - d /\ \A i \in 1 .. f - d : v[i] = t[d + i]
  BY ONLY <1>1, <1>2, Between, t \in Seq(X), d \in Nat
<1>5. Len(u) = Len(v) /\ \A i \in 1 .. Len(u) : u[i] = v[i]
  BY ONLY <1>2, <1>3, <1>4, \A i \in 1 .. w : s[c + i] = t[d + i]
<1>6. u = v
  BY ONLY <1>3, <1>4, <1>5, SameElements
<1> QED BY ONLY <1>1, <1>6

\* w bytes of the body are taken: those that are left, if they are there.
Takes(p, there, w) ==
  IF p.left = -1 THEN w = there ELSE w <= p.left /\ w <= there /\ (w = p.left \/ w = there)

\* q has taken w bytes more than p, after c bytes.
MoreBody(p, b, c, n, w, q) ==
  /\ IsParser(q) /\ SameTop(p, q) /\ At(q, b, c + w, n)
  /\ q.left = IF p.left = -1 THEN -1 ELSE p.left - w
  /\ q.chunks = p.chunks /\ q.complete = FALSE
  /\ q.bodyStartIndex = IF p.bodyStartIndex = 0 THEN c ELSE p.bodyStartIndex
  /\ q.body = p.body \o SubSeq(b, c + 1, c + w)

\* What readBody takes when it does not throw.
LEMMA BodyRead ==
  ASSUME NEW b \in Seq(Byte), NEW c \in Nat, NEW n \in Nat, c <= n, n <= Len(b),
         NEW p, IsParser(p), At(p, b, c, n), p.complete = FALSE, p.left \in Int, p.left >= -1,
         NEW w \in Nat, Takes(p, n - c, w), NEW q, q = readBody(p)
  PROVE  MoreBody(p, b, c, n, w, q)
<1>1. PICK t, v, z, start, left : /\ t = p.remaining /\ v = c + w /\ z = p.body \o SubSeq(t, 1, w)
             /\ start = (IF p.bodyStartIndex = 0 THEN p.currentByteIdx ELSE p.bodyStartIndex)
             /\ left = (IF p.left = -1 THEN -1 ELSE p.left - w)
  OBVIOUS
<1>2. t = SubSeq(b, c + 1, n) /\ p.currentByteIdx = c
  BY <1>1 DEF At
<1>3. Len(t) = n - c
  BY ONLY <1>2, Between, b \in Seq(Byte), c \in Nat, n \in Nat, c <= n, n <= Len(b)
<1>4. w <= n - c /\ v \in Nat /\ v <= n
  <2>1. w <= n - c
    BY DEF Takes
  <2> QED BY <1>1, <2>1
<1>5. (IF p.left = -1 THEN Len(t) ELSE Min({p.left, Len(t)})) = w
  <2>1. CASE p.left = -1
    BY <1>3, <2>1 DEF Takes
  <2>2. CASE p.left # -1
    <3>1. PICK l, h : l = p.left /\ h = Len(t)
      OBVIOUS
    <3>2. l \in Nat /\ h \in Nat /\ w <= l /\ w <= h /\ (w = l \/ w = h)
      BY <1>3, <2>2, <3>1 DEF Takes
    <3>3. w \in {l, h} /\ \A x \in {l, h} : w <= x
      BY ONLY <3>2, w \in Nat
    <3>4. \A y \in {l, h} : (\A x \in {l, h} : y <= x) => y = w
      BY ONLY <3>2, w \in Nat
    <3>5. Min({l, h}) = w
      BY ONLY <3>3, <3>4 DEF Min
    <3> QED BY <2>2, <3>1, <3>5
  <2> QED BY <2>1, <2>2
<1>6. PICK g : g = take(p, w)
  OBVIOUS
<1>7. /\ IsParser(g) /\ SameTop(p, g) /\ SameBody(p, g)
      /\ g.remaining = SubSeq(t, w + 1, Len(t)) /\ g.currentByteIdx = p.currentByteIdx + w
  BY ONLY <1>1, <1>6, TakeIs, IsParser(p)
<1>8. /\ SubSeq(t, w + 1, Len(t)) = SubSeq(b, c + w + 1, n)
      /\ SubSeq(t, 1, w) = SubSeq(b, c + 1, c + w)
  <2>1. c + w <= n
    BY <1>1, <1>4
  <2> QED BY ONLY <1>2, <2>1, BetweenTaken, b \in Seq(Byte), c \in Nat, n \in Nat, c <= n, n <= Len(b), w \in Nat
<1>9. q = [g EXCEPT !.bodyStartIndex = start, !.left = left, !.body = z]
  <2>1. q = [take(p, w) EXCEPT
              !.bodyStartIndex = IF @ = 0 THEN p.currentByteIdx ELSE @,
              !.left = IF @ = -1 THEN -1 ELSE @ - w,
              !.body = @ \o SubSeq(p.remaining, 1, w)]
    BY <1>1, <1>5 DEF readBody
  <2>2. g.bodyStartIndex = p.bodyStartIndex /\ g.left = p.left /\ g.body = p.body
    BY <1>7 DEF SameBody
  <2>3. q = [g EXCEPT
              !.bodyStartIndex = IF g.bodyStartIndex = 0 THEN p.currentByteIdx ELSE g.bodyStartIndex,
              !.left = IF g.left = -1 THEN -1 ELSE g.left - w,
              !.body = g.body \o SubSeq(t, 1, w)]
    BY ONLY <1>1, <1>6, <1>7, <2>1 DEF IsParser, Fields
  <2> QED BY ONLY <1>1, <2>2, <2>3
<1>10. IsParser(q)
  BY ONLY <1>7, <1>9 DEF IsParser, Fields
<1>11. SameTop(g, q) /\ SameBytes(g, q)
  BY ONLY <1>7, <1>9 DEF IsParser, Fields, SameTop, SameBytes
<1>12. /\ q.left = left /\ q.bodyStartIndex = start /\ q.body = z
       /\ q.chunks = g.chunks /\ q.complete = g.complete
  BY ONLY <1>7, <1>9 DEF IsParser, Fields
<1>13. SameTop(p, q)
  BY ONLY <1>7, <1>11 DEF SameTop
<1>14. At(q, b, c + w, n)
  BY ONLY <1>2, <1>7, <1>8, <1>11 DEF At, SameBytes
<1>15. q.chunks = p.chunks /\ q.complete = FALSE
  BY ONLY <1>7, <1>12, p.complete = FALSE DEF SameBody
<1>16. q.body = p.body \o SubSeq(b, c + 1, c + w)
  BY ONLY <1>1, <1>8, <1>12
<1> QED BY ONLY <1>1, <1>2, <1>10, <1>12, <1>13, <1>14, <1>15, <1>16 DEF MoreBody

\* The bytes that have come are those of the body.
BodyJoins(y, b, c, e, w) ==
  SubSeq(y, 1, e) \o SubSeq(b, c + 1, c + w) = SubSeq(y, 1, e + w)

\* The body grows by the bytes that are taken of it.
LEMMA BodyGrows ==
  ASSUME NEW y \in Seq(Byte), NEW b \in Seq(Byte), NEW c \in Nat, NEW e \in Nat, NEW w \in Nat,
         c + w <= Len(b), e + w <= Len(y), \A i \in 1 .. w : b[c + i] = y[e + i]
  PROVE  BodyJoins(y, b, c, e, w)
<1>1. SubSeq(b, c + 1, c + w) = SubSeq(y, e + 1, e + w)
  BY SameBetween
<1>2. PICK d : d = e + w
  OBVIOUS
<1>3. d \in Nat /\ 0 <= e /\ e <= d /\ d <= Len(y) /\ 0 \in Nat
  BY ONLY <1>2, e \in Nat, w \in Nat, e + w <= Len(y)
<1>4. SubSeq(y, 0 + 1, e) \o SubSeq(y, e + 1, d) = SubSeq(y, 0 + 1, d)
  BY ONLY <1>3, BetweenJoined, y \in Seq(Byte), e \in Nat
<1>5. 0 + 1 = 1
  OBVIOUS
<1>6. SubSeq(y, 1, e) \o SubSeq(y, e + 1, d) = SubSeq(y, 1, d)
  BY ONLY <1>4, <1>5
<1> QED BY ONLY <1>1, <1>2, <1>6 DEF BodyJoins

-----------------------------------------------------------------------------
(* The parser between the chunks, and in one.                               *)

ChunkRecord(r, i) ==
  [fromIndex |-> ChunkAt(r, i) + 3, toIndex |-> ChunkAt(r, i) + 3 + Size(r, i)]
ChunksTo(r, k) == [i \in 1 .. k |-> ChunkRecord(r, i)]

\* c bytes have been taken, e of them of the body, and j chunks are known.
InBody(r, b, n, c, left, j, e, p) ==
  /\ PastTop(r, p) /\ At(p, b, c, n) /\ p.left = left
  /\ p.chunks = ChunksTo(r, j) /\ p.body = SubSeq(r.body, 1, e)
  /\ j = 0 => p.bodyStartIndex = 0
  /\ j # 0 => p.bodyStartIndex = BodyStart(r) + 3

\* Chunk i comes next; the response ends before chunk Len(r.sizes) + 2.
AtChunk(r, b, n, i, p) ==
  /\ \E j \in 0 .. Len(r.sizes) : /\ InBody(r, b, n, ChunkAt(r, i), 0, j, Before(r, i), p)
                                  /\ j = i - 1 \/ (j = Len(r.sizes) /\ j <= i - 1)
  /\ i = Len(r.sizes) + 2 => p.complete = TRUE
  /\ i # Len(r.sizes) + 2 => p.complete = FALSE

\* w bytes of chunk i have been taken.
InChunk(r, b, n, i, w, p) ==
  /\ \E j \in 0 .. Len(r.sizes) :
       /\ InBody(r, b, n, ChunkAt(r, i) + 3 + w, Size(r, i) - w, j, Before(r, i) + w, p)
       /\ j = i \/ (j = Len(r.sizes) /\ j <= i)
  /\ i = Len(r.sizes) + 1 => p.complete = TRUE
  /\ i # Len(r.sizes) + 1 => p.complete = FALSE

\* The bytes of chunk i that have come have been taken.
Taken(r, n, i, w) ==
  /\ w \in 0 .. Size(r, i) /\ ChunkAt(r, i) + 3 + w <= n
  /\ w = Size(r, i) \/ ChunkAt(r, i) + 3 + w = n

\* The chunks known grow by the next one.
LEMMA ChunksGrow ==
  ASSUME NEW r, NEW j \in Nat, NEW x, x = Append(ChunksTo(r, j), ChunkRecord(r, j + 1))
  PROVE  x = ChunksTo(r, j + 1)
<1>1. PICK s, t, d : s = ChunksTo(r, j) /\ t = ChunksTo(r, j + 1) /\ d = ChunkRecord(r, j + 1)
  OBVIOUS
<1>2. PICK X : X = {ChunkRecord(r, i) : i \in 1 .. j + 1}
  OBVIOUS
<1>3. d \in X /\ \A i \in 1 .. j : ChunkRecord(r, i) \in X
  BY <1>1, <1>2
<1>4. s = [i \in 1 .. j |-> ChunkRecord(r, i)] /\ t = [i \in 1 .. j + 1 |-> ChunkRecord(r, i)]
  BY <1>1 DEF ChunksTo
<1>5. s \in Seq(X) /\ Len(s) = j
  BY ONLY <1>3, <1>4, j \in Nat
<1>6. t \in Seq(X) /\ Len(t) = j + 1
  BY ONLY <1>1, <1>2, <1>3, <1>4, j \in Nat
<1>7. /\ x \in Seq(X) /\ Len(x) = j + 1 /\ x[j + 1] = d
      /\ \A i \in 1 .. j : x[i] = s[i]
  BY ONLY <1>1, <1>3, <1>5, j \in Nat, x = Append(ChunksTo(r, j), ChunkRecord(r, j + 1))
<1>8. ASSUME NEW i \in 1 .. j + 1 PROVE x[i] = t[i]
  <2>1. CASE i = j + 1
    BY ONLY <1>1, <1>4, <1>7, <2>1, j \in Nat
  <2>2. CASE i # j + 1
    <3>1. i \in 1 .. j
      BY <2>2
    <3> QED BY ONLY <1>4, <1>7, <3>1, i \in 1 .. j + 1
  <2> QED BY <2>1, <2>2
<1> QED BY ONLY <1>1, <1>6, <1>7, <1>8, SameElements

\* The bytes of a chunk are bytes of the body.
LEMMA ChunkBytes ==
  ASSUME NEW r \in Responses, r.framing = "chunked", NEW m, MessageHolds(r, m), NEW b, b = BytesOf(m),
         NEW k \in Nat, k = Len(r.sizes), NEW i \in 1 .. k + 1, NEW w \in 1 .. Size(r, i)
  PROVE  b[ChunkAt(r, i) + 3 + w] = r.body[Before(r, i) + w]
<1>1. PICK c, z, e, s, y : c = ChunkAt(r, i) + 3 /\ z = Size(r, i) /\ e = Before(r, i) /\ s = ChunkBody(r, i) /\ y = r.body
  OBVIOUS
<1>2. i \in 1 .. k + 2
  OBVIOUS
<1>3. c \in Nat /\ z \in Nat /\ e \in Nat /\ e + z <= Len(y) /\ s = SubSeq(y, e + 1, e + z)
  <2>1. /\ ChunkAt(r, i) \in Nat /\ z \in Nat /\ e \in Nat /\ Before(r, i + 1) = e + z
    <3>1. ChunkPlaces(r, k)
      BY ChunksAt
    <3> QED BY ONLY <1>1, <1>2, <3>1, i \in 1 .. k + 1 DEF ChunkPlaces
  <2>2. i + 1 \in 1 .. k + 2
    OBVIOUS
  <2>3. Before(r, i + 1) <= Len(y)
    <3>1. ChunkPlaces(r, k)
      BY ChunksAt
    <3> QED BY ONLY <1>1, <2>2, <3>1 DEF ChunkPlaces
  <2>4. s = SubSeq(y, e + 1, e + z)
    BY ONLY <1>1 DEF ChunkBody
  <2>5. c \in Nat
    BY ONLY <1>1, <2>1
  <2> QED BY ONLY <2>1, <2>3, <2>4, <2>5
<1>4. m \in Seq(Piece) /\ BodyIn(m, c, s, e)
  BY <1>1 DEF MessageHolds, ChunkInAt
<1>5. y \in Seq(Byte)
  BY <1>1, ResponseIs
<1>6. Len(s) = z /\ \A x \in 1 .. z : s[x] = y[e + x]
  <2>1. PICK d : d = e + z
    OBVIOUS
  <2>2. d \in Nat /\ e <= d /\ d <= Len(y) /\ d - e = z
    BY <1>3, <2>1
  <2>3. s = SubSeq(y, e + 1, d) /\ e \in Nat
    BY <1>3, <2>1
  <2>4. Len(s) = d - e /\ \A x \in 1 .. d - e : s[x] = y[e + x]
    BY ONLY <1>5, <2>2, <2>3, Between
  <2> QED BY ONLY <2>2, <2>4
<1>7. c + w \in 1 .. Len(m)
  <2>1. c + Len(s) <= Len(m) /\ Len(m) \in Nat
    BY ONLY <1>4 DEF BodyIn
  <2>2. w \in 1 .. z
    BY <1>1
  <2> QED BY ONLY <1>3, <1>6, <2>1, <2>2
<1>8. b[c + w] = m[c + w].byte
  BY <1>4, <1>7, BytesAre
<1>9. m[c + w].byte = s[w] /\ s[w] = y[e + w]
  BY <1>1, <1>4, <1>6 DEF BodyIn
<1> QED BY ONLY <1>1, <1>8, <1>9

\* The line before a chunk is taken, and what has come of the chunk.
LEMMA SizeTurn ==
  ASSUME NEW r \in Responses, r.framing = "chunked", NEW m, MessageHolds(r, m), NEW b, b = BytesOf(m),
         NEW n \in Nat, n <= Len(m), NEW k \in Nat, k = Len(r.sizes), NEW i \in 1 .. k + 1,
         NEW p, AtChunk(r, b, n, i, p), ChunkAt(r, i) <= n, NEW q, q = chunkTurn(p)
  PROVE  /\ n < ChunkAt(r, i) + 3 => q = p
         /\ ChunkAt(r, i) + 3 <= n => \E w \in Nat : Taken(r, n, i, w) /\ InChunk(r, b, n, i, w, q)
<1>1. PICK c, z, e, y, s, d : /\ c = ChunkAt(r, i) /\ z = Size(r, i) /\ e = Before(r, i) /\ y = r.body
                              /\ s = <<Digit(z)>> /\ d = c + 3
  OBVIOUS
<1>2. ChunkPlaces(r, k)
  BY ChunksAt
<1>3. i \in 1 .. k + 2 /\ (i \in 1 .. k \/ i = k + 1)
  OBVIOUS
<1>4. /\ c \in Nat /\ z \in Nat /\ e \in Nat /\ z < Len(Digits) /\ d \in Nat
      /\ i \in 1 .. k => z > 0
      /\ i = k + 1 => z = 0
      /\ Before(r, i + 1) = e + z
  <2>1. /\ ChunkAt(r, i) \in Nat /\ Size(r, i) \in Nat /\ Before(r, i) \in Nat
    BY ONLY <1>2, <1>3 DEF ChunkPlaces
  <2>2. /\ Size(r, i) < Len(Digits) /\ Before(r, i + 1) = Before(r, i) + Size(r, i)
        /\ i \in 1 .. k => Size(r, i) > 0
        /\ Size(r, k + 1) = 0
    BY ONLY <1>2, i \in 1 .. k + 1 DEF ChunkPlaces
  <2> QED BY ONLY <1>1, <2>1, <2>2
<1>5. Len(Digits) \in Nat /\ z \in 0 .. Len(Digits) - 1 /\ 0 \in 0 .. Len(Digits) - 1
  BY ONLY <1>4, DigitIs
<1>6. Digit(z) \in Byte /\ Digit(z) \notin {CR, LF} /\ Value(Digit(z)) = z /\ (Digit(z) = Digit(0) => z = 0)
  BY ONLY <1>5, DigitIs
<1>7. s \in Seq(Byte) /\ Len(s) = 1 /\ s # <<>> /\ s[1] = Digit(z) /\ \A x \in 1 .. Len(s) : s[x] # CR
  BY ONLY <1>1, <1>6
<1>8. m \in Seq(Piece) /\ LineAt(m, c, s, "frame")
  BY <1>1 DEF MessageHolds, ChunkInAt
<1>9. PICK j \in 0 .. k : InBody(r, b, n, c, 0, j, e, p) /\ (j = i - 1 \/ (j = k /\ j <= i - 1))
  BY <1>1 DEF AtChunk
<1>10. p.complete = FALSE
  <2>1. i # Len(r.sizes) + 2
    OBVIOUS
  <2> QED BY <2>1 DEF AtChunk
<1>11. /\ PastTop(r, p) /\ At(p, b, c, n) /\ p.left = 0 /\ p.chunks = ChunksTo(r, j) /\ p.body = SubSeq(y, 1, e)
       /\ j = 0 => p.bodyStartIndex = 0
       /\ j # 0 => p.bodyStartIndex = BodyStart(r) + 3
  BY ONLY <1>1, <1>9 DEF InBody
<1>12. IsParser(p) /\ p.thrown = FALSE
  BY ONLY <1>11 DEF PastTop
<1>13. d = c + Len(s) + 2 /\ c <= n
  BY ONLY <1>1, <1>4, <1>7, ChunkAt(r, i) <= n
<1>14. /\ d <= n => LineTakes(p, b, s, d, n)
       /\ d > n => ~hasLine(p)
  BY ONLY <1>4, <1>7, <1>8, <1>11, <1>12, <1>13, LineTaken, b = BytesOf(m), n \in Nat, n <= Len(m)
<1>15. ASSUME n < d PROVE q = p
  BY <1>4, <1>14, <1>15 DEF chunkTurn
<1>16. ASSUME d <= n PROVE \E w \in Nat : Taken(r, n, i, w) /\ InChunk(r, b, n, i, w, q)
  <2>1. PICK g : g = getLine(p)
    OBVIOUS
  <2>2. hasLine(p) /\ line(p) = s /\ At(g, b, d, n) /\ IsParser(g) /\ SameTop(p, g) /\ SameBody(p, g)
    BY ONLY <1>14, <1>16, <2>1 DEF LineTakes
  <2>3. g.currentByteIdx = d
    BY ONLY <2>2 DEF At
  <2>4. PastTop(r, g)
    BY ONLY <1>11, <2>2 DEF PastTop, SameTop
  <2>5. /\ g.left = 0 /\ g.chunks = ChunksTo(r, j) /\ g.body = SubSeq(y, 1, e) /\ g.complete = FALSE
        /\ g.bodyStartIndex = p.bodyStartIndex
    BY ONLY <1>10, <1>11, <2>2 DEF SameBody
  <2>6. CASE i = k + 1
    <3>1. z = 0 /\ s = <<Digit(0)>>
      BY <1>1, <1>4, <2>6
    <3>2. q = [g EXCEPT !.complete = TRUE]
      BY ONLY <1>7, <1>11, <1>12, <2>1, <2>2, <3>1, q = chunkTurn(p) DEF chunkTurn
    <3>3. IsParser(q) /\ q.complete = TRUE
      BY ONLY <2>2, <3>2 DEF IsParser, Fields
    <3>4. SameTop(g, q) /\ SameBytes(g, q)
      BY ONLY <2>2, <3>2 DEF IsParser, Fields, SameTop, SameBytes
    <3>5. q.left = g.left /\ q.chunks = g.chunks /\ q.body = g.body /\ q.bodyStartIndex = g.bodyStartIndex
      BY ONLY <2>2, <3>2 DEF IsParser, Fields
    <3>6. PastTop(r, q) /\ At(q, b, d, n)
      BY ONLY <2>2, <2>4, <3>3, <3>4 DEF PastTop, SameTop, SameBytes, At
    <3>7. d = c + 3 + 0 /\ z - 0 = 0 /\ e + 0 = e
      BY <1>1, <1>4, <3>1
    <3>8. InBody(r, b, n, c + 3 + 0, z - 0, j, e + 0, q)
      BY ONLY <1>1, <1>11, <2>5, <3>5, <3>6, <3>7 DEF InBody
    <3>9. j = i \/ (j = k /\ j <= i)
      BY ONLY <1>9, <2>6, k \in Nat
    <3>10. InChunk(r, b, n, i, 0, q)
      BY <1>1, <2>6, <3>3, <3>8, <3>9 DEF InChunk
    <3>11. Taken(r, n, i, 0)
      BY <1>1, <1>4, <1>16, <3>1 DEF Taken
    <3> QED BY <3>10, <3>11
  <2>7. CASE i \in 1 .. k
    <3>1. z > 0 /\ s # <<Digit(0)>>
      <4>1. z > 0
        BY <1>4, <2>7
      <4>2. Digit(z) # Digit(0)
        BY ONLY <1>6, <4>1, <1>4
      <4>3. <<Digit(0)>>[1] = Digit(0)
        OBVIOUS
      <4> QED BY ONLY <1>7, <4>1, <4>2, <4>3
    <3>2. PICK rec, h : /\ rec = [fromIndex |-> d, toIndex |-> d + z]
                        /\ h = [g EXCEPT !.left = z, !.chunks = Append(g.chunks, rec)]
      OBVIOUS
    <3>3. q = readBody(h)
      <4>1. Value(line(p)[1]) = z
        BY ONLY <1>6, <1>7, <2>2
      <4>2. q = readBody([g EXCEPT !.left = z, !.chunks = Append(@, [fromIndex |-> g.currentByteIdx,
                                                        toIndex |-> g.currentByteIdx + z])])
        BY ONLY <1>7, <1>11, <1>12, <2>1, <2>2, <3>1, <4>1, q = chunkTurn(p) DEF chunkTurn
      <4>3. h = [g EXCEPT !.left = z, !.chunks = Append(@, [fromIndex |-> g.currentByteIdx,
                                                        toIndex |-> g.currentByteIdx + z])]
        BY ONLY <2>2, <2>3, <3>2 DEF IsParser, Fields
      <4> QED BY ONLY <4>2, <4>3
    <3>4. IsParser(h) /\ h.left = z /\ h.chunks = Append(g.chunks, rec)
      BY ONLY <2>2, <3>2 DEF IsParser, Fields
    <3>5. SameTop(g, h) /\ SameBytes(g, h)
      BY ONLY <2>2, <3>2 DEF IsParser, Fields, SameTop, SameBytes
    <3>6. h.body = g.body /\ h.bodyStartIndex = g.bodyStartIndex /\ h.complete = g.complete
      BY ONLY <2>2, <3>2 DEF IsParser, Fields
    <3>7. At(h, b, d, n)
      BY ONLY <2>2, <3>5 DEF SameBytes, At
    <3>8. PICK w : w \in Nat /\ w <= z /\ w <= n - d /\ (w = z \/ w = n - d)
      <4>1. PICK a : a = n - d
        OBVIOUS
      <4>2. a \in Nat
        BY <1>4, <1>16, <4>1
      <4>3. CASE z <= a
        <5>1. z \in Nat /\ z <= z /\ z <= n - d
          BY ONLY <1>4, <4>1, <4>2, <4>3
        <5> QED BY ONLY <5>1
      <4>4. CASE ~(z <= a)
        <5>1. a \in Nat /\ a <= z /\ a <= n - d
          BY ONLY <1>4, <4>1, <4>2, <4>4
        <5> QED BY ONLY <4>1, <5>1
      <4> QED BY <4>3, <4>4
    <3>9. b \in Seq(Byte) /\ Len(b) = Len(m) /\ Len(m) \in Nat
      BY <1>8, BytesAre
    <3>10. Takes(h, n - d, w) /\ h.left \in Int /\ h.left >= -1 /\ h.left # -1
      BY ONLY <1>4, <3>4, <3>8 DEF Takes
    <3>11. h.complete = FALSE /\ n <= Len(b)
      BY ONLY <2>5, <3>6, <3>9, n <= Len(m)
    <3>12. /\ IsParser(q) /\ SameTop(h, q) /\ At(q, b, d + w, n)
           /\ q.left = IF h.left = -1 THEN -1 ELSE h.left - w
           /\ q.chunks = h.chunks /\ q.complete = FALSE
           /\ q.bodyStartIndex = IF h.bodyStartIndex = 0 THEN d ELSE h.bodyStartIndex
           /\ q.body = h.body \o SubSeq(b, d + 1, d + w)
      <4>1. MoreBody(h, b, d, n, w, q)
        BY ONLY <1>4, <1>16, <3>3, <3>4, <3>7, <3>8, <3>9, <3>10, <3>11, BodyRead, n \in Nat
      <4> QED BY ONLY <4>1 DEF MoreBody
    <3>13. PastTop(r, q)
      BY ONLY <2>4, <3>5, <3>12 DEF PastTop, SameTop
    <3>14. q.body = SubSeq(y, 1, e + w)
      <4>1. e + z <= Len(y) /\ y \in Seq(Byte) /\ Len(y) \in Nat
        <5>1. i + 1 \in 1 .. k + 2
          OBVIOUS
        <5>2. Before(r, i + 1) <= Len(y)
          BY ONLY <1>1, <1>2, <5>1 DEF ChunkPlaces
        <5> QED BY <1>1, <1>4, <5>2, ResponseIs
      <4>2. e + w <= Len(y) /\ d + w <= Len(b)
        BY ONLY <1>4, <3>8, <3>11, <4>1, <3>9, n \in Nat
      <4>3. \A x \in 1 .. w : b[d + x] = y[e + x]
        <5>1. \A x \in 1 .. w : x \in 1 .. Size(r, i)
          BY <1>1, <1>4, <3>8
        <5> QED BY <1>1, <5>1, ChunkBytes
      <4>4. SubSeq(y, 1, e) \o SubSeq(b, d + 1, d + w) = SubSeq(y, 1, e + w)
        <5>1. BodyJoins(y, b, d, e, w)
          BY ONLY <1>4, <3>8, <3>9, <4>1, <4>2, <4>3, BodyGrows
        <5> QED BY ONLY <5>1 DEF BodyJoins
      <4> QED BY ONLY <2>5, <3>6, <3>12, <4>4
    <3>15. j = i - 1 /\ i \in 0 .. k /\ i # 0
      BY ONLY <1>9, <2>7, k \in Nat
    <3>16. q.chunks = ChunksTo(r, i)
      <4>1. j + 1 = i /\ j \in Nat
        BY <3>15
      <4>2. ChunkRecord(r, i) = rec
        BY ONLY <1>1, <3>2 DEF ChunkRecord
      <4>3. q.chunks = Append(ChunksTo(r, j), ChunkRecord(r, j + 1))
        BY ONLY <2>5, <3>4, <3>12, <4>1, <4>2
      <4> QED BY ONLY <4>1, <4>3, ChunksGrow
    <3>17. q.bodyStartIndex = BodyStart(r) + 3
      <4>1. BodyStart(r) + 3 # 0
        BY PlacesAre
      <4>2. CASE j = 0
        <5>1. i = 1
          BY <3>15, <4>2
        <5>2. c = BodyStart(r)
          BY ONLY <1>1, <1>2, <5>1 DEF ChunkPlaces
        <5> QED BY ONLY <1>1, <1>11, <2>5, <3>6, <3>12, <4>2, <5>2
      <4>3. CASE j # 0
        BY ONLY <1>11, <2>5, <3>6, <3>12, <4>1, <4>3
      <4> QED BY <4>2, <4>3
    <3>18. q.left = z - w
      BY ONLY <3>4, <3>10, <3>12
    <3>19. d + w = c + 3 + w
      BY <1>1
    <3>20. InBody(r, b, n, c + 3 + w, z - w, i, e + w, q)
      BY ONLY <1>1, <3>12, <3>13, <3>14, <3>15, <3>16, <3>17, <3>18, <3>19 DEF InBody
    <3>21. i # Len(r.sizes) + 1
      BY <2>7
    <3>22. InChunk(r, b, n, i, w, q)
      BY <1>1, <3>12, <3>15, <3>20, <3>21 DEF InChunk
    <3>23. Taken(r, n, i, w)
      <4>1. w \in 0 .. z /\ d + w <= n /\ (w = z \/ d + w = n)
        BY ONLY <1>4, <3>8, n \in Nat
      <4> QED BY ONLY <1>1, <4>1 DEF Taken
    <3> QED BY <3>8, <3>22, <3>23
  <2> QED BY <1>3, <2>6, <2>7
<1> QED BY <1>1, <1>15, <1>16

\* The line after a chunk is taken.
LEMMA ChunkEndTurn ==
  ASSUME NEW r \in Responses, r.framing = "chunked", NEW m, MessageHolds(r, m), NEW b, b = BytesOf(m),
         NEW n \in Nat, n <= Len(m), NEW k \in Nat, k = Len(r.sizes), NEW i \in 1 .. k + 1, NEW w \in Nat,
         NEW p, InChunk(r, b, n, i, w, p), Taken(r, n, i, w), NEW q, q = chunkTurn(p)
  PROVE  /\ n < ChunkAt(r, i + 1) => q = p
         /\ ChunkAt(r, i + 1) <= n => AtChunk(r, b, n, i + 1, q)
<1>1. PICK c, z, e, y, s, d : /\ c = ChunkAt(r, i) /\ z = Size(r, i) /\ e = Before(r, i) /\ y = r.body
                              /\ s = <<>> /\ d = c + z + 5
  OBVIOUS
<1>2. ChunkPlaces(r, k)
  BY ChunksAt
<1>3. i \in 1 .. k + 2 /\ (i \in 1 .. k \/ i = k + 1)
  OBVIOUS
<1>4. c \in Nat /\ z \in Nat /\ e \in Nat /\ d \in Nat /\ d = c + z + 5 /\ Before(r, i + 1) = e + z /\ ChunkAt(r, i + 1) = d
  <2>1. /\ ChunkAt(r, i) \in Nat /\ Size(r, i) \in Nat /\ Before(r, i) \in Nat
    BY ONLY <1>2, <1>3 DEF ChunkPlaces
  <2>2. /\ ChunkAt(r, i + 1) = ChunkAt(r, i) + Size(r, i) + 5
        /\ Before(r, i + 1) = Before(r, i) + Size(r, i)
    BY ONLY <1>2, i \in 1 .. k + 1 DEF ChunkPlaces
  <2> QED BY ONLY <1>1, <2>1, <2>2
<1>5. PICK j \in 0 .. k : /\ InBody(r, b, n, c + 3 + w, z - w, j, e + w, p)
                          /\ j = i \/ (j = k /\ j <= i)
  BY <1>1 DEF InChunk
<1>6. PICK a : a = c + 3 + w
  OBVIOUS
<1>7. a \in Nat /\ a <= n /\ w \in 0 .. z /\ (w = z \/ a = n)
  <2>1. w \in 0 .. z /\ c + 3 + w <= n /\ (w = z \/ c + 3 + w = n)
    BY ONLY <1>1, Taken(r, n, i, w) DEF Taken
  <2> QED BY ONLY <1>4, <1>6, <2>1
<1>8. /\ PastTop(r, p) /\ At(p, b, a, n) /\ p.left = z - w /\ p.chunks = ChunksTo(r, j) /\ p.body = SubSeq(y, 1, e + w)
      /\ j = 0 => p.bodyStartIndex = 0
      /\ j # 0 => p.bodyStartIndex = BodyStart(r) + 3
  BY ONLY <1>1, <1>5, <1>6 DEF InBody
<1>9. IsParser(p) /\ p.thrown = FALSE
  BY ONLY <1>8 DEF PastTop
<1>10. CASE w # z
  <2>1. p.left > 0
    <3>1. w < z /\ z - w > 0
      BY ONLY <1>4, <1>7, <1>10
    <3> QED BY ONLY <1>8, <3>1
  <2>2. q = p
    BY ONLY <2>1, q = chunkTurn(p) DEF chunkTurn
  <2>3. n < d
    <3>1. w < z
      BY ONLY <1>4, <1>7, <1>10
    <3>2. a = n
      BY ONLY <1>7, <1>10
    <3> QED BY ONLY <1>4, <1>6, <1>7, <3>1, <3>2
  <2>4. ~(d <= n)
    BY ONLY <1>4, <2>3, n \in Nat
  <2>5. ~(ChunkAt(r, i + 1) <= n)
    BY ONLY <1>4, <2>4
  <2> QED BY ONLY <2>2, <2>5
<1>11. CASE w = z
  <2>1. p.left = 0 /\ a = c + (3 + z) /\ d = a + 2 /\ d \in Nat
    <3>1. z - w = 0
      BY ONLY <1>4, <1>7, <1>11
    <3>2. a = c + (3 + z) /\ d = a + 2 /\ d \in Nat
      BY ONLY <1>4, <1>6, <1>7, <1>11
    <3> QED BY ONLY <1>8, <3>1, <3>2
  <2>2. m \in Seq(Piece) /\ LineAt(m, c + (3 + z), <<>>, "frame")
    BY <1>1 DEF MessageHolds, ChunkInAt
  <2>3. s \in Seq(Byte) /\ (\A x \in 1 .. Len(s) : s[x] # CR) /\ Len(s) = 0
    BY <1>1
  <2>4. LineAt(m, a, s, "frame")
    BY ONLY <1>1, <2>1, <2>2
  <2>5. d = a + Len(s) + 2
    BY ONLY <1>7, <2>1, <2>3
  <2>6. /\ d <= n => LineTakes(p, b, s, d, n)
        /\ d > n => ~hasLine(p)
    BY ONLY <1>7, <1>8, <1>9, <2>1, <2>2, <2>3, <2>4, <2>5, LineTaken, b = BytesOf(m), n \in Nat, n <= Len(m)
  <2>7. ASSUME n < d PROVE q = p
    BY <2>1, <2>6, <2>7 DEF chunkTurn
  <2>8. ASSUME d <= n PROVE AtChunk(r, b, n, i + 1, q)
    <3>1. PICK g : g = getLine(p)
      OBVIOUS
    <3>2. hasLine(p) /\ line(p) = s /\ At(g, b, d, n) /\ IsParser(g) /\ SameTop(p, g) /\ SameBody(p, g)
      BY ONLY <2>6, <2>8, <3>1 DEF LineTakes
    <3>3. q = g
      BY ONLY <1>1, <1>9, <2>1, <3>1, <3>2, q = chunkTurn(p) DEF chunkTurn
    <3>4. PastTop(r, g)
      BY ONLY <1>8, <3>2 DEF PastTop, SameTop
    <3>5. /\ g.left = 0 /\ g.chunks = ChunksTo(r, j) /\ g.body = SubSeq(y, 1, e + w) /\ g.complete = p.complete
          /\ g.bodyStartIndex = p.bodyStartIndex
      BY ONLY <1>8, <2>1, <3>2 DEF SameBody
    <3>6. PICK i2 : i2 = i + 1
      OBVIOUS
    <3>7. ChunkAt(r, i2) = d /\ Before(r, i2) = e + w
      BY <1>4, <1>11, <3>6
    <3>8. InBody(r, b, n, ChunkAt(r, i2), 0, j, Before(r, i2), g)
      BY ONLY <1>1, <1>8, <3>2, <3>4, <3>5, <3>7 DEF InBody
    <3>9. j = i2 - 1 \/ (j = k /\ j <= i2 - 1)
      BY <1>5, <3>6
    <3>10. /\ i = k + 1 => p.complete = TRUE
           /\ i # k + 1 => p.complete = FALSE
      BY DEF InChunk
    <3>11. i2 = k + 2 <=> i = k + 1
      BY <3>6
    <3>12. AtChunk(r, b, n, i2, q)
      BY ONLY <1>5, <3>3, <3>5, <3>8, <3>9, <3>10, <3>11, k = Len(r.sizes) DEF AtChunk
    <3> QED BY ONLY <3>6, <3>12
  <2> QED BY ONLY <1>1, <1>4, <2>7, <2>8
<1> QED BY <1>10, <1>11

\* After the last chunk nothing is taken.
LEMMA LastTurn ==
  ASSUME NEW r \in Responses, r.framing = "chunked", NEW m, MessageHolds(r, m), NEW b, b = BytesOf(m),
         NEW n \in Nat, n <= Len(m), NEW k \in Nat, k = Len(r.sizes),
         NEW p, AtChunk(r, b, n, k + 2, p), ChunkAt(r, k + 2) <= n, NEW q, q = chunkTurn(p)
  PROVE  q = p
<1>1. PICK c : c = ChunkAt(r, k + 2)
  OBVIOUS
<1>2. c \in Nat
  <2>1. ChunkPlaces(r, k)
    BY ChunksAt
  <2>2. k + 2 \in 1 .. k + 2
    OBVIOUS
  <2> QED BY ONLY <1>1, <2>1, <2>2 DEF ChunkPlaces
<1>3. m \in Seq(Piece) /\ Len(m) = c
  BY <1>1 DEF MessageHolds
<1>4. n = c
  BY ONLY <1>1, <1>2, <1>3, n <= Len(m), n \in Nat, ChunkAt(r, k + 2) <= n
<1>5. PICK t : t = p.remaining
  OBVIOUS
<1>6. t = SubSeq(b, c + 1, n)
  <2>1. PICK j, x : InBody(r, b, n, c, 0, j, x, p)
    BY <1>1 DEF AtChunk
  <2> QED BY <1>5, <2>1 DEF InBody, At
<1>7. b \in Seq(Byte) /\ Len(b) = c
  BY ONLY <1>3, BytesAre, b = BytesOf(m)
<1>8. Len(t) = n - c
  BY ONLY <1>2, <1>4, <1>6, <1>7, Between
<1>9. Len(t) = 0
  BY ONLY <1>2, <1>4, <1>8
<1>10. LineEnds(t) = {}
  BY ONLY <1>9 DEF LineEnds
<1>11. ~hasLine(p)
  BY ONLY <1>5, <1>10 DEF hasLine
<1> QED BY ONLY <1>11, q = chunkTurn(p) DEF chunkTurn

-----------------------------------------------------------------------------
(* The loop over the lines between the chunks.                              *)

\* f[j] is the parser after j turns.
ChunkTurns(f, p, turns) ==
  f[0] = p /\ \A j \in 1 .. turns : f[j] = chunkTurn(f[j - 1])

\* readChunks, as a sequence of turns.
LEMMA ChunkLoop ==
  ASSUME NEW p, NEW turns \in Nat, turns = Len(p.remaining)
  PROVE  \E f : ChunkTurns(f, p, turns) /\ readChunks(p) = f[turns]
<1> DEFINE P == {m \in Nat : \E f : f = [j \in 0 .. m |-> IF j = 0 THEN p ELSE chunkTurn(f[j - 1])]}
<1>1. 0 \in P
  <2> DEFINE f == [j \in 0 .. 0 |-> p]
  <2>1. \A j \in 0 .. 0 : j = 0
    OBVIOUS
  <2>2. f = [j \in 0 .. 0 |-> IF j = 0 THEN p ELSE chunkTurn(f[j - 1])]
    BY ONLY <2>1
  <2> QED BY <2>2
<1>2. ASSUME NEW m \in Nat, m \in P PROVE m + 1 \in P
  <2>1. PICK f : f = [j \in 0 .. m |-> IF j = 0 THEN p ELSE chunkTurn(f[j - 1])]
    BY <1>2
  <2>2. PICK last : last = chunkTurn(f[m])
    OBVIOUS
  <2> DEFINE g == [j \in 0 .. m + 1 |-> IF j = m + 1 THEN last ELSE f[j]]
  <2>3. ASSUME NEW j \in 0 .. m + 1
        PROVE  g[j] = IF j = 0 THEN p ELSE chunkTurn(g[j - 1])
    <3>1. CASE j = 0
      <4>1. j # m + 1 /\ j \in 0 .. m
        BY <3>1
      <4> QED BY <2>1, <3>1, <4>1
    <3>2. CASE j # 0 /\ j # m + 1
      <4>1. j \in 0 .. m /\ j - 1 \in 0 .. m + 1 /\ j - 1 # m + 1
        BY <3>2
      <4>2. g[j] = f[j] /\ g[j - 1] = f[j - 1]
        BY <3>2, <4>1
      <4>3. f[j] = chunkTurn(f[j - 1])
        BY <2>1, <3>2, <4>1
      <4> QED BY ONLY <3>2, <4>2, <4>3
    <3>3. CASE j = m + 1
      <4>1. j - 1 = m /\ m \in 0 .. m + 1 /\ m # m + 1 /\ j # 0
        BY <3>3
      <4>2. g[j] = last /\ g[j - 1] = f[m]
        BY <3>3, <4>1
      <4> QED BY ONLY <2>2, <4>1, <4>2
    <3> QED BY <3>1, <3>2, <3>3
  <2>4. g = [j \in 0 .. m + 1 |-> g[j]]
    OBVIOUS
  <2> HIDE DEF g
  <2>5. g = [j \in 0 .. m + 1 |-> IF j = 0 THEN p ELSE chunkTurn(g[j - 1])]
    BY ONLY <2>3, <2>4
  <2> QED BY <2>5
<1> HIDE DEF P
<1>3. turns \in P
  BY <1>1, <1>2, InductionOverNat
<1>4. PICK f : f = [j \in 0 .. turns |-> IF j = 0 THEN p ELSE chunkTurn(f[j - 1])]
  BY <1>3 DEF P
<1> DEFINE read[j \in 0 .. turns] == IF j = 0 THEN p ELSE chunkTurn(read[j - 1])
<1>5. read = [j \in 0 .. turns |-> IF j = 0 THEN p ELSE chunkTurn(read[j - 1])]
  BY <1>4
<1>6. readChunks(p) = read[turns]
  BY turns = Len(p.remaining) DEF readChunks
<1> HIDE DEF read
<1>7. read[0] = p
  BY ONLY <1>5, turns \in Nat
<1>8. \A j \in 1 .. turns : j \in 0 .. turns /\ j # 0
  OBVIOUS
<1>9. \A j \in 1 .. turns : read[j] = chunkTurn(read[j - 1])
  BY ONLY <1>5, <1>8
<1> QED BY <1>6, <1>7, <1>9 DEF ChunkTurns

\* Where the parser is, having read what has come of the chunks but for g turns at most.
BeforeChunk(r, b, n, g, i, p) ==
  /\ AtChunk(r, b, n, i, p) /\ ChunkAt(r, i) <= n
  /\ i = Len(r.sizes) + 2 \/ n < ChunkAt(r, i) + 3 \/ n - ChunkAt(r, i) <= g

WithinChunk(r, b, n, g, i, w, p) ==
  /\ InChunk(r, b, n, i, w, p) /\ Taken(r, n, i, w)
  /\ n < ChunkAt(r, i + 1) \/ n - (ChunkAt(r, i) + 3 + w) <= g

ChunksRead(r, b, n, g, p) ==
  \/ \E i \in 1 .. Len(r.sizes) + 2 : BeforeChunk(r, b, n, g, i, p)
  \/ \E i \in 1 .. Len(r.sizes) + 1, w \in Nat : WithinChunk(r, b, n, g, i, w, p)

\* A turn before a chunk reads the line end before it and its size, or is over.
LEMMA BeforeChunkTurn ==
  ASSUME NEW r \in Responses, r.framing = "chunked", NEW m, MessageHolds(r, m), NEW b, b = BytesOf(m),
         NEW n \in Nat, n <= Len(m), NEW g \in Nat, NEW h \in Nat, g <= h + 1,
         NEW i \in 1 .. Len(r.sizes) + 2, NEW p, BeforeChunk(r, b, n, g, i, p), NEW q, q = chunkTurn(p)
  PROVE  ChunksRead(r, b, n, h, q)
<1>1. PICK k : k = Len(r.sizes)
  OBVIOUS
<1>2. k \in Nat /\ i \in 1 .. k + 2
  BY <1>1, ResponseIs
<1>3. /\ AtChunk(r, b, n, i, p) /\ ChunkAt(r, i) <= n
      /\ i = k + 2 \/ n < ChunkAt(r, i) + 3 \/ n - ChunkAt(r, i) <= g
  BY <1>1 DEF BeforeChunk
<1>4. CASE i = k + 2
  <2>1. q = p
    BY <1>1, <1>2, <1>3, <1>4, LastTurn
  <2> QED BY <1>1, <1>2, <1>3, <1>4, <2>1 DEF ChunksRead, BeforeChunk
<1>5. CASE i # k + 2
  <2>1. i \in 1 .. k + 1
    BY <1>2, <1>5
  <2>2. /\ n < ChunkAt(r, i) + 3 => q = p
        /\ ChunkAt(r, i) + 3 <= n => \E w \in Nat : Taken(r, n, i, w) /\ InChunk(r, b, n, i, w, q)
    BY <1>1, <1>2, <1>3, <2>1, SizeTurn
  <2>3. PICK c, z, d : c = ChunkAt(r, i) /\ z = Size(r, i) /\ d = ChunkAt(r, i + 1)
    OBVIOUS
  <2>4. c \in Nat /\ z \in Nat /\ d = c + z + 5
    <3>1. ChunkPlaces(r, k)
      BY <1>1, <1>2, ChunksAt
    <3>2. ChunkAt(r, i) \in Nat /\ Size(r, i) \in Nat
      BY ONLY <1>2, <3>1 DEF ChunkPlaces
    <3>3. ChunkAt(r, i + 1) = ChunkAt(r, i) + Size(r, i) + 5
      BY ONLY <2>1, <3>1 DEF ChunkPlaces
    <3> QED BY ONLY <2>3, <3>2, <3>3
  <2>5. CASE n < c + 3
    <3>1. q = p
      BY <2>2, <2>3, <2>5
    <3>2. BeforeChunk(r, b, n, h, i, q)
      BY ONLY <1>3, <2>3, <2>5, <3>1 DEF BeforeChunk
    <3> QED BY <3>2 DEF ChunksRead
  <2>6. CASE c + 3 <= n
    <3>1. PICK w \in Nat : Taken(r, n, i, w) /\ InChunk(r, b, n, i, w, q)
      BY <2>2, <2>3, <2>6
    <3>2. n - c <= g
      BY <1>3, <1>5, <2>3, <2>4, <2>6
    <3>3. n - (c + 3 + w) <= h
      BY ONLY <2>4, <3>2, w \in Nat, n \in Nat, g \in Nat, h \in Nat, g <= h + 1
    <3>4. WithinChunk(r, b, n, h, i, w, q)
      BY ONLY <2>3, <3>1, <3>3 DEF WithinChunk
    <3> QED BY <1>1, <2>1, <3>4 DEF ChunksRead
  <2> QED BY <2>4, <2>5, <2>6
<1> QED BY <1>4, <1>5

\* A turn within a chunk of which bytes are missing does nothing.
LEMMA WithinChunkTurn ==
  ASSUME NEW r \in Responses, r.framing = "chunked", NEW m, MessageHolds(r, m), NEW b, b = BytesOf(m),
         NEW n \in Nat, n <= Len(m), NEW g \in Nat, NEW h \in Nat, g <= h + 1,
         NEW i \in 1 .. Len(r.sizes) + 1, NEW w \in Nat, NEW p, WithinChunk(r, b, n, g, i, w, p),
         NEW q, q = chunkTurn(p)
  PROVE  ChunksRead(r, b, n, h, q)
<1>1. PICK k, j : k = Len(r.sizes) /\ j = i + 1
  OBVIOUS
<1>2. k \in Nat /\ i \in 1 .. k + 1 /\ i \in 1 .. k + 2 /\ j \in 1 .. k + 2
  <2>1. k \in Nat
    BY <1>1, ResponseIs
  <2> QED BY <1>1, <2>1
<1>3. /\ InChunk(r, b, n, i, w, p) /\ Taken(r, n, i, w)
      /\ n < ChunkAt(r, j) \/ n - (ChunkAt(r, i) + 3 + w) <= g
  BY <1>1 DEF WithinChunk
<1>4. /\ n < ChunkAt(r, j) => q = p
      /\ ChunkAt(r, j) <= n => AtChunk(r, b, n, j, q)
  BY <1>1, <1>2, <1>3, ChunkEndTurn
<1>5. PICK c, z, d : c = ChunkAt(r, i) /\ z = Size(r, i) /\ d = ChunkAt(r, j)
  OBVIOUS
<1>6. c \in Nat /\ z \in Nat /\ d = c + z + 5
  <2>1. ChunkPlaces(r, k)
    BY <1>1, <1>2, ChunksAt
  <2>2. ChunkAt(r, i) \in Nat /\ Size(r, i) \in Nat
    BY ONLY <1>2, <2>1 DEF ChunkPlaces
  <2>3. ChunkAt(r, j) = ChunkAt(r, i) + Size(r, i) + 5
    BY ONLY <1>1, <1>2, <2>1 DEF ChunkPlaces
  <2> QED BY ONLY <1>5, <2>2, <2>3
<1>7. CASE n < d
  <2>1. q = p
    BY <1>4, <1>5, <1>7
  <2>2. WithinChunk(r, b, n, h, i, w, q)
    BY ONLY <1>1, <1>3, <1>5, <1>7, <2>1 DEF WithinChunk
  <2> QED BY <2>2 DEF ChunksRead
<1>8. CASE d <= n
  <2>1. AtChunk(r, b, n, j, q)
    BY <1>4, <1>5, <1>8
  <2>2. w <= z
    BY <1>3, <1>5, <1>6 DEF Taken
  <2>3. n - (c + 3 + w) <= g
    BY <1>3, <1>5, <1>6, <1>8
  <2>4. n - d <= h
    BY ONLY <1>6, <2>2, <2>3, w \in Nat, n \in Nat, g \in Nat, h \in Nat, g <= h + 1
  <2>5. BeforeChunk(r, b, n, h, j, q)
    BY ONLY <1>5, <1>8, <2>1, <2>4 DEF BeforeChunk
  <2> QED BY <1>1, <1>2, <2>5 DEF ChunksRead
<1> QED BY <1>6, <1>7, <1>8

\* What has come of the chunks is read.
LEMMA ChunksAreRead ==
  ASSUME NEW r \in Responses, r.framing = "chunked", NEW m, MessageHolds(r, m), NEW b, b = BytesOf(m),
         NEW n \in Nat, n <= Len(m), NEW p, NEW turns \in Nat, turns = Len(p.remaining),
         ChunksRead(r, b, n, turns, p), NEW q, q = readChunks(p)
  PROVE  ChunksRead(r, b, n, 0, q)
<1>1. PICK f : ChunkTurns(f, p, turns) /\ readChunks(p) = f[turns]
  BY ChunkLoop
<1>2. f[0] = p /\ \A j \in 1 .. turns : f[j] = chunkTurn(f[j - 1])
  BY <1>1 DEF ChunkTurns
<1> DEFINE P == {j \in Nat : j <= turns => ChunksRead(r, b, n, turns - j, f[j])}
<1>3. 0 \in P
  <2>1. turns - 0 = turns
    OBVIOUS
  <2> QED BY <1>2, <2>1
<1>4. ASSUME NEW j \in Nat, j \in P PROVE j + 1 \in P
  <2> SUFFICES ASSUME j + 1 <= turns PROVE ChunksRead(r, b, n, turns - (j + 1), f[j + 1])
    OBVIOUS
  <2>1. PICK g, h, x, y : g = turns - j /\ h = turns - (j + 1) /\ x = f[j] /\ y = f[j + 1]
    OBVIOUS
  <2>2. g \in Nat /\ h \in Nat /\ g <= h + 1 /\ j <= turns
    BY <2>1
  <2>3. ChunksRead(r, b, n, g, x)
    BY <1>4, <2>1, <2>2
  <2>4. y = chunkTurn(x)
    <3>1. j + 1 \in 1 .. turns /\ (j + 1) - 1 = j
      OBVIOUS
    <3> QED BY <1>2, <2>1, <3>1
  <2>5. ChunksRead(r, b, n, h, y)
    <3>1. CASE \E i \in 1 .. Len(r.sizes) + 2 : BeforeChunk(r, b, n, g, i, x)
      BY <2>2, <2>4, <3>1, BeforeChunkTurn
    <3>2. CASE \E i \in 1 .. Len(r.sizes) + 1, w \in Nat : WithinChunk(r, b, n, g, i, w, x)
      BY <2>2, <2>4, <3>2, WithinChunkTurn
    <3> QED BY <2>3, <3>1, <3>2 DEF ChunksRead
  <2> QED BY <2>1, <2>5
<1> HIDE DEF P
<1>5. turns \in P
  BY <1>3, <1>4, InductionOverNat
<1>6. ChunksRead(r, b, n, turns - turns, f[turns])
  BY <1>5 DEF P
<1>7. turns - turns = 0
  OBVIOUS
<1> QED BY <1>1, <1>6, <1>7

-----------------------------------------------------------------------------
(* A piece of the body.                                                     *)

LengthIsZero(p) == Length \in DOMAIN p.headers /\ p.headers[Length].value = <<Digit(0)>>

\* A content-length of zero is that of an empty body.
LEMMA WhenLengthIsZero ==
  ASSUME NEW r \in Responses, NEW p, PastTop(r, p)
  PROVE  LengthIsZero(p) <=> r.framing = "length" /\ Len(r.body) = 0
<1>1. PICK hs, last, j : hs = p.headers /\ last = LinesOf(r) /\ j = LinesOf(r) - 1
  OBVIOUS
<1>2. DOMAIN hs = Keys(r, last) /\ \A i \in 1 .. last - 1 : hs[LineKey(r, i)] = HeaderOf(r, i)
  BY ONLY <1>1, PastTop(r, p) DEF PastTop, HeadersAre
<1>3. CASE r.framing # "length"
  <2>1. Length \notin DOMAIN hs
    BY <1>1, <1>2, <1>3, KeysAre
  <2> QED BY <1>1, <1>3, <2>1 DEF LengthIsZero
<1>4. CASE r.framing = "length"
  <2>1. /\ Length \in DOMAIN hs /\ j \in 1 .. last - 1 /\ LineKey(r, j) = Length
        /\ Tail(LineText(r, j)) = <<Digit(Len(r.body))>>
    BY <1>1, <1>2, <1>4, KeysAre
  <2>2. hs[Length] = HeaderOf(r, j)
    BY ONLY <1>2, <2>1
  <2>3. hs[Length].value = <<Digit(Len(r.body))>>
    BY ONLY <2>1, <2>2 DEF HeaderOf
  <2>4. Len(r.body) \in 0 .. Len(Digits) - 1 /\ 0 \in 0 .. Len(Digits) - 1
    BY <1>4, ResponseIs, DigitIs
  <2>5. PICK l : l = Len(r.body)
    OBVIOUS
  <2>6. Digit(l) = Digit(0) <=> l = 0
    BY ONLY <2>4, <2>5, DigitIs
  <2>7. <<Digit(l)>> = <<Digit(0)>> <=> Digit(l) = Digit(0)
    OBVIOUS
  <2> QED BY ONLY <1>1, <1>4, <2>1, <2>3, <2>5, <2>6, <2>7 DEF LengthIsZero
<1> QED BY <1>3, <1>4

\* A response is complete, of which the body has been read.
Finished(p, q, x) ==
  \/ p.left # 0 /\ q.left = 0 /\ q.isChunked = FALSE
  \/ LengthIsZero(q)
  \/ x = TRUE

\* What a piece does before the chunks.
Completed(p, q, h) ==
  /\ IsParser(h) /\ SameTop(q, h) /\ SameBytes(q, h)
  /\ h.left = q.left /\ h.chunks = q.chunks /\ h.bodyStartIndex = q.bodyStartIndex /\ h.body = q.body
  /\ Finished(p, q, q.complete) => h.complete = TRUE
  /\ ~Finished(p, q, q.complete) => h.complete = FALSE

\* readPiece: the body, then complete or not, then the chunks.
LEMMA PieceRead ==
  ASSUME NEW p, NEW q, q = (IF p.left # 0 THEN readBody(p) ELSE p), IsParser(q),
         q.complete \in BOOLEAN, q.isChunked \in BOOLEAN, q.thrown = FALSE
  PROVE  \E h : /\ Completed(p, q, h)
                /\ readPiece(p) = IF q.isChunked = TRUE THEN readChunks(h) ELSE h
<1> DEFINE done == \/ p.left # 0 /\ q.left = 0 /\ ~q.isChunked
                   \/ Length \in DOMAIN q.headers /\ q.headers[Length].value = <<Digit(0)>>
<1>1. PICK x : x = (q.complete \/ done)
  OBVIOUS
<1>2. PICK h : h = [q EXCEPT !.complete = x]
  OBVIOUS
<1>3. x \in BOOLEAN /\ (x <=> Finished(p, q, q.complete))
  <2>1. ~q.isChunked <=> q.isChunked = FALSE
    OBVIOUS
  <2>2. q.complete <=> q.complete = TRUE
    OBVIOUS
  <2>3. done <=> (p.left # 0 /\ q.left = 0 /\ q.isChunked = FALSE) \/ LengthIsZero(q)
    BY ONLY <2>1 DEF LengthIsZero
  <2> HIDE DEF done
  <2> QED BY ONLY <1>1, <2>2, <2>3 DEF Finished
<1>4. IsParser(h) /\ SameTop(q, h) /\ SameBytes(q, h)
  BY ONLY <1>2, IsParser(q) DEF IsParser, Fields, SameTop, SameBytes
<1>5. h.left = q.left /\ h.chunks = q.chunks /\ h.bodyStartIndex = q.bodyStartIndex /\ h.body = q.body /\ h.complete = x
  BY ONLY <1>2, IsParser(q) DEF IsParser, Fields
<1>6. Completed(p, q, h)
  BY ONLY <1>3, <1>4, <1>5 DEF Completed
<1>7. readPiece(p) = IF h.isChunked /\ ~h.thrown THEN readChunks(h) ELSE h
  <2>1. h = [q EXCEPT !.complete = @ \/ done]
    BY ONLY <1>1, <1>2, IsParser(q) DEF IsParser, Fields
  <2> HIDE DEF done
  <2> QED BY <2>1 DEF readPiece, done
<1>8. h.thrown = FALSE /\ h.isChunked = q.isChunked
  BY <1>4 DEF SameTop
<1>9. readPiece(p) = IF q.isChunked = TRUE THEN readChunks(h) ELSE h
  BY ONLY <1>7, <1>8, q.isChunked \in BOOLEAN
<1> QED BY <1>6, <1>9

-----------------------------------------------------------------------------
(* A body without chunks.                                                   *)

PlainLeft(r, c) == IF r.framing = "length" THEN Len(r.body) - (c - BodyStart(r)) ELSE -1

PlainStart(r) == IF r.framing = "length" /\ Len(r.body) = 0 THEN 0 ELSE BodyStart(r)

\* c of n bytes have been taken, of which those after the empty line are the body.
Plain(r, b, c, n, p) ==
  /\ PastTop(r, p) /\ At(p, b, c, n) /\ p.left = PlainLeft(r, c)
  /\ p.chunks = <<>> /\ p.body = SubSeq(r.body, 1, c - BodyStart(r))

PlainKnown(r, c, p) ==
  /\ p.bodyStartIndex = PlainStart(r)
  /\ PlainLeft(r, c) = 0 => p.complete = TRUE
  /\ PlainLeft(r, c) # 0 => p.complete = FALSE

\* Nothing is known yet.
PlainNew(r, c, p) == c = BodyStart(r) /\ p.bodyStartIndex = 0 /\ p.complete = FALSE

\* readPiece takes what has come of a body that is not chunked.
LEMMA PlainRead ==
  ASSUME NEW r \in Responses, r.framing # "chunked", NEW m, MessageHolds(r, m), NEW b, b = BytesOf(m),
         NEW n \in Nat, n <= Len(m), NEW c \in Nat, BodyStart(r) <= c, c <= n,
         NEW p, Plain(r, b, c, n, p), PlainKnown(r, c, p) \/ PlainNew(r, c, p), NEW q, q = readPiece(p)
  PROVE  Plain(r, b, n, n, q) /\ PlainKnown(r, n, q)
<1>1. PICK t, y, l, f : t = BodyStart(r) /\ y = r.body /\ l = Len(r.body) /\ f = r.framing
  OBVIOUS
<1>2. t \in Nat /\ t # 0 /\ l \in Nat /\ y \in Seq(Byte) /\ f \in {"length", "close"} /\ t <= c
  <2>1. f \in {"length", "chunked", "close"}
    BY <1>1, ResponseIs DEF Framing
  <2>2. BodyStart(r) \in Nat /\ BodyStart(r) # 0
    BY PlacesAre
  <2> QED BY <1>1, <2>1, <2>2, ResponseIs
<1>3. m \in Seq(Piece) /\ Len(m) = t + l /\ BodyIn(m, t, y, 0)
  BY <1>1 DEF MessageHolds
<1>4. b \in Seq(Byte) /\ Len(b) = Len(m) /\ \A i \in 1 .. Len(m) : b[i] = m[i].byte
  BY ONLY <1>3, BytesAre, b = BytesOf(m)
<1>5. /\ PastTop(r, p) /\ At(p, b, c, n) /\ p.left = PlainLeft(r, c)
      /\ p.chunks = <<>> /\ p.body = SubSeq(y, 1, c - t)
  BY ONLY <1>1, Plain(r, b, c, n, p) DEF Plain
<1>6. /\ IsParser(p) /\ p.thrown = FALSE /\ p.isChunked = FALSE
  BY ONLY <1>5, r.framing # "chunked" DEF PastTop
<1>7. \A x \in Nat : PlainLeft(r, x) = IF f = "length" THEN l - (x - t) ELSE -1
  BY ONLY <1>1 DEF PlainLeft
<1>8. PlainStart(r) = IF f = "length" /\ l = 0 THEN 0 ELSE t
  BY ONLY <1>1 DEF PlainStart
<1>9. n <= t + l /\ c <= t + l
  BY ONLY <1>2, <1>3, n \in Nat, c \in Nat, n <= Len(m), c <= n
<1>10. LengthIsZero(p) <=> f = "length" /\ l = 0
  BY ONLY <1>1, <1>5, WhenLengthIsZero, r \in Responses
<1>11. CASE p.left = 0
  <2>1. f = "length" /\ c = t + l /\ n = c
    <3>1. f = "length" /\ l - (c - t) = 0
      <4>1. p.left = IF f = "length" THEN l - (c - t) ELSE -1
        BY ONLY <1>5, <1>7, c \in Nat
      <4>2. -1 # 0
        OBVIOUS
      <4> QED BY ONLY <1>11, <4>1, <4>2
    <3> QED BY ONLY <1>2, <1>9, <3>1, c \in Nat, n \in Nat, c <= n
  <2>2. p.complete \in BOOLEAN
    BY DEF PlainKnown, PlainNew
  <2>3. PICK h : Completed(p, p, h) /\ readPiece(p) = IF p.isChunked = TRUE THEN readChunks(h) ELSE h
    BY ONLY <1>6, <1>11, <2>2, PieceRead
  <2>4. q = h
    BY ONLY <1>6, <2>3, q = readPiece(p)
  <2>5. /\ IsParser(h) /\ SameTop(p, h) /\ SameBytes(p, h)
        /\ h.left = p.left /\ h.chunks = p.chunks /\ h.bodyStartIndex = p.bodyStartIndex /\ h.body = p.body
        /\ Finished(p, p, p.complete) => h.complete = TRUE
    BY ONLY <2>3 DEF Completed
  <2>6. Plain(r, b, n, n, h)
    <3>1. PastTop(r, h) /\ At(h, b, n, n)
      BY ONLY <1>5, <2>1, <2>5 DEF PastTop, At, SameTop, SameBytes
    <3> QED BY ONLY <1>1, <1>5, <2>1, <2>5, <3>1 DEF Plain
  <2>7. PlainLeft(r, c) = 0 /\ PlainLeft(r, n) = 0
    BY ONLY <1>5, <1>11, <2>1
  <2>8. CASE PlainKnown(r, c, p)
    <3>1. p.complete = TRUE /\ p.bodyStartIndex = PlainStart(r)
      BY ONLY <2>7, <2>8 DEF PlainKnown
    <3>2. h.complete = TRUE /\ h.bodyStartIndex = PlainStart(r)
      BY ONLY <2>5, <3>1 DEF Finished
    <3>3. PlainKnown(r, n, h)
      BY ONLY <2>7, <3>2 DEF PlainKnown
    <3> QED BY ONLY <2>4, <2>6, <3>3
  <2>9. CASE PlainNew(r, c, p)
    <3>1. c = t /\ p.bodyStartIndex = 0
      BY ONLY <1>1, <2>9 DEF PlainNew
    <3>2. l = 0
      BY ONLY <1>2, <2>1, <3>1
    <3>3. h.complete = TRUE
      BY ONLY <1>10, <2>1, <2>5, <3>2 DEF Finished
    <3>4. PlainStart(r) = 0
      BY ONLY <1>8, <2>1, <3>2
    <3>5. PlainKnown(r, n, h)
      BY ONLY <2>5, <2>7, <3>1, <3>3, <3>4 DEF PlainKnown
    <3> QED BY ONLY <2>4, <2>6, <3>5
  <2> QED BY <2>8, <2>9
<1>12. CASE p.left # 0
  <2>1. PICK w : w = n - c
    OBVIOUS
  <2>2. w \in Nat /\ c + w = n
    BY ONLY <2>1, n \in Nat, c \in Nat, c <= n
  <2>3. p.complete = FALSE /\ (f = "length" => l # 0)
    <3>1. p.complete = FALSE
      <4>1. PlainLeft(r, c) # 0
        BY <1>5, <1>12
      <4> QED BY <4>1 DEF PlainKnown, PlainNew
    <3>2. ASSUME f = "length", l = 0 PROVE FALSE
      <4>1. c = t
        BY ONLY <1>2, <1>9, <3>2, c \in Nat
      <4>2. PlainLeft(r, c) = 0
        BY ONLY <1>2, <1>7, <3>2, <4>1
      <4> QED BY <1>5, <1>12, <4>2
    <3> QED BY <3>1, <3>2
  <2>4. p.left \in Int /\ p.left >= -1 /\ Takes(p, n - c, w)
    <3>1. CASE f = "length"
      <4>1. p.left = l - (c - t)
        BY ONLY <1>5, <1>7, <3>1, c \in Nat
      <4>2. p.left \in Int /\ p.left >= 0
        BY ONLY <1>2, <1>9, <4>1, c \in Nat
      <4>3. w <= p.left
        BY ONLY <1>2, <1>9, <2>2, <4>1, c \in Nat, n \in Nat
      <4>4. p.left # -1 /\ p.left >= -1
        BY ONLY <4>2
      <4> QED BY ONLY <2>1, <2>2, <4>2, <4>3, <4>4 DEF Takes
    <3>2. CASE f # "length"
      <4>1. p.left = -1
        BY ONLY <1>5, <1>7, <3>2, c \in Nat
      <4> QED BY ONLY <2>1, <4>1 DEF Takes
    <3> QED BY <3>1, <3>2
  <2>5. PICK g : g = readBody(p)
    OBVIOUS
  <2>6. MoreBody(p, b, c, n, w, g)
    <3>1. n <= Len(b)
      BY <1>4
    <3> QED BY ONLY <1>4, <1>5, <1>6, <2>2, <2>3, <2>4, <2>5, <3>1, BodyRead, c \in Nat, n \in Nat, c <= n
  <2>7. /\ IsParser(g) /\ SameTop(p, g) /\ At(g, b, n, n)
        /\ g.left = IF p.left = -1 THEN -1 ELSE p.left - w
        /\ g.chunks = p.chunks /\ g.complete = FALSE
        /\ g.bodyStartIndex = IF p.bodyStartIndex = 0 THEN c ELSE p.bodyStartIndex
        /\ g.body = p.body \o SubSeq(b, c + 1, c + w)
    BY ONLY <2>2, <2>6 DEF MoreBody
  <2>8. g.body = SubSeq(y, 1, n - t)
    <3>1. PICK e : e = c - t
      OBVIOUS
    <3>2. e \in Nat /\ e + w <= Len(y) /\ e + w = n - t
      BY ONLY <1>1, <1>2, <1>9, <2>2, <3>1, c \in Nat, n \in Nat
    <3>3. c + w <= Len(b)
      BY ONLY <1>4, <2>2, n <= Len(m)
    <3>4. ASSUME NEW i \in 1 .. w PROVE b[c + i] = y[e + i]
      <4>1. PICK x : x = e + i
        OBVIOUS
      <4>2. x \in 1 .. Len(y) /\ c + i = t + x
        BY ONLY <1>2, <2>2, <3>1, <3>2, <4>1, i \in 1 .. w, c \in Nat
      <4>3. m[t + x].byte = y[x]
        BY ONLY <1>3, <4>2 DEF BodyIn
      <4>4. t + x \in 1 .. Len(m)
        BY ONLY <1>1, <1>2, <1>3, <4>2
      <4> QED BY ONLY <1>4, <4>1, <4>2, <4>3, <4>4
    <3>5. BodyJoins(y, b, c, e, w)
      BY ONLY <1>2, <1>4, <2>2, <3>2, <3>3, <3>4, BodyGrows, c \in Nat
    <3> QED BY ONLY <1>5, <2>7, <3>1, <3>2, <3>5 DEF BodyJoins
  <2>9. g.left = PlainLeft(r, n)
    <3>1. CASE f = "length"
      <4>1. p.left = l - (c - t)
        BY ONLY <1>5, <1>7, <3>1, c \in Nat
      <4>2. p.left # -1 /\ p.left - w = l - (n - t)
        BY ONLY <1>2, <1>9, <2>2, <4>1, c \in Nat, n \in Nat
      <4> QED BY ONLY <1>7, <2>7, <3>1, <4>2, n \in Nat
    <3>2. CASE f # "length"
      <4>1. p.left = -1
        BY ONLY <1>5, <1>7, <3>2, c \in Nat
      <4> QED BY ONLY <1>7, <2>7, <3>2, <4>1, n \in Nat
    <3> QED BY <3>1, <3>2
  <2>10. g.bodyStartIndex = PlainStart(r)
    <3>1. PlainStart(r) = t
      BY ONLY <1>8, <2>3
    <3>2. CASE PlainKnown(r, c, p)
      BY ONLY <1>2, <2>7, <3>1, <3>2 DEF PlainKnown
    <3>3. CASE PlainNew(r, c, p)
      BY ONLY <1>1, <2>7, <3>1, <3>3 DEF PlainNew
    <3> QED BY <3>2, <3>3
  <2>11. PastTop(r, g) /\ g.isChunked = FALSE /\ g.thrown = FALSE
    BY ONLY <1>5, <1>6, <2>7 DEF PastTop, SameTop
  <2>12. ~LengthIsZero(g)
    <3>1. LengthIsZero(g) <=> f = "length" /\ l = 0
      BY ONLY <1>1, <2>11, WhenLengthIsZero, r \in Responses
    <3> QED BY ONLY <2>3, <3>1
  <2>13. PICK h : Completed(p, g, h) /\ readPiece(p) = IF g.isChunked = TRUE THEN readChunks(h) ELSE h
    BY ONLY <1>12, <2>5, <2>7, <2>11, PieceRead
  <2>14. q = h
    BY ONLY <2>11, <2>13, q = readPiece(p)
  <2>15. /\ IsParser(h) /\ SameTop(g, h) /\ SameBytes(g, h)
         /\ h.left = g.left /\ h.chunks = g.chunks /\ h.bodyStartIndex = g.bodyStartIndex /\ h.body = g.body
         /\ Finished(p, g, g.complete) => h.complete = TRUE
         /\ ~Finished(p, g, g.complete) => h.complete = FALSE
    BY ONLY <2>13 DEF Completed
  <2>16. Finished(p, g, g.complete) <=> g.left = 0
    BY ONLY <1>12, <2>7, <2>11, <2>12 DEF Finished
  <2>17. PastTop(r, h) /\ At(h, b, n, n)
    BY ONLY <2>7, <2>11, <2>15 DEF PastTop, At, SameTop, SameBytes
  <2>18. Plain(r, b, n, n, h)
    BY ONLY <1>1, <1>5, <2>7, <2>8, <2>9, <2>15, <2>17 DEF Plain
  <2>19. PlainKnown(r, n, h)
    BY ONLY <2>9, <2>10, <2>15, <2>16 DEF PlainKnown
  <2> QED BY ONLY <2>14, <2>18, <2>19
<1> QED BY <1>11, <1>12

-----------------------------------------------------------------------------
(* A body in chunks.                                                        *)

\* Of chunk i w bytes have been taken, and more may have come.
PartOfChunk(r, n, i, w) == w \in 0 .. Size(r, i) /\ ChunkAt(r, i) + 3 + w <= n

\* readBody takes what has come of the chunk that is being read.
LEMMA ChunkIsTaken ==
  ASSUME NEW r \in Responses, r.framing = "chunked", NEW m, MessageHolds(r, m), NEW b, b = BytesOf(m),
         NEW n \in Nat, n <= Len(m), NEW k \in Nat, k = Len(r.sizes), NEW i \in 1 .. k + 1, NEW w \in Nat,
         NEW p, InChunk(r, b, n, i, w, p), PartOfChunk(r, n, i, w), p.left # 0, NEW q, q = readBody(p)
  PROVE  \E v \in Nat : Taken(r, n, i, v) /\ InChunk(r, b, n, i, v, q)
<1>1. PICK c, z, e, y : c = ChunkAt(r, i) /\ z = Size(r, i) /\ e = Before(r, i) /\ y = r.body
  OBVIOUS
<1>2. ChunkPlaces(r, k)
  BY ChunksAt
<1>3. i \in 1 .. k + 2 /\ i + 1 \in 1 .. k + 2
  OBVIOUS
<1>4. c \in Nat /\ z \in Nat /\ e \in Nat /\ e + z <= Len(y)
  <2>1. ChunkAt(r, i) \in Nat /\ Size(r, i) \in Nat /\ Before(r, i) \in Nat
    BY ONLY <1>2, <1>3 DEF ChunkPlaces
  <2>2. Before(r, i + 1) = Before(r, i) + Size(r, i)
    BY ONLY <1>2, i \in 1 .. k + 1 DEF ChunkPlaces
  <2>3. Before(r, i + 1) <= Len(r.body)
    BY ONLY <1>2, <1>3 DEF ChunkPlaces
  <2> QED BY ONLY <1>1, <2>1, <2>2, <2>3
<1>5. PICK j \in 0 .. k : /\ InBody(r, b, n, c + 3 + w, z - w, j, e + w, p)
                          /\ j = i \/ (j = k /\ j <= i)
  BY <1>1 DEF InChunk
<1>6. PICK a : a = c + 3 + w
  OBVIOUS
<1>7. a \in Nat /\ a <= n /\ w \in 0 .. z
  <2>1. w \in 0 .. z /\ c + 3 + w <= n
    BY ONLY <1>1, PartOfChunk(r, n, i, w) DEF PartOfChunk
  <2> QED BY ONLY <1>4, <1>6, <2>1
<1>8. /\ PastTop(r, p) /\ At(p, b, a, n) /\ p.left = z - w /\ p.chunks = ChunksTo(r, j) /\ p.body = SubSeq(y, 1, e + w)
      /\ j = 0 => p.bodyStartIndex = 0
      /\ j # 0 => p.bodyStartIndex = BodyStart(r) + 3
  BY ONLY <1>1, <1>5, <1>6 DEF InBody
<1>9. IsParser(p)
  BY ONLY <1>8 DEF PastTop
<1>10. z - w \in Nat /\ z - w # 0
  <2>1. z - w \in Nat
    BY ONLY <1>4, <1>7
  <2> QED BY ONLY <1>8, <2>1, p.left # 0
<1>11. i # k + 1
  <2>1. Size(r, k + 1) = 0
    BY ONLY <1>2 DEF ChunkPlaces
  <2>2. CASE i = k + 1
    <3>1. z = 0
      BY <1>1, <2>1, <2>2
    <3>2. w = 0 /\ z - w = 0
      <4>1. w \in 0 .. 0
        BY ONLY <1>7, <3>1
      <4>2. w = 0
        BY ONLY <4>1
      <4> QED BY ONLY <3>1, <4>2
    <3> QED BY ONLY <1>10, <3>2
  <2> QED BY <2>2
<1>12. p.complete = FALSE
  BY <1>11 DEF InChunk
<1>13. j # 0
  BY ONLY <1>5, <1>11, i \in 1 .. k + 1, k \in Nat
<1>14. PICK x : x \in Nat /\ x <= z - w /\ x <= n - a /\ (x = z - w \/ x = n - a)
  <2>1. PICK d, f : d = n - a /\ f = z - w
    OBVIOUS
  <2>2. d \in Nat /\ f \in Nat
    BY ONLY <1>7, <1>10, <2>1, n \in Nat
  <2>3. CASE f <= d
    <3>1. f \in Nat /\ f <= f /\ f <= d
      BY ONLY <2>2, <2>3
    <3> QED BY ONLY <2>1, <3>1
  <2>4. CASE ~(f <= d)
    <3>1. d \in Nat /\ d <= f /\ d <= d
      BY ONLY <2>2, <2>4
    <3> QED BY ONLY <2>1, <3>1
  <2> QED BY <2>3, <2>4
<1>15. b \in Seq(Byte) /\ Len(b) = Len(m) /\ n <= Len(b)
  <2>1. m \in Seq(Piece)
    BY DEF MessageHolds
  <2> QED BY <2>1, BytesAre
<1>16. p.left \in Int /\ p.left >= -1 /\ p.left # -1 /\ Takes(p, n - a, x)
  <2>1. p.left \in Nat
    BY ONLY <1>8, <1>10
  <2>2. p.left \in Int /\ p.left >= -1 /\ p.left # -1
    BY ONLY <2>1
  <2> QED BY ONLY <1>8, <1>14, <2>2 DEF Takes
<1>17. MoreBody(p, b, a, n, x, q)
  BY ONLY <1>7, <1>8, <1>9, <1>12, <1>14, <1>15, <1>16, BodyRead, n \in Nat, q = readBody(p)
<1>18. /\ IsParser(q) /\ SameTop(p, q) /\ At(q, b, a + x, n)
       /\ q.left = p.left - x
       /\ q.chunks = p.chunks /\ q.complete = FALSE
       /\ q.bodyStartIndex = IF p.bodyStartIndex = 0 THEN a ELSE p.bodyStartIndex
       /\ q.body = p.body \o SubSeq(b, a + 1, a + x)
  BY ONLY <1>16, <1>17 DEF MoreBody
<1>19. PICK v, g : v = w + x /\ g = e + w
  OBVIOUS
<1>20. /\ v \in 0 .. z /\ v \in Nat /\ g \in Nat /\ a + x = c + 3 + v /\ a + x <= n
       /\ e + v = g + x /\ g + x <= Len(y) /\ (z - w) - x = z - v
       /\ (v = z \/ a + x = n)
  <2>1. Len(y) \in Nat
    BY <1>1, ResponseIs
  <2>2. v \in 0 .. z /\ v \in Nat /\ g \in Nat
    BY ONLY <1>4, <1>7, <1>14, <1>19
  <2>3. a + x = c + 3 + v /\ e + v = g + x /\ (z - w) - x = z - v
    BY ONLY <1>4, <1>6, <1>7, <1>14, <1>19
  <2>4. a + x <= n /\ g + x <= Len(y)
    BY ONLY <1>4, <1>7, <1>14, <1>19, <2>1, n \in Nat
  <2>5. x = z - w => v = z
    BY ONLY <1>4, <1>7, <1>14, <1>19
  <2>6. x = n - a => a + x = n
    BY ONLY <1>7, n \in Nat
  <2> QED BY ONLY <1>14, <2>2, <2>3, <2>4, <2>5, <2>6
<1>21. q.body = SubSeq(y, 1, g + x)
  <2>1. ASSUME NEW s \in 1 .. x PROVE b[a + s] = y[g + s]
    <3>1. PICK u : u = w + s
      OBVIOUS
    <3>2. u \in 1 .. z /\ a + s = c + 3 + u /\ g + s = e + u
      BY ONLY <1>4, <1>6, <1>7, <1>14, <1>19, <3>1, s \in 1 .. x
    <3>3. u \in 1 .. Size(r, i)
      BY <1>1, <3>2
    <3>4. b[ChunkAt(r, i) + 3 + u] = r.body[Before(r, i) + u]
      BY <3>3, ChunkBytes
    <3> QED BY ONLY <1>1, <3>2, <3>4
  <2>2. y \in Seq(Byte)
    BY <1>1, ResponseIs
  <2>3. a + x <= Len(b)
    BY ONLY <1>7, <1>14, <1>15, <1>20, n \in Nat, n <= Len(m)
  <2>4. BodyJoins(y, b, a, g, x)
    BY ONLY <1>7, <1>14, <1>15, <1>20, <2>1, <2>2, <2>3, BodyGrows
  <2> QED BY ONLY <1>8, <1>18, <1>19, <2>4 DEF BodyJoins
<1>22. PastTop(r, q)
  BY ONLY <1>8, <1>18 DEF PastTop, SameTop
<1>23. q.bodyStartIndex = BodyStart(r) + 3
  <2>1. BodyStart(r) + 3 # 0
    BY PlacesAre
  <2> QED BY ONLY <1>8, <1>13, <1>18, <2>1
<1>24. q.left = z - v
  BY ONLY <1>8, <1>18, <1>20
<1>25. At(q, b, c + 3 + v, n)
  BY ONLY <1>18, <1>20
<1>26. q.body = SubSeq(y, 1, e + v)
  BY ONLY <1>20, <1>21
<1>27. InBody(r, b, n, c + 3 + v, z - v, j, e + v, q)
  BY ONLY <1>1, <1>8, <1>13, <1>18, <1>22, <1>23, <1>24, <1>25, <1>26 DEF InBody
<1>28. InChunk(r, b, n, i, v, q)
  BY <1>1, <1>5, <1>11, <1>18, <1>27 DEF InChunk
<1>29. Taken(r, n, i, v)
  BY ONLY <1>1, <1>20 DEF Taken
<1> QED BY <1>20, <1>28, <1>29

\* Before or in a chunk, of which more may have come.
ChunksCome(r, b, n, p) ==
  \/ \E i \in 1 .. Len(r.sizes) + 2 : AtChunk(r, b, n, i, p) /\ ChunkAt(r, i) <= n
  \/ \E i \in 1 .. Len(r.sizes) + 1, w \in Nat : InChunk(r, b, n, i, w, p) /\ PartOfChunk(r, n, i, w)

\* What every one of these states has in common.
LEMMA ChunksComeIs ==
  ASSUME NEW r \in Responses, r.framing = "chunked", NEW m, MessageHolds(r, m), NEW b, b = BytesOf(m),
         NEW n \in Nat, n <= Len(m), NEW p, ChunksCome(r, b, n, p)
  PROVE  /\ PastTop(r, p) /\ p.complete \in BOOLEAN
         /\ p.left = 0 \/ \E i \in 1 .. Len(r.sizes) + 1, w \in Nat :
                            InChunk(r, b, n, i, w, p) /\ PartOfChunk(r, n, i, w)
<1>1. CASE \E i \in 1 .. Len(r.sizes) + 2 : AtChunk(r, b, n, i, p) /\ ChunkAt(r, i) <= n
  <2>1. PICK i : AtChunk(r, b, n, i, p)
    BY <1>1
  <2>2. PICK c, j, e : InBody(r, b, n, c, 0, j, e, p)
    BY <2>1 DEF AtChunk
  <2>3. p.complete \in BOOLEAN
    BY <2>1 DEF AtChunk
  <2> QED BY <2>2, <2>3 DEF InBody
<1>2. CASE \E i \in 1 .. Len(r.sizes) + 1, w \in Nat :
             InChunk(r, b, n, i, w, p) /\ PartOfChunk(r, n, i, w)
  <2>1. PICK i, w : InChunk(r, b, n, i, w, p)
    BY <1>2
  <2>2. PICK c, l, j, e : InBody(r, b, n, c, l, j, e, p)
    BY <2>1 DEF InChunk
  <2>3. p.complete \in BOOLEAN
    BY <2>1 DEF InChunk
  <2> QED BY <1>2, <2>2, <2>3 DEF InBody
<1> QED BY <1>1, <1>2 DEF ChunksCome

\* Before the loop there are turns enough.
LEMMA TurnsEnough ==
  ASSUME NEW r \in Responses, r.framing = "chunked", NEW m, MessageHolds(r, m), NEW b, b = BytesOf(m),
         NEW n \in Nat, n <= Len(m), NEW p,
         \/ \E i \in 1 .. Len(r.sizes) + 2 : AtChunk(r, b, n, i, p) /\ ChunkAt(r, i) <= n
         \/ \E i \in 1 .. Len(r.sizes) + 1, w \in Nat : InChunk(r, b, n, i, w, p) /\ Taken(r, n, i, w)
  PROVE  Len(p.remaining) \in Nat /\ ChunksRead(r, b, n, Len(p.remaining), p)
<1>1. PICK k : k = Len(r.sizes)
  OBVIOUS
<1>2. k \in Nat
  BY <1>1, ResponseIs
<1>3. ChunkPlaces(r, k)
  BY <1>1, <1>2, ChunksAt
<1>4. b \in Seq(Byte) /\ Len(b) = Len(m) /\ n <= Len(b)
  <2>1. m \in Seq(Piece)
    BY DEF MessageHolds
  <2> QED BY <2>1, BytesAre
<1>5. ASSUME NEW c \in Nat, c <= n, At(p, b, c, n)
      PROVE  Len(p.remaining) = n - c /\ Len(p.remaining) \in Nat
  <2>1. p.remaining = SubSeq(b, c + 1, n)
    BY <1>5 DEF At
  <2>2. Len(p.remaining) = n - c
    BY ONLY <1>4, <1>5, <2>1, Between, c \in Nat, n \in Nat
  <2> QED BY ONLY <1>5, <2>2, c \in Nat, n \in Nat
<1>6. CASE \E i \in 1 .. k + 2 : AtChunk(r, b, n, i, p) /\ ChunkAt(r, i) <= n
  <2>1. PICK i \in 1 .. k + 2 : AtChunk(r, b, n, i, p) /\ ChunkAt(r, i) <= n
    BY <1>6
  <2>2. PICK c : c = ChunkAt(r, i)
    OBVIOUS
  <2>3. c \in Nat
    BY ONLY <1>3, <2>2, i \in 1 .. k + 2 DEF ChunkPlaces
  <2>4. At(p, b, c, n)
    BY ONLY <2>1, <2>2 DEF AtChunk, InBody
  <2>5. Len(p.remaining) = n - c /\ Len(p.remaining) \in Nat
    BY <1>5, <2>1, <2>2, <2>3, <2>4
  <2>6. n - c <= Len(p.remaining)
    BY ONLY <2>5
  <2>7. BeforeChunk(r, b, n, Len(p.remaining), i, p)
    BY ONLY <2>1, <2>2, <2>6 DEF BeforeChunk
  <2> QED BY <1>1, <2>5, <2>7 DEF ChunksRead
<1>7. CASE \E i \in 1 .. k + 1, w \in Nat : InChunk(r, b, n, i, w, p) /\ Taken(r, n, i, w)
  <2>1. PICK i \in 1 .. k + 1, w \in Nat : InChunk(r, b, n, i, w, p) /\ Taken(r, n, i, w)
    BY <1>7
  <2>2. PICK c, a : c = ChunkAt(r, i) /\ a = c + 3 + w
    OBVIOUS
  <2>3. c \in Nat /\ a \in Nat
    <3>1. i \in 1 .. k + 2
      BY <1>2
    <3>2. c \in Nat
      BY ONLY <1>3, <2>2, <3>1 DEF ChunkPlaces
    <3> QED BY ONLY <2>2, <3>2, w \in Nat
  <2>4. At(p, b, a, n)
    BY ONLY <2>1, <2>2 DEF InChunk, InBody
  <2>5. a <= n
    BY ONLY <2>1, <2>2 DEF Taken
  <2>6. Len(p.remaining) = n - a /\ Len(p.remaining) \in Nat
    BY <1>5, <2>3, <2>4, <2>5
  <2>7. n - (c + 3 + w) <= Len(p.remaining)
    BY ONLY <2>2, <2>6
  <2>8. WithinChunk(r, b, n, Len(p.remaining), i, w, p)
    BY ONLY <2>1, <2>2, <2>7 DEF WithinChunk
  <2> QED BY <1>1, <2>6, <2>8 DEF ChunksRead
<1> QED BY <1>1, <1>6, <1>7

\* A piece of a body in chunks.
LEMMA ChunkPieceRead ==
  ASSUME NEW r \in Responses, r.framing = "chunked", NEW m, MessageHolds(r, m), NEW b, b = BytesOf(m),
         NEW n \in Nat, n <= Len(m), NEW p, ChunksCome(r, b, n, p), NEW q, q = readPiece(p)
  PROVE  ChunksRead(r, b, n, 0, q)
<1>1. PICK k : k = Len(r.sizes)
  OBVIOUS
<1>2. k \in Nat
  BY <1>1, ResponseIs
<1>3. PICK g : g = (IF p.left # 0 THEN readBody(p) ELSE p)
  OBVIOUS
<1>4. \/ \E i \in 1 .. Len(r.sizes) + 2 : AtChunk(r, b, n, i, g) /\ ChunkAt(r, i) <= n
      \/ \E i \in 1 .. Len(r.sizes) + 1, w \in Nat : InChunk(r, b, n, i, w, g) /\ Taken(r, n, i, w)
  <2>1. CASE p.left = 0
    <3>1. g = p
      BY ONLY <1>3, <2>1
    <3>2. CASE \E i \in 1 .. Len(r.sizes) + 2 : AtChunk(r, b, n, i, p) /\ ChunkAt(r, i) <= n
      BY ONLY <3>1, <3>2
    <3>3. CASE \E i \in 1 .. Len(r.sizes) + 1, w \in Nat : InChunk(r, b, n, i, w, p) /\ PartOfChunk(r, n, i, w)
      <4>1. PICK i \in 1 .. Len(r.sizes) + 1, w \in Nat : InChunk(r, b, n, i, w, p) /\ PartOfChunk(r, n, i, w)
        BY <3>3
      <4>2. Size(r, i) - w = 0
        BY ONLY <2>1, <4>1 DEF InChunk, InBody
      <4>3. PICK z : z = Size(r, i)
        OBVIOUS
      <4>4. z \in Nat
        <5>1. i \in 1 .. k + 2 /\ ChunkPlaces(r, k)
          BY <1>1, <1>2, ChunksAt
        <5> QED BY ONLY <4>3, <5>1 DEF ChunkPlaces
      <4>5. w = z
        BY ONLY <4>2, <4>3, <4>4, w \in Nat
      <4>6. Taken(r, n, i, w)
        BY ONLY <4>1, <4>3, <4>5 DEF Taken, PartOfChunk
      <4> QED BY <3>1, <4>1, <4>6
    <3> QED BY <3>2, <3>3 DEF ChunksCome
  <2>2. CASE p.left # 0
    <3>1. g = readBody(p)
      BY ONLY <1>3, <2>2
    <3>2. PICK i \in 1 .. k + 1, w \in Nat : InChunk(r, b, n, i, w, p) /\ PartOfChunk(r, n, i, w)
      BY <1>1, <2>2, ChunksComeIs
    <3>3. \E v \in Nat : Taken(r, n, i, v) /\ InChunk(r, b, n, i, v, g)
      BY <1>1, <1>2, <2>2, <3>1, <3>2, ChunkIsTaken
    <3> QED BY <1>1, <3>3
  <2> QED BY <2>1, <2>2
<1>5. ChunksCome(r, b, n, g)
  <2>1. \A i, w : Taken(r, n, i, w) => PartOfChunk(r, n, i, w)
    BY DEF Taken, PartOfChunk
  <2> QED BY ONLY <1>4, <2>1 DEF ChunksCome
<1>6. PastTop(r, g) /\ g.complete \in BOOLEAN
  BY <1>5, ChunksComeIs
<1>7. IsParser(g) /\ g.isChunked = TRUE /\ g.thrown = FALSE /\ g.isChunked \in BOOLEAN
  BY <1>6 DEF PastTop
<1>8. PICK h : Completed(p, g, h) /\ readPiece(p) = IF g.isChunked = TRUE THEN readChunks(h) ELSE h
  BY ONLY <1>3, <1>6, <1>7, PieceRead
<1>9. ~LengthIsZero(g)
  <2>1. r.framing # "length"
    OBVIOUS
  <2> QED BY <1>6, <2>1, WhenLengthIsZero
<1>10. Finished(p, g, g.complete) <=> g.complete = TRUE
  <2>1. g.isChunked # FALSE
    BY <1>7
  <2> QED BY ONLY <1>9, <2>1 DEF Finished
<1>11. h = g
  <2>1. /\ IsParser(h) /\ SameTop(g, h) /\ SameBytes(g, h)
        /\ h.left = g.left /\ h.chunks = g.chunks /\ h.bodyStartIndex = g.bodyStartIndex /\ h.body = g.body
        /\ Finished(p, g, g.complete) => h.complete = TRUE
        /\ ~Finished(p, g, g.complete) => h.complete = FALSE
    BY ONLY <1>8 DEF Completed
  <2>2. h.complete = g.complete
    BY ONLY <1>6, <1>10, <2>1
  <2>3. SameBody(g, h)
    BY ONLY <2>1, <2>2 DEF SameBody
  <2> QED BY ONLY <1>7, <2>1, <2>3, SameParser
<1>12. q = readChunks(g)
  BY ONLY <1>7, <1>8, <1>11, q = readPiece(p)
<1>13. PICK turns : turns = Len(g.remaining)
  OBVIOUS
<1>14. turns \in Nat /\ ChunksRead(r, b, n, turns, g)
  BY <1>4, <1>13, TurnsEnough
<1> QED BY <1>12, <1>13, <1>14, ChunksAreRead

-----------------------------------------------------------------------------
(* What the parser knows of n bytes.                                        *)

TopAt(r, b, n, k, p) ==
  InTop(r, b, n, k, p) /\ LineStart(r, k) <= n /\ n < LineStart(r, k + 1)

PlainAt(r, b, n, p) == BodyStart(r) <= n /\ Plain(r, b, n, n, p) /\ PlainKnown(r, n, p)

Quiet(r, b, n, p) ==
  \/ \E k \in 0 .. LinesOf(r) : TopAt(r, b, n, k, p)
  \/ r.framing # "chunked" /\ PlainAt(r, b, n, p)
  \/ r.framing = "chunked" /\ ChunksRead(r, b, n, 0, p)

\* The parser, with the bytes up to n2.
With(p, b, n, n2) == [p EXCEPT !.remaining = @ \o SubSeq(b, n + 1, n2)]

\* c bytes have been taken, and more are there.
More(p, b, c, n2, q) == IsParser(q) /\ SameTop(p, q) /\ SameBody(p, q) /\ At(q, b, c, n2)

\* With more bytes the parser is where it was, with more to read.
LEMMA MoreBytes ==
  ASSUME NEW b \in Seq(Byte), NEW c \in Nat, NEW n \in Nat, NEW n2 \in Nat, c <= n, n <= n2, n2 <= Len(b),
         NEW p, IsParser(p), At(p, b, c, n),
         NEW q, q = With(p, b, n, n2)
  PROVE  More(p, b, c, n2, q)
<1>1. PICK data : data = p.remaining \o SubSeq(b, n + 1, n2)
  OBVIOUS
<1>2. q = [p EXCEPT !.remaining = data]
  BY ONLY <1>1, IsParser(p), q = With(p, b, n, n2) DEF IsParser, Fields, With
<1>3. IsParser(q) /\ q.remaining = data /\ q.currentByteIdx = p.currentByteIdx
  BY ONLY <1>2, IsParser(p) DEF IsParser, Fields
<1>4. SameTop(p, q)
  BY ONLY <1>2, IsParser(p) DEF IsParser, Fields, SameTop
<1>5. SameBody(p, q)
  BY ONLY <1>2, IsParser(p) DEF IsParser, Fields, SameBody
<1>6. p.remaining = SubSeq(b, c + 1, n) /\ p.currentByteIdx = c
  BY DEF At
<1>7. data = SubSeq(b, c + 1, n2)
  <2>1. SubSeq(b, c + 1, n) \o SubSeq(b, n + 1, n2) = SubSeq(b, c + 1, n2)
    BY BetweenJoined
  <2> QED BY ONLY <1>1, <1>6, <2>1
<1>8. At(q, b, c, n2)
  BY ONLY <1>3, <1>6, <1>7 DEF At
<1> QED BY ONLY <1>3, <1>4, <1>5, <1>8 DEF More

\* The same, for bytes of a message.
LEMMA StatesGrow ==
  ASSUME NEW m, m \in Seq(Piece), NEW b, b = BytesOf(m),
         NEW n \in Nat, NEW n2 \in Nat, n <= n2, n2 <= Len(m), NEW p,
         NEW q, q = With(p, b, n, n2), NEW c \in Nat, c <= n, IsParser(p), At(p, b, c, n)
  PROVE  More(p, b, c, n2, q)
<1>1. b \in Seq(Byte) /\ n2 <= Len(b)
  BY BytesAre
<1> QED BY <1>1, MoreBytes

\* More bytes leave the parser within the top.
LEMMA TopGrows ==
  ASSUME NEW r \in Responses, NEW m, MessageHolds(r, m), NEW b, b = BytesOf(m),
         NEW n \in Nat, NEW n2 \in Nat, n <= n2, n2 <= Len(m), NEW p,
         NEW q, q = With(p, b, n, n2),
         NEW k \in 0 .. LinesOf(r), InTop(r, b, n, k, p), LineStart(r, k) <= n
  PROVE  InTop(r, b, n2, k, q)
<1>1. LineStart(r, k) \in Nat
  BY TopLines DEF TopLine
<1>2. IsParser(p) /\ At(p, b, LineStart(r, k), n)
  BY DEF InTop
<1>3. IsParser(q) /\ SameTop(p, q) /\ SameBody(p, q) /\ At(q, b, LineStart(r, k), n2)
  <2>1. m \in Seq(Piece)
    BY DEF MessageHolds
  <2>2. PICK d : d = LineStart(r, k)
    OBVIOUS
  <2>3. d \in Nat /\ d <= n /\ IsParser(p) /\ At(p, b, d, n)
    BY <2>2, <1>1, <1>2
  <2>4. More(p, b, d, n2, q)
    BY ONLY <2>1, <2>3, StatesGrow, b = BytesOf(m), n \in Nat, n2 \in Nat, n <= n2, n2 <= Len(m), q = With(p, b, n, n2)
  <2> QED BY ONLY <2>2, <2>4 DEF More
<1> QED BY ONLY <1>3, InTop(r, b, n, k, p) DEF InTop, SameTop, SameBody

\* More bytes leave the parser within a body that is not chunked.
LEMMA PlainGrows ==
  ASSUME NEW r \in Responses, NEW m, MessageHolds(r, m), NEW b, b = BytesOf(m),
         NEW n \in Nat, NEW n2 \in Nat, n <= n2, n2 <= Len(m), NEW p,
         NEW q, q = With(p, b, n, n2), PlainAt(r, b, n, p)
  PROVE  Plain(r, b, n, n2, q) /\ PlainKnown(r, n, q)
<1>1. Plain(r, b, n, n, p) /\ PlainKnown(r, n, p)
  BY DEF PlainAt
<1>2. PastTop(r, p) /\ At(p, b, n, n) /\ IsParser(p)
  BY ONLY <1>1 DEF Plain, PastTop
<1>3. IsParser(q) /\ SameTop(p, q) /\ SameBody(p, q) /\ At(q, b, n, n2)
  <2>1. m \in Seq(Piece)
    BY DEF MessageHolds
  <2>2. PICK d : d = n
    OBVIOUS
  <2>3. d \in Nat /\ d <= n /\ IsParser(p) /\ At(p, b, d, n)
    BY <2>2, <1>2
  <2>4. More(p, b, d, n2, q)
    BY ONLY <2>1, <2>3, StatesGrow, b = BytesOf(m), n \in Nat, n2 \in Nat, n <= n2, n2 <= Len(m), q = With(p, b, n, n2)
  <2> QED BY ONLY <2>2, <2>4 DEF More
<1>4. PastTop(r, q)
  BY ONLY <1>2, <1>3 DEF PastTop, SameTop
<1>5. Plain(r, b, n, n2, q)
  BY ONLY <1>1, <1>3, <1>4 DEF Plain, SameBody
<1>6. PlainKnown(r, n, q)
  BY ONLY <1>1, <1>3 DEF PlainKnown, SameBody
<1> QED BY <1>5, <1>6

\* More bytes leave the parser where it is in the chunks.
LEMMA BodyStateGrows ==
  ASSUME NEW r \in Responses, NEW m, MessageHolds(r, m), NEW b, b = BytesOf(m),
         NEW n \in Nat, NEW n2 \in Nat, n <= n2, n2 <= Len(m), NEW p,
         NEW q, q = With(p, b, n, n2),
         NEW c \in Nat, c <= n, NEW left, NEW j, NEW e, InBody(r, b, n, c, left, j, e, p)
  PROVE  InBody(r, b, n2, c, left, j, e, q) /\ q.complete = p.complete
<1>1. PastTop(r, p) /\ At(p, b, c, n) /\ IsParser(p)
  BY DEF InBody, PastTop
<1>2. IsParser(q) /\ SameTop(p, q) /\ SameBody(p, q) /\ At(q, b, c, n2)
  <2>1. m \in Seq(Piece)
    BY DEF MessageHolds
  <2>2. PICK d : d = c
    OBVIOUS
  <2>3. d \in Nat /\ d <= n /\ IsParser(p) /\ At(p, b, d, n)
    BY <2>2, <1>1
  <2>4. More(p, b, d, n2, q)
    BY ONLY <2>1, <2>3, StatesGrow, b = BytesOf(m), n \in Nat, n2 \in Nat, n <= n2, n2 <= Len(m), q = With(p, b, n, n2)
  <2> QED BY ONLY <2>2, <2>4 DEF More
<1>3. PastTop(r, q)
  BY ONLY <1>1, <1>2 DEF PastTop, SameTop
<1> QED BY ONLY <1>2, <1>3, InBody(r, b, n, c, left, j, e, p) DEF InBody, SameBody

\* A parser of chunks that gets more bytes is ready to go on.
LEMMA ChunksGrowOn ==
  ASSUME NEW r \in Responses, r.framing = "chunked", NEW m, MessageHolds(r, m), NEW b, b = BytesOf(m),
         NEW n \in Nat, NEW n2 \in Nat, n <= n2, n2 <= Len(m), NEW p,
         NEW q, q = With(p, b, n, n2), ChunksRead(r, b, n, 0, p)
  PROVE  ChunksCome(r, b, n2, q)
<1>1. PICK k : k = Len(r.sizes)
  OBVIOUS
<1>2. k \in Nat
  BY <1>1, ResponseIs
<1>3. ChunkPlaces(r, k)
  BY <1>1, <1>2, ChunksAt
<1>4. CASE \E i \in 1 .. k + 2 : BeforeChunk(r, b, n, 0, i, p)
  <2>1. PICK i \in 1 .. k + 2 : AtChunk(r, b, n, i, p) /\ ChunkAt(r, i) <= n
    BY <1>4 DEF BeforeChunk
  <2>2. PICK c, e : c = ChunkAt(r, i) /\ e = Before(r, i)
    OBVIOUS
  <2>3. c \in Nat
    BY ONLY <1>3, <2>2, i \in 1 .. k + 2 DEF ChunkPlaces
  <2>4. PICK j \in 0 .. k : InBody(r, b, n, c, 0, j, e, p) /\ (j = i - 1 \/ (j = k /\ j <= i - 1))
    BY <1>1, <2>1, <2>2 DEF AtChunk
  <2>5. InBody(r, b, n2, c, 0, j, e, q) /\ q.complete = p.complete
    <3>1. c <= n
      BY <2>1, <2>2
    <3> QED BY ONLY <2>3, <2>4, <3>1, BodyStateGrows, r \in Responses, MessageHolds(r, m), b = BytesOf(m), n \in Nat, n2 \in Nat, n <= n2, n2 <= Len(m), q = With(p, b, n, n2)
  <2>6. AtChunk(r, b, n2, i, q)
    BY ONLY <1>1, <2>1, <2>2, <2>4, <2>5 DEF AtChunk
  <2>7. c <= n2
    BY <2>1, <2>2, <2>3
  <2> QED BY <1>1, <2>2, <2>6, <2>7 DEF ChunksCome
<1>5. CASE \E i \in 1 .. k + 1, w \in Nat : WithinChunk(r, b, n, 0, i, w, p)
  <2>1. PICK i \in 1 .. k + 1, w \in Nat : InChunk(r, b, n, i, w, p) /\ Taken(r, n, i, w)
    BY <1>5 DEF WithinChunk
  <2>2. PICK c, e, a, f, z : c = ChunkAt(r, i) /\ e = Before(r, i) /\ a = c + 3 + w /\ f = e + w /\ z = Size(r, i)
    OBVIOUS
  <2>3. c \in Nat /\ a \in Nat
    <3>1. i \in 1 .. k + 2
      BY <1>2
    <3>2. c \in Nat
      BY ONLY <1>3, <2>2, <3>1 DEF ChunkPlaces
    <3> QED BY ONLY <2>2, <3>2, w \in Nat
  <2>4. a <= n /\ w \in 0 .. z
    BY ONLY <2>1, <2>2 DEF Taken
  <2>5. PICK j \in 0 .. k : InBody(r, b, n, a, z - w, j, f, p) /\ (j = i \/ (j = k /\ j <= i))
    BY <1>1, <2>1, <2>2 DEF InChunk
  <2>6. InBody(r, b, n2, a, z - w, j, f, q) /\ q.complete = p.complete
    BY ONLY <2>3, <2>4, <2>5, BodyStateGrows, r \in Responses, MessageHolds(r, m), b = BytesOf(m), n \in Nat, n2 \in Nat, n <= n2, n2 <= Len(m), q = With(p, b, n, n2)
  <2>7. InChunk(r, b, n2, i, w, q)
    BY ONLY <1>1, <2>1, <2>2, <2>5, <2>6 DEF InChunk
  <2>8. a <= n2
    BY <2>3, <2>4
  <2>9. PartOfChunk(r, n2, i, w)
    BY ONLY <2>2, <2>4, <2>8 DEF PartOfChunk
  <2> QED BY <1>1, <2>7, <2>9 DEF ChunksCome
<1> QED BY <1>1, <1>4, <1>5 DEF ChunksRead

\* An empty part of a sequence is empty.
LEMMA NothingTaken ==
  ASSUME NEW X, NEW s \in Seq(X)
  PROVE  SubSeq(s, 1, 0) = <<>>
<1>1. Len(SubSeq(s, 1, 0)) = 0 /\ SubSeq(s, 1, 0) \in Seq(X)
  OBVIOUS
<1> QED BY <1>1

\* The first piece of the body, with what follows the empty line.
LEMMA FirstPiece ==
  ASSUME NEW r \in Responses, NEW m, MessageHolds(r, m), NEW b, b = BytesOf(m),
         NEW n \in Nat, n <= Len(m), BodyStart(r) <= n, NEW p, AfterTop(r, b, n, p), NEW q, q = readPiece(p)
  PROVE  Quiet(r, b, n, q)
<1>1. PICK t, y : t = BodyStart(r) /\ y = r.body
  OBVIOUS
<1>2. t \in Nat /\ y \in Seq(Byte) /\ Len(y) \in Nat
  BY <1>1, PlacesAre, ResponseIs
<1>3. SubSeq(y, 1, 0) = <<>>
  BY ONLY <1>2, NothingTaken
<1>4. /\ PastTop(r, p) /\ At(p, b, t, n) /\ p.left = LeftOf(r) /\ t <= n
      /\ p.chunks = <<>> /\ p.bodyStartIndex = 0 /\ p.body = <<>> /\ p.complete = FALSE
  BY ONLY <1>1, AfterTop(r, b, n, p), BodyStart(r) <= n DEF AfterTop
<1>5. CASE r.framing = "chunked"
  <2>1. PICK k : k = Len(r.sizes)
    OBVIOUS
  <2>2. k \in Nat
    BY <2>1, ResponseIs
  <2>3. ChunkAt(r, 1) = t /\ Before(r, 1) = 0
    <3>1. ChunkPlaces(r, k)
      BY <1>5, <2>1, <2>2, ChunksAt
    <3> QED BY ONLY <1>1, <3>1 DEF ChunkPlaces
  <2>4. p.left = 0
    BY <1>4, <1>5 DEF LeftOf
  <2>5. ChunksTo(r, 0) = <<>>
    BY DEF ChunksTo
  <2>6. InBody(r, b, n, ChunkAt(r, 1), 0, 0, Before(r, 1), p)
    BY ONLY <1>1, <1>3, <1>4, <2>3, <2>4, <2>5 DEF InBody
  <2>7. 0 \in 0 .. k /\ 0 = 1 - 1 /\ 1 # k + 2 /\ 1 \in 1 .. k + 2
    BY ONLY <2>2
  <2>8. AtChunk(r, b, n, 1, p)
    BY ONLY <1>4, <2>1, <2>6, <2>7 DEF AtChunk
  <2>9. ChunksCome(r, b, n, p)
    BY ONLY <1>4, <2>1, <2>3, <2>7, <2>8 DEF ChunksCome
  <2>10. ChunksRead(r, b, n, 0, q)
    BY <1>5, <2>9, ChunkPieceRead
  <2> QED BY <1>5, <2>10 DEF Quiet
<1>6. CASE r.framing # "chunked"
  <2>1. t - t = 0 /\ Len(y) - 0 = Len(y)
    BY ONLY <1>2
  <2>2. p.left = PlainLeft(r, t)
    BY ONLY <1>1, <1>4, <1>6, <2>1 DEF LeftOf, PlainLeft
  <2>3. Plain(r, b, t, n, p)
    BY ONLY <1>1, <1>3, <1>4, <2>1, <2>2 DEF Plain
  <2>4. PlainNew(r, t, p)
    BY ONLY <1>1, <1>4 DEF PlainNew
  <2>5. Plain(r, b, n, n, q) /\ PlainKnown(r, n, q)
    <3>1. BodyStart(r) <= t
      BY ONLY <1>1, <1>2
    <3> QED BY <1>2, <1>4, <1>6, <2>3, <2>4, <3>1, PlainRead
  <2>6. PlainAt(r, b, n, q)
    BY ONLY <2>5, BodyStart(r) <= n DEF PlainAt
  <2> QED BY <1>6, <2>6 DEF Quiet
<1> QED BY <1>5, <1>6

\* What onChunk makes of more bytes.
LEMMA OnChunk ==
  ASSUME NEW r \in Responses, NEW m, MessageHolds(r, m), NEW b, b = BytesOf(m),
         NEW n \in Nat, NEW n2 \in Nat, n <= n2, n2 <= Len(m), NEW p, Quiet(r, b, n, p),
         NEW q, q = onChunk(p, SubSeq(b, n + 1, n2))
  PROVE  Quiet(r, b, n2, q)
<1>1. PICK g, h : /\ g = With(p, b, n, n2)
                  /\ h = IF g.headersComplete THEN g ELSE readHeaders(g)
  OBVIOUS
<1>2. q = IF h.headersComplete THEN readPiece(h) ELSE h
  BY <1>1 DEF onChunk, With
<1>3. CASE \E k \in 0 .. LinesOf(r) : TopAt(r, b, n, k, p)
  <2>1. PICK k \in 0 .. LinesOf(r) : InTop(r, b, n, k, p) /\ LineStart(r, k) <= n
    BY <1>3 DEF TopAt
  <2>2. InTop(r, b, n2, k, g)
    BY <1>1, <2>1, TopGrows
  <2>3. h = readHeaders(g)
    BY <1>1, <2>2 DEF InTop
  <2>4. LineStart(r, k) <= n2
    <3>1. LineStart(r, k) \in Nat
      BY TopLines DEF TopLine
    <3> QED BY <2>1, <3>1
  <2>5. TopRead(r, b, n2, 0, h)
    BY <2>2, <2>3, <2>4, TopIsRead
  <2>6. CASE AfterTop(r, b, n2, h) /\ BodyStart(r) <= n2
    <3>1. q = readPiece(h)
      BY <1>2, <2>6 DEF AfterTop, PastTop
    <3> QED BY <2>6, <3>1, FirstPiece
  <2>7. CASE \E j \in 0 .. LinesOf(r) :
               /\ InTop(r, b, n2, j, h) /\ LineStart(r, j) <= n2
               /\ n2 < LineStart(r, j + 1) \/ n2 - LineStart(r, j) <= 0
    <3>1. PICK j \in 0 .. LinesOf(r) :
               /\ InTop(r, b, n2, j, h) /\ LineStart(r, j) <= n2
               /\ n2 < LineStart(r, j + 1) \/ n2 - LineStart(r, j) <= 0
      BY <2>7
    <3>2. q = h
      BY <1>2, <3>1 DEF InTop
    <3>3. PICK c, d, w : c = LineStart(r, j) /\ d = LineStart(r, j + 1) /\ w = Len(LineText(r, j))
      OBVIOUS
    <3>4. c \in Nat /\ w \in Nat /\ d = c + w + 2
      <4>1. TopLine(r, m, j)
        BY TopLines
      <4> QED BY <3>3, <4>1 DEF TopLine
    <3>5. n2 < d
      BY <3>1, <3>3, <3>4
    <3>6. TopAt(r, b, n2, j, q)
      BY ONLY <3>1, <3>2, <3>3, <3>5 DEF TopAt
    <3> QED BY <3>6 DEF Quiet
  <2> QED BY <2>5, <2>6, <2>7 DEF TopRead
<1>4. CASE r.framing # "chunked" /\ PlainAt(r, b, n, p)
  <2>1. Plain(r, b, n, n2, g) /\ PlainKnown(r, n, g)
    BY <1>1, <1>4, PlainGrows
  <2>2. h = g /\ g.headersComplete = TRUE
    BY <1>1, <2>1 DEF Plain, PastTop
  <2>3. q = readPiece(g)
    BY <1>2, <2>2
  <2>4. BodyStart(r) <= n
    BY <1>4 DEF PlainAt
  <2>5. Plain(r, b, n2, n2, q) /\ PlainKnown(r, n2, q)
    BY <1>4, <2>1, <2>3, <2>4, PlainRead
  <2>6. BodyStart(r) <= n2
    BY <2>4, PlacesAre
  <2>7. PlainAt(r, b, n2, q)
    BY ONLY <2>5, <2>6 DEF PlainAt
  <2> QED BY <1>4, <2>7 DEF Quiet
<1>5. CASE r.framing = "chunked" /\ ChunksRead(r, b, n, 0, p)
  <2>1. ChunksCome(r, b, n2, g)
    BY <1>1, <1>5, ChunksGrowOn
  <2>2. h = g /\ g.headersComplete = TRUE
    <3>1. PastTop(r, g)
      BY <1>5, <2>1, ChunksComeIs
    <3> QED BY <1>1, <3>1 DEF PastTop
  <2>3. q = readPiece(g)
    BY <1>2, <2>2
  <2>4. ChunksRead(r, b, n2, 0, q)
    BY <1>5, <2>1, <2>3, ChunkPieceRead
  <2> QED BY <1>5, <2>4 DEF Quiet
<1> QED BY <1>3, <1>4, <1>5 DEF Quiet

\* A new parser knows what there is to know of no bytes.
LEMMA StartsQuiet ==
  ASSUME NEW r \in Responses, NEW m, MessageHolds(r, m), NEW b, b = BytesOf(m)
  PROVE  Quiet(r, b, 0, makeHttpResponseParser)
<1>1. PICK p : p = makeHttpResponseParser
  OBVIOUS
<1>2. IsParser(p)
  BY <1>1 DEF makeHttpResponseParser, IsParser, Fields
<1>3. /\ p.remaining = <<>> /\ p.currentByteIdx = 0 /\ p.left = 0 /\ p.isChunked = FALSE
      /\ p.hasStatus = FALSE /\ p.statusLineEndIndex = 0 /\ p.headers = <<>>
      /\ p.headersComplete = FALSE /\ p.chunks = <<>> /\ p.bodyStartIndex = 0
      /\ p.body = <<>> /\ p.complete = FALSE /\ p.thrown = FALSE
  BY <1>1 DEF makeHttpResponseParser
<1>4. b \in Seq(Byte)
  <2>1. m \in Seq(Piece)
    BY DEF MessageHolds
  <2> QED BY <2>1, BytesAre
<1>5. SubSeq(b, 1, 0) = <<>> /\ 0 + 1 = 1
  BY <1>4, NothingTaken
<1>6. LineStart(r, 0) = 0
  BY TopEnds
<1>7. At(p, b, LineStart(r, 0), 0)
  BY ONLY <1>3, <1>5, <1>6 DEF At
<1>8. HeadersAre(r, 0, <<>>)
  <2>1. 1 .. 0 - 1 = {}
    OBVIOUS
  <2>2. Keys(r, 0) = {}
    BY <2>1 DEF Keys
  <2>3. <<>> = [x \in {} |-> <<>>[x]]
    OBVIOUS
  <2> QED BY ONLY <2>1, <2>2, <2>3 DEF HeadersAre
<1>9. InTop(r, b, 0, 0, p)
  BY ONLY <1>2, <1>3, <1>7, <1>8 DEF InTop
<1>10. 0 \in 0 .. LinesOf(r)
  BY TopEnds
<1>11. LineStart(r, 0) <= 0 /\ 0 < LineStart(r, 0 + 1)
  <2>1. TopLine(r, m, 0)
    BY <1>10, TopLines
  <2>2. PICK w, d : w = Len(LineText(r, 0)) /\ d = LineStart(r, 0 + 1)
    OBVIOUS
  <2>3. w \in Nat /\ d = LineStart(r, 0) + w + 2
    BY <2>1, <2>2 DEF TopLine
  <2>4. d > 0
    BY ONLY <1>6, <2>3
  <2> QED BY ONLY <1>6, <2>2, <2>4
<1>12. TopAt(r, b, 0, 0, p)
  BY ONLY <1>9, <1>11 DEF TopAt
<1> QED BY <1>1, <1>10, <1>12 DEF Quiet

-----------------------------------------------------------------------------
(* That is all there is to know: of n bytes there is one parser.            *)

\* A function that grows with each step grows.
LEMMA Ascending ==
  ASSUME NEW last \in Nat, NEW f, \A i \in 0 .. last + 1 : f[i] \in Nat,
         \A i \in 0 .. last : f[i] < f[i + 1],
         NEW i \in 0 .. last, NEW j \in 0 .. last + 1, i < j
  PROVE  f[i + 1] <= f[j]
<1> DEFINE P == {x \in Nat : x <= last + 1 /\ i < x => f[i + 1] <= f[x]}
<1>1. 0 \in P
  OBVIOUS
<1>2. ASSUME NEW x \in Nat, x \in P PROVE x + 1 \in P
  <2> SUFFICES ASSUME x + 1 <= last + 1, i < x + 1 PROVE f[i + 1] <= f[x + 1]
    OBVIOUS
  <2>1. x \in 0 .. last /\ x \in 0 .. last + 1 /\ x + 1 \in 0 .. last + 1 /\ i + 1 \in 0 .. last + 1
    OBVIOUS
  <2>2. PICK u, v, w : u = f[i + 1] /\ v = f[x] /\ w = f[x + 1]
    OBVIOUS
  <2>3. u \in Nat /\ v \in Nat /\ w \in Nat /\ v < w
    BY <2>1, <2>2
  <2>4. CASE i < x
    <3>1. u <= v
      BY <1>2, <2>1, <2>2, <2>4
    <3> QED BY <2>2, <2>3, <3>1
  <2>5. CASE i = x
    BY <2>2, <2>3, <2>5
  <2> QED BY <2>4, <2>5
<1> HIDE DEF P
<1>3. j \in P
  <2>1. j \in Nat
    OBVIOUS
  <2> QED BY <1>1, <1>2, <2>1, InductionOverNat
<1> QED BY <1>3 DEF P

\* A place is in one interval of an ascending function.
LEMMA SameInterval ==
  ASSUME NEW last \in Nat, NEW f, \A i \in 0 .. last + 1 : f[i] \in Nat,
         \A i \in 0 .. last : f[i] < f[i + 1], NEW n \in Nat,
         NEW i \in 0 .. last, NEW j \in 0 .. last,
         f[i] <= n, n < f[i + 1], f[j] <= n, n < f[j + 1]
  PROVE  i = j
<1>1. i \in 0 .. last + 1 /\ j \in 0 .. last + 1 /\ i + 1 \in 0 .. last + 1 /\ j + 1 \in 0 .. last + 1
  OBVIOUS
<1>2. CASE i < j
  <2>1. f[i + 1] <= f[j]
    BY <1>1, <1>2, Ascending
  <2>2. PICK u, v : u = f[i + 1] /\ v = f[j]
    OBVIOUS
  <2> QED BY <1>1, <2>1, <2>2
<1>3. CASE j < i
  <2>1. f[j + 1] <= f[i]
    BY <1>1, <1>3, Ascending
  <2>2. PICK u, v : u = f[j + 1] /\ v = f[i]
    OBVIOUS
  <2> QED BY <1>1, <2>1, <2>2
<1> QED BY <1>2, <1>3

\* The lines of the top follow one another.
LEMMA LinesAscend ==
  ASSUME NEW r \in Responses, NEW m, MessageHolds(r, m), NEW last \in Nat, last = LinesOf(r)
  PROVE  \E f : /\ \A i \in 0 .. last + 1 : f[i] = LineStart(r, i) /\ f[i] \in Nat
                /\ \A i \in 0 .. last : f[i] < f[i + 1]
<1> DEFINE f == [i \in 0 .. last + 1 |-> LineStart(r, i)]
<1>1. \A i \in 0 .. last + 1 : f[i] = LineStart(r, i)
  OBVIOUS
<1> HIDE DEF f
<1>2. ASSUME NEW i \in 0 .. last PROVE f[i] \in Nat /\ f[i + 1] \in Nat /\ f[i] < f[i + 1]
  <2>1. TopLine(r, m, i)
    BY TopLines
  <2>2. PICK c, d, w : c = LineStart(r, i) /\ d = LineStart(r, i + 1) /\ w = Len(LineText(r, i))
    OBVIOUS
  <2>3. c \in Nat /\ w \in Nat /\ d = c + w + 2
    BY <2>1, <2>2 DEF TopLine
  <2>4. f[i] = c /\ f[i + 1] = d
    BY <1>1, <2>2
  <2> QED BY ONLY <2>3, <2>4
<1>3. ASSUME NEW i \in 0 .. last + 1 PROVE f[i] \in Nat
  <2>1. CASE i = last + 1
    <3>1. last \in 0 .. last
      OBVIOUS
    <3> QED BY <1>2, <2>1, <3>1
  <2>2. CASE i # last + 1
    <3>1. i \in 0 .. last
      BY <2>2
    <3> QED BY <1>2, <3>1
  <2> QED BY <2>1, <2>2
<1> QED BY <1>1, <1>2, <1>3

\* The chunks follow one another.
LEMMA ChunksAscend ==
  ASSUME NEW r \in Responses, r.framing = "chunked", NEW k \in Nat, k = Len(r.sizes)
  PROVE  \E f : /\ \A i \in 0 .. k + 1 : f[i] = ChunkAt(r, i + 1)
                /\ f[k + 2] = ChunkAt(r, k + 2) + 1
                /\ \A i \in 0 .. k + 2 : f[i] \in Nat
                /\ \A i \in 0 .. k + 1 : f[i] < f[i + 1]
<1> DEFINE f == [i \in 0 .. k + 2 |-> IF i = k + 2 THEN ChunkAt(r, k + 2) + 1 ELSE ChunkAt(r, i + 1)]
<1>1. \A i \in 0 .. k + 1 : f[i] = ChunkAt(r, i + 1)
  OBVIOUS
<1>2. f[k + 2] = ChunkAt(r, k + 2) + 1
  OBVIOUS
<1> HIDE DEF f
<1>3. ChunkPlaces(r, k)
  BY ChunksAt
<1>4. ASSUME NEW i \in 0 .. k + 1 PROVE f[i] \in Nat
  <2>1. i + 1 \in 1 .. k + 2
    OBVIOUS
  <2>2. ChunkAt(r, i + 1) \in Nat
    BY ONLY <1>3, <2>1 DEF ChunkPlaces
  <2> QED BY <1>1, <2>2
<1>5. f[k + 1] = ChunkAt(r, k + 2) /\ f[k + 2] = f[k + 1] + 1 /\ f[k + 1] \in Nat /\ f[k + 2] \in Nat
  <2>1. k + 1 \in 0 .. k + 1 /\ (k + 1) + 1 = k + 2
    OBVIOUS
  <2>2. f[k + 1] = ChunkAt(r, k + 2)
    BY <1>1, <2>1
  <2> QED BY <1>2, <1>4, <2>1, <2>2
<1>6. ASSUME NEW i \in 0 .. k + 2 PROVE f[i] \in Nat
  <2>1. i = k + 2 \/ i \in 0 .. k + 1
    OBVIOUS
  <2> QED BY <1>4, <1>5, <2>1
<1>7. ASSUME NEW i \in 0 .. k + 1 PROVE f[i] < f[i + 1]
  <2>1. CASE i = k + 1
    <3>1. (k + 1) + 1 = k + 2
      OBVIOUS
    <3>2. f[k + 1] < f[k + 2]
      BY <1>5
    <3> QED BY ONLY <2>1, <3>1, <3>2
  <2>2. CASE i # k + 1
    <3>1. PICK j : j = i + 1
      OBVIOUS
    <3>2. j \in 1 .. k + 1 /\ j \in 0 .. k + 1 /\ j \in 1 .. k + 2
      BY <2>2, <3>1
    <3>3. ChunkAt(r, j + 1) = ChunkAt(r, j) + Size(r, j) + 5
      BY ONLY <1>3, <3>2 DEF ChunkPlaces
    <3>4. ChunkAt(r, j) \in Nat /\ Size(r, j) \in Nat
      BY ONLY <1>3, <3>2 DEF ChunkPlaces
    <3>5. f[i] = ChunkAt(r, j) /\ f[j] = ChunkAt(r, j + 1)
      BY <1>1, <3>1, <3>2
    <3>6. f[i] < f[j]
      BY ONLY <3>3, <3>4, <3>5
    <3> QED BY <3>1, <3>6
  <2> QED BY <2>1, <2>2
<1> QED BY <1>1, <1>2, <1>6, <1>7

\* Parsers that have read the top agree on it.
LEMMA SamePast ==
  ASSUME NEW r, NEW p, NEW q, PastTop(r, p), PastTop(r, q)
  PROVE  SameTop(p, q) /\ IsParser(p) /\ IsParser(q)
<1>1. p.headers = q.headers
  <2>1. HeadersAre(r, LinesOf(r), p.headers) /\ HeadersAre(r, LinesOf(r), q.headers)
    BY DEF PastTop
  <2> QED BY ONLY <2>1, SameHeaders
<1>2. q.isChunked = p.isChunked
  <2>1. CASE r.framing = "chunked"
    BY <2>1 DEF PastTop
  <2>2. CASE r.framing # "chunked"
    BY <2>2 DEF PastTop
  <2> QED BY <2>1, <2>2
<1> QED BY ONLY <1>1, <1>2, PastTop(r, p), PastTop(r, q) DEF PastTop, SameTop

\* The line that is next determines the parser of the top.
LEMMA SameTopAt ==
  ASSUME NEW r, NEW b, NEW n, NEW k, NEW p, NEW q, InTop(r, b, n, k, p), InTop(r, b, n, k, q)
  PROVE  p = q
<1>1. p.headers = q.headers
  <2>1. HeadersAre(r, k, p.headers) /\ HeadersAre(r, k, q.headers)
    BY DEF InTop
  <2> QED BY ONLY <2>1, SameHeaders
<1>2. q.hasStatus = p.hasStatus /\ q.statusLineEndIndex = p.statusLineEndIndex
  <2>1. CASE k = 0
    BY <2>1 DEF InTop
  <2>2. CASE k # 0
    BY <2>2 DEF InTop
  <2> QED BY <2>1, <2>2
<1>3. SameTop(p, q) /\ SameBody(p, q) /\ SameBytes(p, q) /\ IsParser(p) /\ IsParser(q)
  BY ONLY <1>1, <1>2, InTop(r, b, n, k, p), InTop(r, b, n, k, q) DEF InTop, SameTop, SameBody, SameBytes, At
<1> QED BY ONLY <1>3, SameParser

\* The bytes that have come determine the parser of a body that is not chunked.
LEMMA SamePlain ==
  ASSUME NEW r, NEW b, NEW n, NEW p, NEW q, PlainAt(r, b, n, p), PlainAt(r, b, n, q)
  PROVE  p = q
<1>1. /\ Plain(r, b, n, n, p) /\ PlainKnown(r, n, p)
      /\ Plain(r, b, n, n, q) /\ PlainKnown(r, n, q)
  BY DEF PlainAt
<1>2. PastTop(r, p) /\ PastTop(r, q)
  BY ONLY <1>1 DEF Plain
<1>3. SameTop(p, q) /\ IsParser(p) /\ IsParser(q)
  BY ONLY <1>2, SamePast
<1>4. q.complete = p.complete
  <2>1. CASE PlainLeft(r, n) = 0
    BY ONLY <1>1, <2>1 DEF PlainKnown
  <2>2. CASE PlainLeft(r, n) # 0
    BY ONLY <1>1, <2>2 DEF PlainKnown
  <2> QED BY <2>1, <2>2
<1>5. SameBody(p, q) /\ SameBytes(p, q)
  BY ONLY <1>1, <1>4 DEF Plain, PlainKnown, SameBody, SameBytes, At
<1> QED BY ONLY <1>3, <1>5, SameParser

\* The place in the chunks determines the parser.
LEMMA SameInBody ==
  ASSUME NEW r, NEW b, NEW n, NEW c, NEW left, NEW j, NEW e, NEW p, NEW q,
         InBody(r, b, n, c, left, j, e, p), InBody(r, b, n, c, left, j, e, q), q.complete = p.complete
  PROVE  p = q
<1>1. PastTop(r, p) /\ PastTop(r, q)
  BY DEF InBody
<1>2. SameTop(p, q) /\ IsParser(p) /\ IsParser(q)
  BY ONLY <1>1, SamePast
<1>3. p.bodyStartIndex = q.bodyStartIndex
  <2>1. CASE j = 0
    BY <2>1 DEF InBody
  <2>2. CASE j # 0
    BY <2>2 DEF InBody
  <2> QED BY <2>1, <2>2
<1>4. SameBody(p, q) /\ SameBytes(p, q)
  BY ONLY <1>3, q.complete = p.complete, InBody(r, b, n, c, left, j, e, p), InBody(r, b, n, c, left, j, e, q)
     DEF InBody, SameBody, SameBytes, At
<1> QED BY ONLY <1>2, <1>4, SameParser

\* The parser before a chunk is determined.
LEMMA SameAtChunk ==
  ASSUME NEW r \in Responses, NEW b, NEW n, NEW i \in 1 .. Len(r.sizes) + 2, NEW p, NEW q,
         AtChunk(r, b, n, i, p), AtChunk(r, b, n, i, q)
  PROVE  p = q
<1>1. PICK k : k = Len(r.sizes)
  OBVIOUS
<1>2. k \in Nat /\ i \in 1 .. k + 2
  BY <1>1, ResponseIs
<1>3. PICK j \in 0 .. k : InBody(r, b, n, ChunkAt(r, i), 0, j, Before(r, i), p) /\ (j = i - 1 \/ (j = k /\ j <= i - 1))
  BY <1>1 DEF AtChunk
<1>4. PICK l \in 0 .. k : InBody(r, b, n, ChunkAt(r, i), 0, l, Before(r, i), q) /\ (l = i - 1 \/ (l = k /\ l <= i - 1))
  BY <1>1 DEF AtChunk
<1>5. j = l
  BY ONLY <1>2, <1>3, <1>4, j \in 0 .. k, l \in 0 .. k
<1>6. q.complete = p.complete
  <2>1. CASE i = Len(r.sizes) + 2
    BY <2>1 DEF AtChunk
  <2>2. CASE i # Len(r.sizes) + 2
    BY <2>2 DEF AtChunk
  <2> QED BY <2>1, <2>2
<1> QED BY ONLY <1>3, <1>4, <1>5, <1>6, SameInBody

\* The parser within a chunk is determined.
LEMMA SameInChunk ==
  ASSUME NEW r \in Responses, NEW b, NEW n, NEW i \in 1 .. Len(r.sizes) + 1, NEW w, NEW p, NEW q,
         InChunk(r, b, n, i, w, p), InChunk(r, b, n, i, w, q)
  PROVE  p = q
<1>1. PICK k : k = Len(r.sizes)
  OBVIOUS
<1>2. k \in Nat /\ i \in 1 .. k + 1
  BY <1>1, ResponseIs
<1>3. PICK c, left, e : c = ChunkAt(r, i) + 3 + w /\ left = Size(r, i) - w /\ e = Before(r, i) + w
  OBVIOUS
<1>4. PICK j \in 0 .. k : InBody(r, b, n, c, left, j, e, p) /\ (j = i \/ (j = k /\ j <= i))
  BY <1>1, <1>3 DEF InChunk
<1>5. PICK l \in 0 .. k : InBody(r, b, n, c, left, l, e, q) /\ (l = i \/ (l = k /\ l <= i))
  BY <1>1, <1>3 DEF InChunk
<1>6. j = l
  BY ONLY <1>2, <1>4, <1>5, j \in 0 .. k, l \in 0 .. k
<1>7. q.complete = p.complete
  <2>1. CASE i = Len(r.sizes) + 1
    BY <2>1 DEF InChunk
  <2>2. CASE i # Len(r.sizes) + 1
    BY <2>2 DEF InChunk
  <2> QED BY <2>1, <2>2
<1> QED BY ONLY <1>4, <1>5, <1>6, <1>7, SameInBody

\* Of the chunks, the parser is at chunk i.
ChunkState(r, b, n, i, p) ==
  \/ AtChunk(r, b, n, i, p) /\ (i = Len(r.sizes) + 2 \/ n < ChunkAt(r, i) + 3)
  \/ i # Len(r.sizes) + 2 /\ \E w \in Nat : InChunk(r, b, n, i, w, p) /\ Taken(r, n, i, w)

\* A parser of chunks is at the last chunk that has started to come.
LEMMA ChunkStateOf ==
  ASSUME NEW r \in Responses, r.framing = "chunked", NEW b, NEW n \in Nat, NEW p,
         NEW k \in Nat, k = Len(r.sizes), ChunksRead(r, b, n, 0, p)
  PROVE  \E i \in 1 .. k + 2 : /\ ChunkState(r, b, n, i, p) /\ ChunkAt(r, i) <= n
                               /\ i # k + 2 => n < ChunkAt(r, i + 1)
<1>1. ChunkPlaces(r, k)
  BY ChunksAt
<1>2. ASSUME NEW i \in 1 .. k + 1
      PROVE  ChunkAt(r, i) \in Nat /\ Size(r, i) \in Nat /\ ChunkAt(r, i + 1) = ChunkAt(r, i) + Size(r, i) + 5
  <2>1. i \in 1 .. k + 2
    OBVIOUS
  <2>2. ChunkAt(r, i) \in Nat /\ Size(r, i) \in Nat
    BY ONLY <1>1, <2>1 DEF ChunkPlaces
  <2>3. ChunkAt(r, i + 1) = ChunkAt(r, i) + Size(r, i) + 5
    BY ONLY <1>1, i \in 1 .. k + 1 DEF ChunkPlaces
  <2> QED BY ONLY <2>2, <2>3
<1>3. CASE \E i \in 1 .. k + 2 : BeforeChunk(r, b, n, 0, i, p)
  <2>1. PICK i \in 1 .. k + 2 : BeforeChunk(r, b, n, 0, i, p)
    BY <1>3
  <2>2. PICK c, d : c = ChunkAt(r, i) /\ d = ChunkAt(r, i + 1)
    OBVIOUS
  <2>3. AtChunk(r, b, n, i, p) /\ c <= n /\ (i = k + 2 \/ n < c + 3 \/ n - c <= 0)
    BY ONLY <2>1, <2>2, k = Len(r.sizes) DEF BeforeChunk
  <2>4. c \in Nat
    BY ONLY <1>1, <2>2, i \in 1 .. k + 2 DEF ChunkPlaces
  <2>5. i = k + 2 \/ n < c + 3
    BY ONLY <2>3, <2>4, n \in Nat
  <2>6. i # k + 2 => n < d
    <3>1. CASE i # k + 2
      <4>1. PICK z : z = Size(r, i)
        OBVIOUS
      <4>2. i \in 1 .. k + 1
        BY <3>1
      <4>3. z \in Nat /\ d = c + z + 5
        BY <1>2, <2>2, <4>1, <4>2
      <4> QED BY ONLY <2>4, <2>5, <3>1, <4>3, n \in Nat
    <3> QED BY <3>1
  <2>7. ChunkState(r, b, n, i, p)
    BY ONLY <2>2, <2>3, <2>5, k = Len(r.sizes) DEF ChunkState
  <2> QED BY ONLY <2>2, <2>3, <2>6, <2>7, i \in 1 .. k + 2
<1>4. CASE \E i \in 1 .. k + 1, w \in Nat : WithinChunk(r, b, n, 0, i, w, p)
  <2>1. PICK i \in 1 .. k + 1, w \in Nat : WithinChunk(r, b, n, 0, i, w, p)
    BY <1>4
  <2>2. PICK c, d, z : c = ChunkAt(r, i) /\ d = ChunkAt(r, i + 1) /\ z = Size(r, i)
    OBVIOUS
  <2>3. InChunk(r, b, n, i, w, p) /\ Taken(r, n, i, w) /\ (n < d \/ n - (c + 3 + w) <= 0)
    BY ONLY <2>1, <2>2 DEF WithinChunk
  <2>4. c \in Nat /\ z \in Nat /\ d = c + z + 5
    BY <1>2, <2>2
  <2>5. w \in 0 .. z /\ c + 3 + w <= n
    BY ONLY <2>2, <2>3 DEF Taken
  <2>6. n < d /\ c <= n
    BY ONLY <2>3, <2>4, <2>5, n \in Nat
  <2>7. i # k + 2 /\ i \in 1 .. k + 2
    OBVIOUS
  <2>8. ChunkState(r, b, n, i, p)
    BY ONLY <2>3, <2>7, k = Len(r.sizes), w \in Nat DEF ChunkState
  <2> QED BY ONLY <2>2, <2>6, <2>7, <2>8
<1> QED BY <1>3, <1>4 DEF ChunksRead

\* That chunk determines the parser.
LEMMA SameChunkState ==
  ASSUME NEW r \in Responses, r.framing = "chunked", NEW b, NEW n \in Nat, NEW k \in Nat, k = Len(r.sizes),
         NEW i \in 1 .. k + 2, NEW p, NEW q, ChunkState(r, b, n, i, p), ChunkState(r, b, n, i, q)
  PROVE  p = q
<1>1. ChunkPlaces(r, k)
  BY ChunksAt
<1>2. PICK c, z : c = ChunkAt(r, i) /\ z = Size(r, i)
  OBVIOUS
<1>3. c \in Nat /\ z \in Nat
  BY ONLY <1>1, <1>2, i \in 1 .. k + 2 DEF ChunkPlaces
<1>4. ASSUME NEW w \in Nat, Taken(r, n, i, w)
      PROVE  ~(n < c + 3) /\ w \in 0 .. z /\ c + 3 + w <= n /\ (w = z \/ c + 3 + w = n)
  <2>1. w \in 0 .. z /\ c + 3 + w <= n /\ (w = z \/ c + 3 + w = n)
    BY ONLY <1>2, <1>4 DEF Taken
  <2> QED BY ONLY <1>3, <2>1, n \in Nat
<1>5. CASE AtChunk(r, b, n, i, p) /\ AtChunk(r, b, n, i, q)
  BY <1>5, SameAtChunk
<1>6. CASE /\ i # k + 2
           /\ \E w \in Nat : InChunk(r, b, n, i, w, p) /\ Taken(r, n, i, w)
           /\ \E w \in Nat : InChunk(r, b, n, i, w, q) /\ Taken(r, n, i, w)
  <2>1. PICK v \in Nat : InChunk(r, b, n, i, v, p) /\ Taken(r, n, i, v)
    BY <1>6
  <2>2. PICK w \in Nat : InChunk(r, b, n, i, w, q) /\ Taken(r, n, i, w)
    BY <1>6
  <2>3. v \in 0 .. z /\ c + 3 + v <= n /\ (v = z \/ c + 3 + v = n)
    BY <1>4, <2>1
  <2>4. w \in 0 .. z /\ c + 3 + w <= n /\ (w = z \/ c + 3 + w = n)
    BY <1>4, <2>2
  <2>5. v = w
    BY ONLY <1>3, <2>3, <2>4, n \in Nat
  <2>6. i \in 1 .. Len(r.sizes) + 1
    BY <1>6
  <2> QED BY <2>1, <2>2, <2>5, <2>6, SameInChunk
<1>7. ASSUME NEW x, NEW y, AtChunk(r, b, n, i, x), i = k + 2 \/ n < c + 3,
             i # k + 2, \E w \in Nat : InChunk(r, b, n, i, w, y) /\ Taken(r, n, i, w)
      PROVE  FALSE
  BY <1>4, <1>7
<1>8. /\ \/ AtChunk(r, b, n, i, p) /\ (i = k + 2 \/ n < c + 3)
         \/ i # k + 2 /\ \E w \in Nat : InChunk(r, b, n, i, w, p) /\ Taken(r, n, i, w)
      /\ \/ AtChunk(r, b, n, i, q) /\ (i = k + 2 \/ n < c + 3)
         \/ i # k + 2 /\ \E w \in Nat : InChunk(r, b, n, i, w, q) /\ Taken(r, n, i, w)
  BY ONLY <1>2, k = Len(r.sizes), ChunkState(r, b, n, i, p), ChunkState(r, b, n, i, q) DEF ChunkState
<1> QED BY <1>5, <1>6, <1>7, <1>8

\* A line of the top ends where the body starts, at the latest.
LEMMA TopEndsBeforeBody ==
  ASSUME NEW r \in Responses, NEW m, MessageHolds(r, m), NEW k \in 0 .. LinesOf(r)
  PROVE  LineStart(r, k + 1) <= BodyStart(r)
<1>1. PICK last : last = LinesOf(r)
  OBVIOUS
<1>2. last \in Nat /\ LineStart(r, last + 1) = BodyStart(r) /\ k \in 0 .. last /\ BodyStart(r) \in Nat
  BY <1>1, TopEnds, PlacesAre
<1>3. PICK f : /\ \A i \in 0 .. last + 1 : f[i] = LineStart(r, i) /\ f[i] \in Nat
               /\ \A i \in 0 .. last : f[i] < f[i + 1]
  BY <1>1, <1>2, LinesAscend
<1>4. last + 1 \in 0 .. last + 1 /\ k < last + 1 /\ k + 1 \in 0 .. last + 1
  BY ONLY <1>2
<1>5. f[k + 1] <= f[last + 1]
  BY ONLY <1>2, <1>3, <1>4, Ascending
<1> QED BY ONLY <1>2, <1>3, <1>4, <1>5

\* The chunks are after the top.
LEMMA ChunksAreInBody ==
  ASSUME NEW r \in Responses, r.framing = "chunked", NEW k \in Nat, k = Len(r.sizes), NEW i \in 1 .. k + 2
  PROVE  BodyStart(r) <= ChunkAt(r, i)
<1>1. ChunkPlaces(r, k)
  BY ChunksAt
<1>2. PICK f : /\ \A j \in 0 .. k + 1 : f[j] = ChunkAt(r, j + 1)
               /\ \A j \in 0 .. k + 2 : f[j] \in Nat
               /\ \A j \in 0 .. k + 1 : f[j] < f[j + 1]
  BY ChunksAscend
<1>3. ChunkAt(r, 1) = BodyStart(r) /\ BodyStart(r) \in Nat
  <2>1. ChunkAt(r, 1) = BodyStart(r)
    BY ONLY <1>1 DEF ChunkPlaces
  <2> QED BY <2>1, PlacesAre
<1>4. 0 \in 0 .. k + 1 /\ 0 + 1 = 1 /\ 1 \in 0 .. k + 1 /\ 0 \in 0 .. k + 2 /\ 1 \in 0 .. k + 2
  OBVIOUS
<1>5. f[0] = BodyStart(r) /\ f[0] < f[1]
  BY ONLY <1>2, <1>3, <1>4
<1>6. CASE i = 1
  BY <1>3, <1>6
<1>7. CASE i # 1
  <2>1. PICK j, last : j = i - 1 /\ last = k + 1
    OBVIOUS
  <2>2. j \in 0 .. last + 1 /\ j \in 0 .. k + 1 /\ last \in Nat /\ 0 \in 0 .. last /\ 0 < j /\ j + 1 = i
        /\ j \in 0 .. k + 2 /\ last + 1 = k + 2
    BY <1>7, <2>1
  <2>3. \A x \in 0 .. last + 1 : f[x] \in Nat
    BY ONLY <1>2, <2>2
  <2>4. \A x \in 0 .. last : f[x] < f[x + 1]
    BY ONLY <1>2, <2>1
  <2>5. f[0 + 1] <= f[j]
    BY ONLY <2>2, <2>3, <2>4, Ascending
  <2>6. PICK u, v, w : u = f[0] /\ v = f[1] /\ w = f[j]
    OBVIOUS
  <2>7. u \in Nat /\ v \in Nat /\ w \in Nat /\ u < v /\ v <= w
    BY ONLY <1>2, <1>4, <1>5, <2>2, <2>5, <2>6
  <2>8. w = ChunkAt(r, i)
    BY ONLY <1>2, <2>2, <2>6
  <2> QED BY ONLY <1>5, <2>6, <2>7, <2>8
<1> QED BY <1>6, <1>7

\* As long as the parser is at a line of the top, the body has not begun.
LEMMA TopIsBefore ==
  ASSUME NEW r \in Responses, NEW m, MessageHolds(r, m), NEW b, NEW n \in Nat,
         NEW k \in 0 .. LinesOf(r), NEW x, TopAt(r, b, n, k, x)
  PROVE  ~(BodyStart(r) <= n)
<1>1. n < LineStart(r, k + 1)
  BY DEF TopAt
<1>2. LineStart(r, k + 1) <= BodyStart(r) /\ BodyStart(r) \in Nat
  BY TopEndsBeforeBody, PlacesAre
<1>3. LineStart(r, k + 1) \in Nat
  <2>1. PICK c, d, w : c = LineStart(r, k) /\ d = LineStart(r, k + 1) /\ w = Len(LineText(r, k))
    OBVIOUS
  <2>2. c \in Nat /\ w \in Nat /\ d = c + w + 2
    <3>1. TopLine(r, m, k)
      BY TopLines
    <3> QED BY <2>1, <3>1 DEF TopLine
  <2> QED BY ONLY <2>1, <2>2
<1>4. PICK u, v : u = LineStart(r, k + 1) /\ v = BodyStart(r)
  OBVIOUS
<1>5. ~(v <= n)
  BY ONLY <1>1, <1>2, <1>3, <1>4, n \in Nat
<1> QED BY ONLY <1>4, <1>5

\* At a chunk it has begun.
LEMMA ChunksAreAfter ==
  ASSUME NEW r \in Responses, r.framing = "chunked", NEW b, NEW n \in Nat, NEW x, ChunksRead(r, b, n, 0, x)
  PROVE  BodyStart(r) <= n
<1>1. PICK k : k = Len(r.sizes)
  OBVIOUS
<1>2. k \in Nat
  BY <1>1, ResponseIs
<1>3. PICK i \in 1 .. k + 2 : ChunkAt(r, i) <= n
  BY <1>1, <1>2, ChunkStateOf
<1>4. BodyStart(r) <= ChunkAt(r, i) /\ BodyStart(r) \in Nat
  BY <1>1, <1>2, ChunksAreInBody, PlacesAre
<1>5. ChunkAt(r, i) \in Nat
  <2>1. ChunkPlaces(r, k)
    BY <1>1, <1>2, ChunksAt
  <2> QED BY ONLY <2>1, i \in 1 .. k + 2 DEF ChunkPlaces
<1>6. PICK u, v : u = ChunkAt(r, i) /\ v = BodyStart(r)
  OBVIOUS
<1>7. v <= n
  BY ONLY <1>3, <1>4, <1>5, <1>6, n \in Nat
<1> QED BY ONLY <1>6, <1>7

\* The bytes that have come determine what the parser knows.
LEMMA KnownOnce ==
  ASSUME NEW r \in Responses, NEW m, MessageHolds(r, m), NEW b, NEW n \in Nat, n <= Len(m),
         NEW p, NEW q, Quiet(r, b, n, p), Quiet(r, b, n, q)
  PROVE  p = q
<1> DEFINE AtTop(x) == \E k \in 0 .. LinesOf(r) : TopAt(r, b, n, k, x)
           AtBody(x) == \/ r.framing # "chunked" /\ PlainAt(r, b, n, x)
                        \/ r.framing = "chunked" /\ ChunksRead(r, b, n, 0, x)
<1>1. (AtTop(p) \/ AtBody(p)) /\ (AtTop(q) \/ AtBody(q))
  BY DEF Quiet
<1>2. ASSUME NEW x, AtTop(x) PROVE ~(BodyStart(r) <= n)
  BY <1>2, TopIsBefore
<1>3. ASSUME NEW x, AtBody(x) PROVE BodyStart(r) <= n
  BY <1>3, ChunksAreAfter DEF PlainAt
<1>4. CASE AtTop(p) /\ AtTop(q)
  <2>1. PICK k \in 0 .. LinesOf(r) : InTop(r, b, n, k, p) /\ LineStart(r, k) <= n /\ n < LineStart(r, k + 1)
    BY <1>4 DEF TopAt
  <2>2. PICK l \in 0 .. LinesOf(r) : InTop(r, b, n, l, q) /\ LineStart(r, l) <= n /\ n < LineStart(r, l + 1)
    BY <1>4 DEF TopAt
  <2>3. PICK last : last = LinesOf(r)
    OBVIOUS
  <2>4. last \in Nat
    BY <2>3, TopEnds
  <2>5. PICK f : /\ \A i \in 0 .. last + 1 : f[i] = LineStart(r, i) /\ f[i] \in Nat
                 /\ \A i \in 0 .. last : f[i] < f[i + 1]
    BY <2>3, <2>4, LinesAscend
  <2>6. /\ k \in 0 .. last /\ l \in 0 .. last
        /\ k \in 0 .. last + 1 /\ l \in 0 .. last + 1 /\ k + 1 \in 0 .. last + 1 /\ l + 1 \in 0 .. last + 1
    BY <2>3, <2>4
  <2>7. f[k] <= n /\ n < f[k + 1] /\ f[l] <= n /\ n < f[l + 1]
    BY ONLY <2>1, <2>2, <2>5, <2>6
  <2>8. k = l
    BY ONLY <2>4, <2>5, <2>6, <2>7, SameInterval, n \in Nat
  <2> QED BY ONLY <2>1, <2>2, <2>8, SameTopAt
<1>5. CASE AtBody(p) /\ AtBody(q) /\ r.framing # "chunked"
  <2>1. PlainAt(r, b, n, p) /\ PlainAt(r, b, n, q)
    BY <1>5
  <2> QED BY ONLY <2>1, SamePlain
<1>6. CASE AtBody(p) /\ AtBody(q) /\ r.framing = "chunked"
  <2>1. PICK k, last : k = Len(r.sizes) /\ last = k + 1
    OBVIOUS
  <2>2. k \in Nat /\ last \in Nat
    BY <2>1, ResponseIs
  <2>3. PICK f : /\ \A j \in 0 .. k + 1 : f[j] = ChunkAt(r, j + 1)
                 /\ f[k + 2] = ChunkAt(r, k + 2) + 1
                 /\ \A j \in 0 .. k + 2 : f[j] \in Nat
                 /\ \A j \in 0 .. k + 1 : f[j] < f[j + 1]
    BY <1>6, <2>1, <2>2, ChunksAscend
  <2>4. /\ \A x \in 0 .. last + 1 : f[x] \in Nat
        /\ \A x \in 0 .. last : f[x] < f[x + 1]
    <3>1. last + 1 = k + 2
      BY ONLY <2>1, <2>2
    <3> QED BY ONLY <2>1, <2>3, <3>1
  <2>5. Len(m) = ChunkAt(r, k + 2)
    BY <1>6, <2>1 DEF MessageHolds
  <2>6. ASSUME NEW i \in 1 .. k + 2, ChunkAt(r, i) <= n, i # k + 2 => n < ChunkAt(r, i + 1)
        PROVE  i - 1 \in 0 .. last /\ f[i - 1] <= n /\ n < f[(i - 1) + 1]
    <3>1. PICK j : j = i - 1
      OBVIOUS
    <3>2. j \in 0 .. k + 1 /\ j + 1 = i /\ j \in 0 .. last
      BY ONLY <2>1, <2>2, <3>1, i \in 1 .. k + 2
    <3>3. f[j] <= n
      BY ONLY <2>3, <2>6, <3>2
    <3>4. CASE i = k + 2
      <4>1. PICK u : u = ChunkAt(r, k + 2)
        OBVIOUS
      <4>2. u \in Nat
        <5>1. k + 1 \in 0 .. k + 1 /\ (k + 1) + 1 = k + 2 /\ k + 1 \in 0 .. k + 2
          BY ONLY <2>2
        <5> QED BY ONLY <2>3, <4>1, <5>1
      <4>3. n < u + 1
        BY ONLY <2>5, <4>1, <4>2, n \in Nat, n <= Len(m)
      <4> QED BY ONLY <2>3, <3>1, <3>2, <3>3, <3>4, <4>1, <4>3
    <3>5. CASE i # k + 2
      <4>1. i \in 0 .. k + 1
        BY ONLY <2>2, <3>5, i \in 1 .. k + 2
      <4>2. n < f[i]
        BY ONLY <2>3, <2>6, <3>5, <4>1
      <4> QED BY ONLY <3>1, <3>2, <3>3, <4>2
    <3> QED BY <3>4, <3>5
  <2>7. PICK i \in 1 .. k + 2 : /\ ChunkState(r, b, n, i, p) /\ ChunkAt(r, i) <= n
                                /\ i # k + 2 => n < ChunkAt(r, i + 1)
    BY <1>6, <2>1, <2>2, ChunkStateOf
  <2>8. PICK l \in 1 .. k + 2 : /\ ChunkState(r, b, n, l, q) /\ ChunkAt(r, l) <= n
                                /\ l # k + 2 => n < ChunkAt(r, l + 1)
    BY <1>6, <2>1, <2>2, ChunkStateOf
  <2>9. PICK x, y : x = i - 1 /\ y = l - 1
    OBVIOUS
  <2>10. x \in 0 .. last /\ f[x] <= n /\ n < f[x + 1]
    BY <2>6, <2>7, <2>9
  <2>11. y \in 0 .. last /\ f[y] <= n /\ n < f[y + 1]
    BY <2>6, <2>8, <2>9
  <2>12. x = y
    BY ONLY <2>2, <2>4, <2>10, <2>11, SameInterval, n \in Nat
  <2>13. i = l
    BY ONLY <2>2, <2>9, <2>12, i \in 1 .. k + 2, l \in 1 .. k + 2
  <2> QED BY <1>6, <2>1, <2>2, <2>7, <2>8, <2>13, SameChunkState
<1> HIDE DEF AtTop, AtBody
<1> QED BY <1>1, <1>2, <1>3, <1>4, <1>5, <1>6

\* What the parser of a plain stream knows is about the bytes that have come.
ParserInv ==
  /\ response \in Responses /\ hasPlainStream(response) /\ message = Message(response)
  /\ received \in 0 .. Len(message)
  /\ Quiet(response, BytesOf(message), received, parser)

\* At the start nothing has come.
LEMMA ParserInvInit ==
  Init /\ hasPlainStream(response) => ParserInv
<1> SUFFICES ASSUME Init, hasPlainStream(response) PROVE ParserInv
  OBVIOUS
<1>1. MessageHolds(response, message)
  BY MessageIs DEF Init
<1>2. message \in Seq(Piece)
  BY ONLY <1>1 DEF MessageHolds
<1>3. received \in 0 .. Len(message)
  BY <1>2 DEF Init
<1>4. Quiet(response, BytesOf(message), 0, makeHttpResponseParser)
  BY <1>1, StartsQuiet DEF Init
<1> QED BY <1>3, <1>4 DEF Init, ParserInv

\* Finish parses what the parser has got.
LEMMA ParsedAgain ==
  ASSUME ParserInv, NEW p, p = onChunk(makeHttpResponseParser, SubSeq(BytesOf(message), 1, received))
  PROVE  p = parser
<1>1. MessageHolds(response, message)
  BY MessageIs DEF ParserInv
<1>2. message \in Seq(Piece)
  BY ONLY <1>1 DEF MessageHolds
<1>3. PICK n : n = received /\ n \in Nat /\ n <= Len(message)
  BY <1>2 DEF ParserInv
<1>4. PICK b : b = BytesOf(message)
  OBVIOUS
<1>5. Quiet(response, b, 0, makeHttpResponseParser)
  BY <1>1, <1>4, StartsQuiet DEF ParserInv
<1>6. 0 + 1 = 1 /\ 0 <= n /\ 0 \in Nat
  BY <1>3
<1>7. p = onChunk(makeHttpResponseParser, SubSeq(b, 0 + 1, n))
  BY <1>3, <1>4, <1>6
<1>8. Quiet(response, b, n, p)
  <2>1. response \in Responses
    BY DEF ParserInv
  <2> QED BY ONLY <1>1, <1>3, <1>4, <1>5, <1>6, <1>7, <2>1, OnChunk
<1>9. Quiet(response, b, n, parser)
  BY <1>3, <1>4 DEF ParserInv
<1> QED BY <1>1, <1>3, <1>4, <1>8, <1>9, KnownOnce DEF ParserInv

\* A piece that comes leaves it so.
LEMMA ParserInvReceive ==
  ASSUME ParserInv, NEW n \in received + 1 .. Len(message),
         parser' = onChunk(parser, SubSeq(BytesOf(message), received + 1, n)),
         received' = n, UNCHANGED <<response, message>>
  PROVE  ParserInv'
<1>1. MessageHolds(response, message)
  BY MessageIs DEF ParserInv
<1>2. message \in Seq(Piece)
  BY ONLY <1>1 DEF MessageHolds
<1>3. received \in Nat /\ n \in Nat /\ received <= n /\ n <= Len(message) /\ n \in 0 .. Len(message)
  BY <1>2 DEF ParserInv
<1>4. Quiet(response, BytesOf(message), n, parser')
  <2>1. response \in Responses /\ Quiet(response, BytesOf(message), received, parser)
    BY DEF ParserInv
  <2>2. PICK b, q : b = BytesOf(message) /\ q = onChunk(parser, SubSeq(b, received + 1, n))
    OBVIOUS
  <2>3. Quiet(response, b, received, parser)
    BY ONLY <2>1, <2>2
  <2>4. Quiet(response, b, n, q)
    BY ONLY <1>1, <1>3, <2>1, <2>2, <2>3, OnChunk
  <2> QED BY <2>2, <2>4
<1>5. BytesOf(message)' = BytesOf(message)
  BY DEF BytesOf
<1>6. Quiet(response, BytesOf(message), received, parser)' = Quiet(response', BytesOf(message)', received', parser')
  OBVIOUS
<1>7. hasPlainStream(response)'
  BY DEF ParserInv, hasPlainStream
<1> QED BY <1>3, <1>4, <1>5, <1>6, <1>7 DEF ParserInv

\* The invariant of the parser is inductive.
LEMMA ParserInvNext ==
  ParserInv /\ [Next]_vars => ParserInv'
<1> SUFFICES ASSUME ParserInv, [Next]_vars PROVE ParserInv'
  OBVIOUS
<1>1. CASE Receive
  BY <1>1, ParserInvReceive DEF Receive
<1>2. ASSUME UNCHANGED <<response, message, received, parser>>
      PROVE  ParserInv'
  <2>1. BytesOf(message)' = BytesOf(message)
    BY <1>2 DEF BytesOf
  <2>2. hasPlainStream(response)'
    BY <1>2 DEF ParserInv, hasPlainStream
  <2> QED BY <1>2, <2>1, <2>2 DEF ParserInv
<1>3. CASE Finish
  BY <1>2, <1>3 DEF Finish
<1>4. CASE UNCHANGED vars
  BY <1>2, <1>4 DEF vars
<1> QED BY <1>1, <1>3, <1>4 DEF Next

\* A stream that is plain always was.
LEMMA StaysPlain ==
  [Next]_vars /\ hasPlainStream(response)' => hasPlainStream(response)
<1> SUFFICES ASSUME [Next]_vars PROVE response' = response
  BY DEF hasPlainStream
<1> QED BY DEF Next, Receive, Finish, vars

\* The invariant of the parser holds in every reachable state of a plain stream.
THEOREM ParserInvariance == Spec => [](hasPlainStream(response) => ParserInv)
BY ParserInvInit, ParserInvNext, StaysPlain, PTL DEF Spec

\* However a response that is a plain stream is cut, onChunk (http-parser.js:29-160) comes to know what it
\* would know of the same bytes at once.
THEOREM CutsMakeNoDifference == Spec => []CutsDoNotMatter
<1>1. (hasPlainStream(response) => ParserInv) => CutsDoNotMatter
  BY ParsedAgain DEF CutsDoNotMatter
<1> QED BY <1>1, ParserInvariance, PTL

\* What is revealed is decided by what the parser knows at the end.
RevealInv ==
  /\ notified \in BOOLEAN /\ pc \in {"receiving", "revealed", "failed"}
  /\ pc = "revealed" => /\ isParsed(parser) /\ rules \in Rules /\ isSelected(parser, rules)
                        /\ redactions = getResponseRedactions(parser, rules)
  /\ pc # "revealed" => rules = <<>> /\ redactions = <<>>

\* The invariant of what is revealed is inductive.
LEMMA RevealInvNext ==
  ParserInv /\ RevealInv /\ [Next]_vars => RevealInv'
<1> SUFFICES ASSUME ParserInv, RevealInv, [Next]_vars PROVE RevealInv'
  OBVIOUS
<1> USE DEF RevealInv
<1>1. CASE Receive
  <2>1. notified' \in BOOLEAN
    BY <1>1 DEF Receive
  <2>2. pc = "receiving" /\ pc' = pc /\ rules' = rules /\ redactions' = redactions
    BY <1>1 DEF Receive
  <2> QED BY <2>1, <2>2
<1>2. CASE Finish
  <2>1. PICK p : p = parseHttpResponse(SubSeq(BytesOf(message), 1, received))
    OBVIOUS
  <2>2. p = parser
    BY <2>1, ParsedAgain DEF parseHttpResponse
  <2>3. parser' = parser /\ notified' = notified /\ pc = "receiving"
    BY <1>2 DEF Finish
  <2>4. \/ /\ isParsed(p)
           /\ \E rs \in Rules : /\ isSelected(p, rs) /\ rules' = rs
                                /\ redactions' = getResponseRedactions(p, rs) /\ pc' = "revealed"
        \/ rules' = rules /\ redactions' = redactions /\ pc' = "failed"
    BY <1>2, <2>1 DEF Finish
  <2>5. CASE rules' = rules /\ redactions' = redactions /\ pc' = "failed"
    BY <2>3, <2>5
  <2>6. CASE isParsed(p) /\ \E rs \in Rules : /\ isSelected(p, rs) /\ rules' = rs
                                /\ redactions' = getResponseRedactions(p, rs) /\ pc' = "revealed"
    <3>1. isParsed(parser) /\ isSelected(parser, rules') /\ rules' \in Rules
          /\ redactions' = getResponseRedactions(parser, rules') /\ pc' = "revealed"
      BY <2>2, <2>6
    <3>2. isParsed(parser)' = isParsed(parser) /\ isSelected(parser, rules)' = isSelected(parser, rules')
          /\ getResponseRedactions(parser, rules)' = getResponseRedactions(parser, rules')
      BY <2>3
    <3> QED BY <2>3, <3>1, <3>2
  <2> QED BY <2>4, <2>5, <2>6
<1>3. CASE UNCHANGED vars
  <2>1. parser' = parser /\ notified' = notified /\ pc' = pc /\ rules' = rules /\ redactions' = redactions
    BY <1>3 DEF vars
  <2>2. isParsed(parser)' = isParsed(parser) /\ isSelected(parser, rules)' = isSelected(parser, rules)
          /\ getResponseRedactions(parser, rules)' = getResponseRedactions(parser, rules)
    BY <2>1
  <2> QED BY <2>1, <2>2
<1> QED BY <1>1, <1>2, <1>3 DEF Next

\* The invariant of what is revealed holds in every reachable state of a plain stream.
THEOREM RevealInvariance == Spec => [](hasPlainStream(response) => RevealInv)
<1>1. Init => RevealInv
  BY DEF Init, RevealInv
<1> QED BY <1>1, ParserInvariance, RevealInvNext, StaysPlain, PTL DEF Spec

\* A response with a length that is parsed has come as a whole.
LEMMA ParsedLength ==
  ASSUME NEW r \in Responses, r.framing = "length", NEW m, MessageHolds(r, m), NEW b, NEW n \in Nat, n <= Len(m),
         NEW p, Quiet(r, b, n, p), isParsed(p)
  PROVE  n = Len(m)
<1>1. p.headersComplete = TRUE /\ p.left <= 0
  BY DEF isParsed, streamEnded
<1>2. ~\E k \in 0 .. LinesOf(r) : TopAt(r, b, n, k, p)
  BY <1>1 DEF TopAt, InTop
<1>3. BodyStart(r) <= n /\ p.left = Len(r.body) - (n - BodyStart(r))
  BY <1>2 DEF Quiet, PlainAt, Plain, PlainLeft
<1>4. Len(m) = BodyStart(r) + Len(r.body)
  BY DEF MessageHolds
<1>5. PICK s, l, e, f : s = BodyStart(r) /\ l = Len(r.body) /\ e = Len(m) /\ f = p.left
  OBVIOUS
<1>6. s \in Nat /\ l \in Nat
  BY <1>5, PlacesAre, ResponseIs
<1>7. s <= n /\ f = l - (n - s) /\ f <= 0 /\ e = s + l /\ n <= e
  BY <1>1, <1>3, <1>4, <1>5
<1>8. n = e
  BY ONLY <1>6, <1>7, n \in Nat
<1> QED BY <1>5, <1>8

\* streamEnded (http-parser.js:124) accepts no response with a content-length that ended early.
THEOREM ClaimsTheWholeLength == Spec => []EndsWithItsLength
<1>1. (hasPlainStream(response) => ParserInv /\ RevealInv) => EndsWithItsLength
  <2> SUFFICES ASSUME ParserInv, RevealInv, pc = "revealed", response.framing = "length"
               PROVE  received = Len(message)
    BY DEF EndsWithItsLength, hasPlainStream
  <2>1. MessageHolds(response, message)
    BY MessageIs DEF ParserInv
  <2>2. message \in Seq(Piece)
    BY ONLY <2>1 DEF MessageHolds
  <2>3. received \in Nat /\ received <= Len(message)
    BY <2>2 DEF ParserInv
  <2>4. isParsed(parser) /\ response \in Responses /\ Quiet(response, BytesOf(message), received, parser)
    BY DEF RevealInv, ParserInv
  <2> QED BY <2>1, <2>3, <2>4, ParsedLength
<1> QED BY <1>1, ParserInvariance, RevealInvariance, PTL

\* What comes later is not before, in the response and in its body.
LEMMA LaterChunk ==
  ASSUME NEW r \in Responses, r.framing = "chunked", NEW k \in Nat, k = Len(r.sizes),
         NEW i \in 1 .. k + 2, NEW j \in 1 .. k + 2, i <= j
  PROVE  ChunkAt(r, i) <= ChunkAt(r, j) /\ Before(r, i) <= Before(r, j)
<1>1. ChunkPlaces(r, k)
  BY ChunksAt
<1> DEFINE P == {x \in Nat : i <= x /\ x <= k + 2 => ChunkAt(r, i) <= ChunkAt(r, x) /\ Before(r, i) <= Before(r, x)}
<1>2. ASSUME NEW x \in 1 .. k + 2
      PROVE  ChunkAt(r, x) \in Nat /\ Before(r, x) \in Nat
  BY ONLY <1>1, <1>2 DEF ChunkPlaces
<1>3. 0 \in P
  OBVIOUS
<1>4. ASSUME NEW x \in Nat, x \in P PROVE x + 1 \in P
  <2> SUFFICES ASSUME i <= x + 1, x + 1 <= k + 2
               PROVE  ChunkAt(r, i) <= ChunkAt(r, x + 1) /\ Before(r, i) <= Before(r, x + 1)
    OBVIOUS
  <2>1. CASE i = x + 1
    <3>1. PICK u, v : u = ChunkAt(r, i) /\ v = Before(r, i)
      OBVIOUS
    <3>2. u <= u /\ v <= v
      BY <1>2, <3>1
    <3> QED BY <2>1, <3>1, <3>2
  <2>2. CASE i # x + 1
    <3>1. i <= x /\ x \in 1 .. k + 1 /\ x \in 1 .. k + 2 /\ x + 1 \in 1 .. k + 2
      BY <2>2
    <3>2. ChunkAt(r, i) <= ChunkAt(r, x) /\ Before(r, i) <= Before(r, x)
      BY <1>4, <3>1
    <3>3. PICK c, d, e, u, v, w, z : /\ c = ChunkAt(r, i) /\ d = ChunkAt(r, x) /\ e = ChunkAt(r, x + 1)
                                     /\ u = Before(r, i) /\ v = Before(r, x) /\ w = Before(r, x + 1)
                                     /\ z = Size(r, x)
      OBVIOUS
    <3>4. e = d + z + 5 /\ w = v + z /\ z \in Nat
      BY ONLY <1>1, <3>1, <3>3 DEF ChunkPlaces
    <3>5. c \in Nat /\ d \in Nat /\ u \in Nat /\ v \in Nat /\ c <= d /\ u <= v
      BY <1>2, <3>1, <3>2, <3>3
    <3>6. c <= e /\ u <= w
      BY ONLY <3>4, <3>5
    <3> QED BY <3>3, <3>6
  <2> QED BY <2>1, <2>2
<1> HIDE DEF P
<1>5. j \in P
  <2>1. j \in Nat
    OBVIOUS
  <2> QED BY <1>3, <1>4, <2>1, InductionOverNat
<1> QED BY <1>5 DEF P

\* e bytes of the body have been read, and a response that is complete has been read as a whole.
ReadTo(r, p, e) ==
  /\ e \in 0 .. Len(r.body) /\ p.body = SubSeq(r.body, 1, e)
  /\ p.complete \in BOOLEAN
  /\ p.complete = TRUE => e = Len(r.body)

\* The bytes of chunk i among the first n bytes.
ChunkTo(r, n, i) ==
  IF n < ChunkAt(r, i) + 3 THEN 0
  ELSE IF n < ChunkAt(r, i) + 3 + Size(r, i) THEN n - (ChunkAt(r, i) + 3) ELSE Size(r, i)

IsLast(r, n, i) == i = Len(r.sizes) + 2 \/ (i = Len(r.sizes) + 1 /\ ~(n < ChunkAt(r, i) + 3))

\* How much of the body the parser has at chunk i.
LEMMA ChunkReadTo ==
  ASSUME NEW r \in Responses, r.framing = "chunked", NEW b, NEW n \in Nat, NEW k \in Nat, k = Len(r.sizes),
         NEW i \in 1 .. k + 2, NEW p, ChunkState(r, b, n, i, p), ChunkAt(r, i) <= n
  PROVE  /\ ChunkTo(r, n, i) \in 0 .. Size(r, i)
         /\ ReadTo(r, p, Before(r, i) + ChunkTo(r, n, i))
         /\ p.complete = TRUE <=> IsLast(r, n, i)
<1>1. ChunkPlaces(r, k)
  BY ChunksAt
<1>2. PICK c, z, e, l : c = ChunkAt(r, i) /\ z = Size(r, i) /\ e = Before(r, i) /\ l = Len(r.body)
  OBVIOUS
<1>3. c \in Nat /\ z \in Nat /\ e \in Nat /\ l \in Nat
  <2>1. c \in Nat /\ z \in Nat /\ e \in Nat
    BY ONLY <1>1, <1>2, i \in 1 .. k + 2 DEF ChunkPlaces
  <2> QED BY <1>2, <2>1, ResponseIs
<1>4. e + z <= l /\ (i >= k + 1 => e = l /\ z = 0)
  <2>1. CASE i = k + 2
    <3>1. e = l
      BY ONLY <1>1, <1>2, <2>1 DEF ChunkPlaces
    <3>2. z = 0
      <4>1. ~(i <= k)
        BY <2>1
      <4> QED BY <1>2, <4>1 DEF Size
    <3> QED BY ONLY <1>3, <3>1, <3>2
  <2>2. CASE i \in 1 .. k + 1
    <3>1. PICK f : f = Before(r, i + 1)
      OBVIOUS
    <3>2. f = e + z
      BY ONLY <1>1, <1>2, <2>2, <3>1 DEF ChunkPlaces
    <3>3. f <= l
      <4>1. i + 1 \in 1 .. k + 2
        BY ONLY <2>2, k \in Nat
      <4> QED BY ONLY <1>1, <1>2, <3>1, <4>1 DEF ChunkPlaces
    <3>4. CASE i = k + 1
      <4>1. e = l /\ z = 0
        BY ONLY <1>1, <1>2, <3>4 DEF ChunkPlaces
      <4> QED BY ONLY <1>3, <4>1
    <3>5. CASE i # k + 1
      BY ONLY <1>3, <2>2, <3>2, <3>3, <3>5, k \in Nat
    <3> QED BY <3>4, <3>5
  <2> QED BY <2>1, <2>2
<1>5. PICK w : w = ChunkTo(r, n, i)
  OBVIOUS
<1>6. w = IF n < c + 3 THEN 0 ELSE IF n < c + 3 + z THEN n - (c + 3) ELSE z
  BY ONLY <1>2, <1>5 DEF ChunkTo
<1>7. w \in 0 .. z
  BY ONLY <1>3, <1>6, n \in Nat
<1>8. w \in Nat /\ e + w \in 0 .. l
  BY ONLY <1>3, <1>4, <1>7
<1>9. CASE AtChunk(r, b, n, i, p) /\ (i = k + 2 \/ n < c + 3)
  <2>1. w = 0
    BY ONLY <1>3, <1>4, <1>6, <1>7, <1>9, k \in Nat
  <2>2. p.body = SubSeq(r.body, 1, e)
    BY ONLY <1>2, <1>9 DEF AtChunk, InBody
  <2>3. e + w = e
    BY ONLY <1>3, <2>1
  <2>4. (i = k + 2 => p.complete = TRUE) /\ (i # k + 2 => p.complete = FALSE)
    BY ONLY <1>9, k = Len(r.sizes) DEF AtChunk
  <2>5. p.complete \in BOOLEAN /\ (p.complete = TRUE => i = k + 2)
    <3>1. CASE i = k + 2
      BY ONLY <2>4, <3>1
    <3>2. CASE i # k + 2
      BY ONLY <2>4, <3>2
    <3> QED BY <3>1, <3>2
  <2>6. p.complete = TRUE => e + w = l
    BY ONLY <1>4, <2>3, <2>5, k \in Nat
  <2>7. ReadTo(r, p, e + w)
    BY ONLY <1>2, <1>8, <2>2, <2>3, <2>5, <2>6 DEF ReadTo
  <2>8. p.complete = TRUE <=> IsLast(r, n, i)
    <3>1. IsLast(r, n, i) <=> i = k + 2 \/ (i = k + 1 /\ ~(n < c + 3))
      BY ONLY <1>2, k = Len(r.sizes) DEF IsLast
    <3>2. i = k + 2 => p.complete = TRUE
      BY ONLY <2>4
    <3> QED BY ONLY <1>9, <2>5, <3>1, <3>2
  <2> QED BY ONLY <1>2, <1>5, <1>7, <2>7, <2>8
<1>10. CASE i # k + 2 /\ \E x \in Nat : InChunk(r, b, n, i, x, p) /\ Taken(r, n, i, x)
  <2>1. PICK x \in Nat : InChunk(r, b, n, i, x, p) /\ Taken(r, n, i, x)
    BY <1>10
  <2>2. x \in 0 .. z /\ c + 3 + x <= n /\ (x = z \/ c + 3 + x = n)
    BY ONLY <1>2, <2>1 DEF Taken
  <2>3. x = w /\ ~(n < c + 3)
    BY ONLY <1>3, <1>6, <2>2, n \in Nat
  <2>4. p.body = SubSeq(r.body, 1, e + w)
    BY ONLY <1>2, <2>1, <2>3 DEF InChunk, InBody
  <2>5. (i = k + 1 => p.complete = TRUE) /\ (i # k + 1 => p.complete = FALSE)
    BY ONLY <2>1, k = Len(r.sizes) DEF InChunk
  <2>6. p.complete \in BOOLEAN /\ (p.complete = TRUE => i = k + 1)
    <3>1. CASE i = k + 1
      BY ONLY <2>5, <3>1
    <3>2. CASE i # k + 1
      BY ONLY <2>5, <3>2
    <3> QED BY <3>1, <3>2
  <2>7. p.complete = TRUE => e + w = l
    BY ONLY <1>3, <1>4, <1>7, <2>6, k \in Nat
  <2>8. ReadTo(r, p, e + w)
    BY ONLY <1>2, <1>8, <2>4, <2>6, <2>7 DEF ReadTo
  <2>9. p.complete = TRUE <=> IsLast(r, n, i)
    <3>1. IsLast(r, n, i) <=> i = k + 2 \/ (i = k + 1 /\ ~(n < c + 3))
      BY ONLY <1>2, k = Len(r.sizes) DEF IsLast
    <3> QED BY ONLY <1>10, <2>3, <2>5, <2>6, <3>1
  <2> QED BY ONLY <1>2, <1>5, <1>7, <2>8, <2>9
<1>11. \/ AtChunk(r, b, n, i, p) /\ (i = k + 2 \/ n < c + 3)
       \/ i # k + 2 /\ \E x \in Nat : InChunk(r, b, n, i, x, p) /\ Taken(r, n, i, x)
  BY ONLY <1>2, k = Len(r.sizes), ChunkState(r, b, n, i, p) DEF ChunkState
<1> QED BY <1>9, <1>10, <1>11

\* Of the top and of a body without chunks: a byte of the body for each byte after the empty line.
LEMMA PlainReadTo ==
  ASSUME NEW r \in Responses, r.framing # "chunked", NEW m, MessageHolds(r, m), NEW b,
         NEW n \in Nat, n <= Len(m), NEW p, PlainAt(r, b, n, p)
  PROVE  /\ ReadTo(r, p, n - BodyStart(r))
         /\ p.complete = TRUE <=> r.framing = "length" /\ n = Len(m)
<1>1. PICK s, l, e, f : s = BodyStart(r) /\ l = Len(r.body) /\ e = Len(m) /\ f = PlainLeft(r, n)
  OBVIOUS
<1>2. s \in Nat /\ l \in Nat
  BY <1>1, PlacesAre, ResponseIs
<1>3. s <= n /\ e = s + l /\ n <= e
  BY <1>1 DEF PlainAt, MessageHolds
<1>4. n - s \in 0 .. l
  BY ONLY <1>2, <1>3, n \in Nat
<1>5. (r.framing = "length" => f = l - (n - s)) /\ (r.framing # "length" => f = -1)
  BY ONLY <1>1 DEF PlainLeft
<1>6. f = 0 <=> r.framing = "length" /\ n = e
  BY ONLY <1>2, <1>3, <1>5, n \in Nat
<1>7. (f = 0 => p.complete = TRUE) /\ (f # 0 => p.complete = FALSE) /\ p.body = SubSeq(r.body, 1, n - s)
  BY ONLY <1>1, PlainAt(r, b, n, p) DEF PlainAt, Plain, PlainKnown
<1>8. p.complete \in BOOLEAN /\ (p.complete = TRUE <=> f = 0)
  <2>1. CASE f = 0
    BY ONLY <1>7, <2>1
  <2>2. CASE f # 0
    BY ONLY <1>7, <2>2
  <2> QED BY <2>1, <2>2
<1>9. n = e => n - s = l
  BY ONLY <1>2, <1>3
<1>10. ReadTo(r, p, n - s)
  BY ONLY <1>1, <1>4, <1>6, <1>7, <1>8, <1>9 DEF ReadTo
<1> QED BY ONLY <1>1, <1>6, <1>8, <1>10

\* With more bytes, no less of the body is there.
ReadsOn(r, p, q) ==
  \E d, e \in Nat : /\ d <= e /\ ReadTo(r, p, d) /\ ReadTo(r, q, e)
                    /\ p.complete = TRUE => q.complete = TRUE

\* A parser of chunks reads on.
LEMMA ChunksReadOn ==
  ASSUME NEW r \in Responses, r.framing = "chunked", NEW b, NEW n \in Nat, NEW n2 \in Nat, n <= n2,
         NEW p, NEW q, ChunksRead(r, b, n, 0, p), ChunksRead(r, b, n2, 0, q)
  PROVE  ReadsOn(r, p, q)
<1>1. PICK k : k = Len(r.sizes)
  OBVIOUS
<1>2. k \in Nat
  BY <1>1, ResponseIs
<1>3. ChunkPlaces(r, k)
  BY <1>1, <1>2, ChunksAt
<1>4. PICK i \in 1 .. k + 2 : /\ ChunkState(r, b, n, i, p) /\ ChunkAt(r, i) <= n
                              /\ i # k + 2 => n < ChunkAt(r, i + 1)
  BY <1>1, <1>2, ChunkStateOf
<1>5. PICK j \in 1 .. k + 2 : /\ ChunkState(r, b, n2, j, q) /\ ChunkAt(r, j) <= n2
                              /\ j # k + 2 => n2 < ChunkAt(r, j + 1)
  BY <1>1, <1>2, ChunkStateOf
<1>6. PICK v, w, c, e, z : /\ v = ChunkTo(r, n, i) /\ w = ChunkTo(r, n2, j) /\ c = ChunkAt(r, j)
                           /\ e = Before(r, j) /\ z = Size(r, j)
  OBVIOUS
<1>7. PICK d, y : d = Before(r, i) /\ y = Size(r, i)
  OBVIOUS
<1>8. /\ v \in 0 .. y /\ ReadTo(r, p, d + v) /\ (p.complete = TRUE <=> IsLast(r, n, i))
      /\ w \in 0 .. z /\ ReadTo(r, q, e + w) /\ (q.complete = TRUE <=> IsLast(r, n2, j))
  BY <1>1, <1>2, <1>4, <1>5, <1>6, <1>7, ChunkReadTo
<1>9. c \in Nat /\ e \in Nat /\ z \in Nat /\ d \in Nat /\ y \in Nat
  BY ONLY <1>3, <1>6, <1>7, i \in 1 .. k + 2, j \in 1 .. k + 2 DEF ChunkPlaces
<1>10. i <= j
  <2>1. ASSUME j < i PROVE FALSE
    <3>1. j + 1 \in 1 .. k + 2 /\ j + 1 <= i /\ j # k + 2
      BY <1>2, <2>1
    <3>2. ChunkAt(r, j + 1) <= ChunkAt(r, i)
      BY <1>1, <1>2, <3>1, LaterChunk
    <3>3. PICK f, g : f = ChunkAt(r, j + 1) /\ g = ChunkAt(r, i)
      OBVIOUS
    <3>4. f \in Nat /\ g \in Nat
      BY ONLY <1>3, <3>1, <3>3, i \in 1 .. k + 2 DEF ChunkPlaces
    <3>5. f <= g /\ g <= n /\ n2 < f
      BY <1>4, <1>5, <3>1, <3>2, <3>3
    <3> QED BY ONLY <3>4, <3>5, n \in Nat, n2 \in Nat, n <= n2
  <2> QED BY <1>2, <2>1
<1>11. CASE i = j
  <2>1. v = IF n < c + 3 THEN 0 ELSE IF n < c + 3 + z THEN n - (c + 3) ELSE z
    BY ONLY <1>6, <1>11 DEF ChunkTo
  <2>2. w = IF n2 < c + 3 THEN 0 ELSE IF n2 < c + 3 + z THEN n2 - (c + 3) ELSE z
    BY ONLY <1>6 DEF ChunkTo
  <2>3. v <= w
    BY ONLY <1>9, <2>1, <2>2, n \in Nat, n2 \in Nat, n <= n2
  <2>4. d = e
    BY <1>6, <1>7, <1>11
  <2>5. d + v \in Nat /\ e + w \in Nat /\ d + v <= e + w
    BY ONLY <1>8, <1>9, <2>3, <2>4
  <2>6. IsLast(r, n, i) => IsLast(r, n2, j)
    <3>1. IsLast(r, n, i) <=> i = k + 2 \/ (i = k + 1 /\ ~(n < c + 3))
      BY ONLY <1>1, <1>6, <1>11 DEF IsLast
    <3>2. IsLast(r, n2, j) <=> j = k + 2 \/ (j = k + 1 /\ ~(n2 < c + 3))
      BY ONLY <1>1, <1>6 DEF IsLast
    <3>3. ~(n < c + 3) => ~(n2 < c + 3)
      BY ONLY <1>9, n \in Nat, n2 \in Nat, n <= n2
    <3> QED BY ONLY <1>11, <3>1, <3>2, <3>3
  <2> QED BY ONLY <1>8, <2>5, <2>6 DEF ReadsOn
<1>12. CASE i < j
  <2>1. i + 1 \in 1 .. k + 2 /\ i + 1 <= j /\ i \in 1 .. k + 1
    BY <1>2, <1>12
  <2>2. Before(r, i + 1) <= e
    BY <1>1, <1>2, <1>6, <2>1, LaterChunk
  <2>3. PICK f : f = Before(r, i + 1)
    OBVIOUS
  <2>4. f = d + y
    BY ONLY <1>3, <1>7, <2>1, <2>3 DEF ChunkPlaces
  <2>5. f <= e
    BY <2>2, <2>3
  <2>6. d + v \in Nat /\ e + w \in Nat /\ d + v <= e + w
    BY ONLY <1>8, <1>9, <2>4, <2>5
  <2>7. IsLast(r, n, i) => IsLast(r, n2, j)
    <3>1. IsLast(r, n, i) => i = k + 2 \/ i = k + 1
      BY ONLY <1>1 DEF IsLast
    <3>2. j = k + 2 => IsLast(r, n2, j)
      BY ONLY <1>1 DEF IsLast
    <3>3. i = k + 2 \/ i = k + 1 => j = k + 2
      BY ONLY <1>2, <1>12, i \in 1 .. k + 2, j \in 1 .. k + 2
    <3> QED BY ONLY <3>1, <3>2, <3>3
  <2> QED BY ONLY <1>8, <2>6, <2>7 DEF ReadsOn
<1> QED BY ONLY <1>10, <1>11, <1>12, i \in 1 .. k + 2, j \in 1 .. k + 2, <1>2

\* At the top nothing of the body is there.
LEMMA TopReadTo ==
  ASSUME NEW r \in Responses, NEW b, NEW n, NEW k, NEW p, TopAt(r, b, n, k, p)
  PROVE  ReadTo(r, p, 0) /\ p.complete = FALSE
<1>1. p.body = <<>> /\ p.complete = FALSE
  BY DEF TopAt, InTop
<1>2. r.body \in Seq(Byte) /\ Len(r.body) \in Nat
  BY ResponseIs
<1>3. SubSeq(r.body, 1, 0) = <<>>
  BY <1>2, NothingTaken
<1>4. 0 \in 0 .. Len(r.body)
  BY <1>2
<1> QED BY ONLY <1>1, <1>3, <1>4 DEF ReadTo

\* A parser that has got more bytes knows at least what it knew.
LEMMA QuietReadsOn ==
  ASSUME NEW r \in Responses, NEW m, MessageHolds(r, m), NEW b, NEW n \in Nat, NEW n2 \in Nat,
         n <= n2, n2 <= Len(m), NEW p, NEW q, Quiet(r, b, n, p), Quiet(r, b, n2, q)
  PROVE  ReadsOn(r, p, q)
<1>0. m \in Seq(Piece)
  BY DEF MessageHolds
<1>1. n <= Len(m)
  BY <1>0
<1>2. ASSUME NEW x, Quiet(r, b, n2, x) PROVE \E e \in Nat : ReadTo(r, x, e)
  <2>1. CASE \E k \in 0 .. LinesOf(r) : TopAt(r, b, n2, k, x)
    <3>1. ReadTo(r, x, 0) /\ 0 \in Nat
      BY <2>1, TopReadTo
    <3> QED BY ONLY <3>1
  <2>2. CASE r.framing # "chunked" /\ PlainAt(r, b, n2, x)
    <3>1. ReadTo(r, x, n2 - BodyStart(r))
      BY <2>2, PlainReadTo
    <3>2. Len(r.body) \in Nat
      BY ResponseIs
    <3>3. PICK e : e = n2 - BodyStart(r)
      OBVIOUS
    <3>4. e \in 0 .. Len(r.body) /\ ReadTo(r, x, e)
      BY ONLY <3>1, <3>3 DEF ReadTo
    <3>5. e \in Nat
      BY ONLY <3>2, <3>4
    <3> QED BY ONLY <3>4, <3>5
  <2>3. CASE r.framing = "chunked" /\ ChunksRead(r, b, n2, 0, x)
    <3>1. ReadsOn(r, x, x)
      <4>1. n2 <= n2
        OBVIOUS
      <4> QED BY <2>3, <4>1, ChunksReadOn
    <3> QED BY ONLY <3>1 DEF ReadsOn
  <2> QED BY ONLY <1>2, <2>1, <2>2, <2>3 DEF Quiet
<1>3. CASE \E k \in 0 .. LinesOf(r) : TopAt(r, b, n, k, p)
  <2>1. ReadTo(r, p, 0) /\ p.complete = FALSE
    BY <1>3, TopReadTo
  <2>2. PICK e : e \in Nat /\ ReadTo(r, q, e)
    BY <1>2
  <2>3. 0 \in Nat /\ 0 <= e
    BY ONLY <2>2
  <2> QED BY ONLY <2>1, <2>2, <2>3 DEF ReadsOn
<1>4. CASE \E k \in 0 .. LinesOf(r) : TopAt(r, b, n2, k, q)
  <2>1. ~(BodyStart(r) <= n2)
    BY <1>4, TopIsBefore
  <2>2. PICK s : s = BodyStart(r)
    OBVIOUS
  <2>3. s \in Nat
    BY <2>2, PlacesAre
  <2>4. ~(s <= n)
    BY ONLY <2>1, <2>2, <2>3, n \in Nat, n2 \in Nat, n <= n2
  <2>5. ~PlainAt(r, b, n, p)
    BY ONLY <2>2, <2>4 DEF PlainAt
  <2>6. ~(r.framing = "chunked" /\ ChunksRead(r, b, n, 0, p))
    BY <2>2, <2>4, ChunksAreAfter
  <2> QED BY <1>3, <2>5, <2>6 DEF Quiet
<1>5. CASE r.framing # "chunked" /\ PlainAt(r, b, n, p) /\ PlainAt(r, b, n2, q)
  <2>1. PICK s, d, e : s = BodyStart(r) /\ d = n - s /\ e = n2 - s
    OBVIOUS
  <2>2. ReadTo(r, p, d) /\ (p.complete = TRUE <=> r.framing = "length" /\ n = Len(m))
    BY <1>1, <1>5, <2>1, PlainReadTo
  <2>3. ReadTo(r, q, e) /\ (q.complete = TRUE <=> r.framing = "length" /\ n2 = Len(m))
    BY <1>5, <2>1, PlainReadTo
  <2>4. s \in Nat /\ Len(m) \in Nat
    BY <1>0, <2>1, PlacesAre
  <2>5. s <= n
    BY ONLY <1>5, <2>1 DEF PlainAt
  <2>6. d \in Nat /\ e \in Nat /\ d <= e
    BY ONLY <2>1, <2>4, <2>5, n \in Nat, n2 \in Nat, n <= n2
  <2>7. n = Len(m) => n2 = Len(m)
    BY ONLY <2>4, n \in Nat, n2 \in Nat, n <= n2, n2 <= Len(m)
  <2> QED BY ONLY <2>2, <2>3, <2>6, <2>7 DEF ReadsOn
<1>6. CASE r.framing = "chunked" /\ ChunksRead(r, b, n, 0, p) /\ ChunksRead(r, b, n2, 0, q)
  BY <1>6, ChunksReadOn
<1>7. /\ \/ \E k \in 0 .. LinesOf(r) : TopAt(r, b, n, k, p)
         \/ r.framing # "chunked" /\ PlainAt(r, b, n, p)
         \/ r.framing = "chunked" /\ ChunksRead(r, b, n, 0, p)
      /\ \/ \E k \in 0 .. LinesOf(r) : TopAt(r, b, n2, k, q)
         \/ r.framing # "chunked" /\ PlainAt(r, b, n2, q)
         \/ r.framing = "chunked" /\ ChunksRead(r, b, n2, 0, q)
  BY ONLY Quiet(r, b, n, p), Quiet(r, b, n2, q) DEF Quiet
<1> QED BY ONLY <1>3, <1>4, <1>5, <1>6, <1>7

\* No piece of a response that a host sends makes the parser throw.
LEMMA QuietIsNotThrown ==
  ASSUME NEW r, NEW b, NEW n, NEW p, Quiet(r, b, n, p)
  PROVE  p.thrown = FALSE
<1>1. PastTop(r, p) => p.thrown = FALSE
  BY DEF PastTop
<1>2. CASE \E k \in 0 .. LinesOf(r) : TopAt(r, b, n, k, p)
  BY <1>2 DEF TopAt, InTop
<1>3. CASE PlainAt(r, b, n, p)
  BY <1>1, <1>3 DEF PlainAt, Plain
<1>4. CASE ChunksRead(r, b, n, 0, p)
  <2>1. CASE \E i \in 1 .. Len(r.sizes) + 2 : BeforeChunk(r, b, n, 0, i, p)
    BY <1>1, <2>1 DEF BeforeChunk, AtChunk, InBody
  <2>2. CASE \E i \in 1 .. Len(r.sizes) + 1, w \in Nat : WithinChunk(r, b, n, 0, i, w, p)
    BY <1>1, <2>2 DEF WithinChunk, InChunk, InBody
  <2> QED BY ONLY <1>4, <2>1, <2>2 DEF ChunksRead
<1> QED BY ONLY <1>2, <1>3, <1>4, Quiet(r, b, n, p) DEF Quiet

\* endedHttpRequest has been called when the parser is complete, and then only.
NotifiedInv == notified \in BOOLEAN /\ (notified = TRUE <=> parser.complete = TRUE)

\* What a step has read of the body.
LEMMA StepReadsOn ==
  ASSUME ParserInv, ParserInv', response' = response, message' = message, received <= received'
  PROVE  ReadsOn(response, parser, parser')
<1>1. MessageHolds(response, message)
  BY MessageIs DEF ParserInv
<1>2. message \in Seq(Piece)
  BY ONLY <1>1 DEF MessageHolds
<1>3. PICK b : b = BytesOf(message)
  OBVIOUS
<1>4. BytesOf(message)' = BytesOf(message)
  BY DEF BytesOf
<1>5. PICK r, m, p, q : r = response /\ m = message /\ p = parser /\ q = parser'
  OBVIOUS
<1>6. received \in Nat /\ received' \in Nat /\ received' <= Len(m)
  BY <1>2, <1>5 DEF ParserInv
<1>7. r \in Responses /\ MessageHolds(r, m) /\ Quiet(r, b, received, p)
  BY <1>1, <1>3, <1>5 DEF ParserInv
<1>8. Quiet(r, b, received', q)
  <2>1. Quiet(response', BytesOf(message)', received', parser')
    BY DEF ParserInv
  <2> QED BY ONLY <1>3, <1>4, <1>5, <2>1, response' = response
<1>9. ReadsOn(r, p, q)
  BY ONLY <1>6, <1>7, <1>8, received <= received', QuietReadsOn
<1> QED BY ONLY <1>5, <1>9

\* Whether it had been notified (x), and whether it then is (y).
Notifies(p, q, x, y) ==
  /\ x \in BOOLEAN /\ y \in BOOLEAN /\ (x = TRUE <=> p.complete = TRUE)
  /\ y = TRUE <=> (x = TRUE \/ q.complete = TRUE)

OneRead(r, p, q, x, y) ==
  /\ y = TRUE <=> q.complete = TRUE
  /\ x = TRUE => q.body = p.body /\ y = x
  /\ Len(p.body) <= Len(q.body) /\ SubSeq(q.body, 1, Len(p.body)) = p.body
  /\ Len(q.body) <= Len(r.body) /\ SubSeq(r.body, 1, Len(q.body)) = q.body
  /\ y = TRUE => q.body = r.body

\* A piece is a step of the reader, or changes nothing.
LEMMA ReadOneStep ==
  ASSUME NEW r \in Responses, NEW p, NEW q, ReadsOn(r, p, q), NEW x, NEW y, Notifies(p, q, x, y)
  PROVE  OneRead(r, p, q, x, y)
<1>0. /\ x \in BOOLEAN /\ y \in BOOLEAN /\ (x = TRUE <=> p.complete = TRUE)
      /\ y = TRUE <=> (x = TRUE \/ q.complete = TRUE)
  BY DEF Notifies
<1>1. PICK d \in Nat, e \in Nat : /\ d <= e /\ ReadTo(r, p, d) /\ ReadTo(r, q, e)
                                  /\ p.complete = TRUE => q.complete = TRUE
  BY DEF ReadsOn
<1>2. PICK s, l : s = r.body /\ l = Len(r.body)
  OBVIOUS
<1>3. s \in Seq(Byte) /\ l = Len(s) /\ l \in Nat
  BY <1>2, ResponseIs
<1>4. /\ d \in 0 .. l /\ p.body = SubSeq(s, 1, d) /\ p.complete \in BOOLEAN /\ (p.complete = TRUE => d = l)
      /\ e \in 0 .. l /\ q.body = SubSeq(s, 1, e) /\ q.complete \in BOOLEAN /\ (q.complete = TRUE => e = l)
  BY ONLY <1>1, <1>2 DEF ReadTo
<1>5. y = TRUE <=> q.complete = TRUE
  BY <1>0, <1>1, <1>4
<1>6. \A z \in 0 .. l : SubSeq(s, 1, z) \in Seq(Byte) /\ Len(SubSeq(s, 1, z)) = z
                        /\ \A i \in 1 .. z : SubSeq(s, 1, z)[i] = s[i]
  BY ONLY <1>3
<1>7. PICK u, v : u = p.body /\ v = q.body
  OBVIOUS
<1>8. /\ u \in Seq(Byte) /\ Len(u) = d /\ \A i \in 1 .. d : u[i] = s[i]
      /\ v \in Seq(Byte) /\ Len(v) = e /\ \A i \in 1 .. e : v[i] = s[i]
  BY ONLY <1>4, <1>6, <1>7
<1>9. SubSeq(v, 1, d) = u
  <2>1. PICK t : t = SubSeq(v, 1, d)
    OBVIOUS
  <2>2. t \in Seq(Byte) /\ Len(t) = d /\ \A i \in 1 .. d : t[i] = v[i]
    BY ONLY <1>8, <2>1, d \in Nat, e \in Nat, <1>1
  <2>3. \A i \in 1 .. d : v[i] = s[i]
    BY ONLY <1>8, d \in Nat, e \in Nat, <1>1
  <2>4. t = u
    <3>1. \A i \in 1 .. d : t[i] = u[i]
      BY ONLY <1>8, <2>2, <2>3
    <3> QED BY ONLY <1>8, <2>2, <3>1, SameElements
  <2> QED BY <2>1, <2>4
<1>10. Len(s) \in Nat /\ SubSeq(s, 1, Len(s)) = s
  BY ONLY <1>3
<1>11. q.complete = TRUE => v = s
  BY ONLY <1>3, <1>4, <1>7, <1>10
<1>12. x = TRUE => v = u /\ y = x
  <2> SUFFICES ASSUME x = TRUE PROVE v = u /\ y = x
    OBVIOUS
  <2>1. p.complete = TRUE /\ q.complete = TRUE
    BY <1>0, <1>1
  <2>2. d = l /\ e = l
    BY ONLY <1>4, <2>1
  <2>3. u = v
    BY ONLY <1>4, <1>7, <2>2
  <2>4. y = TRUE
    BY <1>5, <2>1
  <2> QED BY <2>3, <2>4
<1>13. d <= l /\ e <= l
  BY ONLY <1>3, <1>4
<1>14. SubSeq(s, 1, e) = v
  BY ONLY <1>4, <1>7
<1>15. Len(u) <= Len(v) /\ SubSeq(v, 1, Len(u)) = u /\ Len(v) <= Len(s) /\ SubSeq(s, 1, Len(v)) = v
  BY ONLY <1>1, <1>3, <1>8, <1>9, <1>13, <1>14
<1>16. y = TRUE => v = s
  BY ONLY <1>5, <1>11
<1> QED BY ONLY <1>2, <1>5, <1>7, <1>12, <1>15, <1>16 DEF OneRead

reader == <<ofPlainStream(response.body), ofPlainStream(parser.body), notified>>

\* endedHttpRequest is called when the body is complete, and each step reads on or changes nothing.
LEMMA NotifiedInvNext ==
  ASSUME ParserInv, ParserInv', NotifiedInv, [Next]_vars
  PROVE  NotifiedInv' /\ [Reader!Read]_reader
<1>0. /\ ofPlainStream(response.body) = response.body /\ ofPlainStream(response.body)' = response.body'
      /\ ofPlainStream(parser.body) = parser.body /\ ofPlainStream(parser.body)' = parser.body'
  BY DEF ParserInv, ofPlainStream
<1>1. CASE Receive
  <2>1. PICK n : n \in received + 1 .. Len(message) /\ received' = n
                 /\ notified' = (notified \/ (parser'.complete /\ ~parser'.thrown))
    BY <1>1 DEF Receive
  <2>2. response' = response /\ message' = message
    BY <1>1 DEF Receive
  <2>3. MessageHolds(response, message)
    BY MessageIs DEF ParserInv
  <2>4. message \in Seq(Piece)
    BY ONLY <2>3 DEF MessageHolds
  <2>5. received <= received'
    BY <2>1, <2>4 DEF ParserInv
  <2>6. ReadsOn(response, parser, parser')
    BY <2>2, <2>5, StepReadsOn
  <2>7. parser'.thrown = FALSE
    <3>1. Quiet(response', BytesOf(message)', received', parser')
      BY DEF ParserInv
    <3> QED BY ONLY <3>1, QuietIsNotThrown
  <2>8. PICK r, p, q, x, y : r = response /\ p = parser /\ q = parser' /\ x = notified /\ y = notified'
    OBVIOUS
  <2>9. q.complete \in BOOLEAN
    BY <2>6, <2>8 DEF ReadsOn, ReadTo
  <2>10. x \in BOOLEAN /\ (x = TRUE <=> p.complete = TRUE)
         /\ y \in BOOLEAN /\ (y = TRUE <=> (x = TRUE \/ q.complete = TRUE))
    BY ONLY <2>1, <2>7, <2>8, <2>9, NotifiedInv DEF NotifiedInv
  <2>11. r \in Responses /\ ReadsOn(r, p, q)
    BY <2>6, <2>8 DEF ParserInv
  <2>12. OneRead(r, p, q, x, y)
    <3>1. Notifies(p, q, x, y)
      BY ONLY <2>10 DEF Notifies
    <3> QED BY ONLY <2>11, <3>1, ReadOneStep
  <2>13. NotifiedInv'
    BY ONLY <2>8, <2>10, <2>12 DEF NotifiedInv, OneRead
  <2>14. (response.body)' = response.body
    BY <2>2
  <2>15. CASE x = TRUE
    <3>1. (parser.body)' = parser.body /\ notified' = notified
      BY ONLY <2>8, <2>12, <2>15 DEF OneRead
    <3> QED BY <1>0, <2>13, <2>14, <3>1 DEF reader
  <2>16. CASE x = FALSE
    <3>1. ~notified
      BY ONLY <2>8, <2>16
    <3>2. Reader!IsLonger(parser.body, parser'.body) /\ Reader!IsLonger(parser'.body, response.body)
      BY ONLY <2>8, <2>12 DEF Reader!IsLonger, OneRead
    <3>3. notified' => parser'.body = response.body
      BY ONLY <2>8, <2>10, <2>12 DEF OneRead
    <3>4. Reader!Read
      BY ONLY <1>0, <2>2, <2>14, <3>1, <3>2, <3>3 DEF Reader!Read, Reader!IsLonger
    <3> QED BY ONLY <2>13, <3>4
  <2> QED BY <2>10, <2>15, <2>16
<1>2. CASE UNCHANGED <<response, message, parser, notified>>
  BY <1>0, <1>2 DEF NotifiedInv, reader
<1>3. CASE Finish
  BY <1>2, <1>3 DEF Finish
<1>4. CASE UNCHANGED vars
  BY <1>2, <1>4 DEF vars
<1> QED BY <1>1, <1>3, <1>4 DEF Next

\* The parser and the notification of a complete response implement ResponseReader: the body arrives in order,
\* and the claim goes on no earlier than its last byte.
THEOREM ParserReadsInOrder == Spec => ReadsInOrder
<1>1. Init => notified \in BOOLEAN /\ NotifiedInv /\ Reader!Init
  <2> SUFFICES ASSUME Init PROVE notified \in BOOLEAN /\ NotifiedInv /\ Reader!Init
    OBVIOUS
  <2>1. parser.body = <<>> /\ parser.complete = FALSE
    BY DEF Init, makeHttpResponseParser
  <2>2. notified = FALSE
    BY DEF Init
  <2> QED BY ONLY <2>1, <2>2 DEF NotifiedInv, Reader!Init, ofPlainStream
<1>2. ParserInv /\ ParserInv' /\ NotifiedInv /\ [Next]_vars => NotifiedInv' /\ [Reader!Read]_reader
  BY NotifiedInvNext
\* What is read of a stream that is not plain is left out; that it is complete is said once.
<1>3. ASSUME ~hasPlainStream(response), notified \in BOOLEAN, [Next]_vars
      PROVE  notified' \in BOOLEAN /\ [Reader!Read]_reader
  <2>1. response' = response
    BY <1>3 DEF Next, Receive, Finish, vars
  <2>2. /\ ofPlainStream(response.body) = <<>> /\ ofPlainStream(response.body)' = <<>>
        /\ ofPlainStream(parser.body) = <<>> /\ ofPlainStream(parser.body)' = <<>>
    BY <1>3, <2>1 DEF ofPlainStream, hasPlainStream
  <2>3. PICK c : notified' = notified \/ notified' = (notified \/ c)
    BY <1>3 DEF Next, Receive, Finish, vars
  <2>4. notified' = notified \/ (notified = FALSE /\ notified' = TRUE)
    BY <1>3, <2>3
  <2>5. CASE notified' = notified
    BY <1>3, <2>2, <2>5 DEF reader
  <2>6. CASE notified = FALSE /\ notified' = TRUE
    BY <2>2, <2>6 DEF Reader!Read, Reader!IsLonger
  <2> QED BY <2>4, <2>5, <2>6
<1> DEFINE WhilePlain == hasPlainStream(response) => ParserInv
           Inv == notified \in BOOLEAN /\ (hasPlainStream(response) => NotifiedInv)
<1>4. WhilePlain /\ WhilePlain' /\ Inv /\ [Next]_vars => Inv' /\ [Reader!Read]_reader
  <2> SUFFICES ASSUME WhilePlain, WhilePlain', Inv, [Next]_vars PROVE Inv' /\ [Reader!Read]_reader
    OBVIOUS
  <2>1. response' = response
    BY DEF Next, Receive, Finish, vars
  <2>2. hasPlainStream(response)' <=> hasPlainStream(response)
    BY <2>1 DEF hasPlainStream
  <2>3. CASE hasPlainStream(response)
    <3>1. NotifiedInv' /\ [Reader!Read]_reader
      BY <1>2, <2>2, <2>3
    <3>2. notified' \in BOOLEAN
      BY <3>1 DEF NotifiedInv
    <3> QED BY <3>1, <3>2
  <2>4. CASE ~hasPlainStream(response)
    BY <1>3, <2>2, <2>4
  <2> QED BY <2>3, <2>4
<1>5. Init => Inv /\ Reader!Init
  BY <1>1
<1>6. Spec => []WhilePlain
  BY ParserInvariance
<1>7. ReadsInOrder <=> Reader!Init /\ [][Reader!Read]_reader
  BY DEF ReadsInOrder, Reader!Spec, reader
<1> HIDE DEF WhilePlain, Inv
<1> QED BY <1>4, <1>5, <1>6, <1>7, PTL DEF Spec

-----------------------------------------------------------------------------
(* Where the parts of a response are.                                       *)

\* What each byte of the top is part of.
LEMMA TopParts ==
  ASSUME NEW r \in Responses, NEW m, MessageHolds(r, m), NEW k \in 1 .. BodyStart(r)
  PROVE  /\ m[k].part = "status" <=> k = 1
         /\ m[k].part = "date" <=> \E i \in 1 .. Len(r.head) : k = 3 * i + 1 /\ r.head[i] = Date
         /\ m[k].part # "body"
<1>1. TopHolds(r, m)
  BY DEF MessageHolds
<1>2. Len(r.head) \in Nat /\ BodyStart(r) \in Nat
  BY ResponseIs, PlacesAre
<1>3. m[1].part = "status"
  <2>1. LineAt(m, 0, StatusLine, "status")
    BY ONLY <1>1 DEF TopHolds
  <2>2. Len(StatusLine) = 1 /\ 1 \in 1 .. Len(StatusLine) /\ 0 + 1 = 1
    BY DEF StatusLine
  <2> QED BY ONLY <2>1, <2>2 DEF LineAt
<1>4. \A i \in 1 .. Len(r.head) : m[3 * i + 1].part = HeadPart(r, i)
  <2> SUFFICES ASSUME NEW i \in 1 .. Len(r.head) PROVE m[3 * i + 1].part = HeadPart(r, i)
    OBVIOUS
  <2>1. LineAt(m, 3 * i, <<r.head[i]>>, HeadPart(r, i))
    BY ONLY <1>1, i \in 1 .. Len(r.head) DEF TopHolds
  <2>2. 1 \in 1 .. Len(<<r.head[i]>>)
    OBVIOUS
  <2> QED BY ONLY <2>1, <2>2 DEF LineAt
<1>5. m[k].part = "frame" \/ k = 1 \/ \E i \in 1 .. Len(r.head) : k = 3 * i + 1
  BY ONLY <1>1, k \in 1 .. BodyStart(r) DEF TopHolds
<1>6. \A i \in 1 .. Len(r.head) : HeadPart(r, i) = IF r.head[i] = Date THEN "date" ELSE "header"
  BY DEF HeadPart
<1>7. CASE k = 1
  <2>1. \A i \in 1 .. Len(r.head) : k # 3 * i + 1
    BY ONLY <1>2, <1>7
  <2> QED BY ONLY <1>3, <1>7, <2>1
<1>8. CASE \E i \in 1 .. Len(r.head) : k = 3 * i + 1
  <2>1. PICK i \in 1 .. Len(r.head) : k = 3 * i + 1
    BY ONLY <1>8
  <2>2. k # 1 /\ \A j \in 1 .. Len(r.head) : k = 3 * j + 1 => j = i
    BY ONLY <1>2, <2>1
  <2>3. m[k].part = IF r.head[i] = Date THEN "date" ELSE "header"
    BY ONLY <1>4, <1>6, <2>1
  <2> QED BY ONLY <2>1, <2>2, <2>3
<1>9. CASE m[k].part = "frame" /\ k # 1 /\ ~\E i \in 1 .. Len(r.head) : k = 3 * i + 1
  BY ONLY <1>9
<1> QED BY ONLY <1>5, <1>7, <1>8, <1>9

\* Each byte after the top is in a chunk.
LEMMA ChunkWith ==
  ASSUME NEW r \in Responses, r.framing = "chunked", NEW k \in Nat, k = Len(r.sizes),
         NEW n \in Nat, BodyStart(r) <= n, n < ChunkAt(r, k + 2)
  PROVE  \E i \in 1 .. k + 1 : ChunkAt(r, i) <= n /\ n < ChunkAt(r, i + 1)
<1>1. ChunkPlaces(r, k)
  BY ChunksAt
<1> DEFINE P == {x \in Nat : x <= k + 1 /\ n < ChunkAt(r, x + 1) =>
                   \E i \in 1 .. k + 1 : ChunkAt(r, i) <= n /\ n < ChunkAt(r, i + 1)}
<1>2. 0 \in P
  <2>1. ChunkAt(r, 1) = BodyStart(r) /\ 0 + 1 = 1
    BY ONLY <1>1 DEF ChunkPlaces
  <2>2. PICK s : s = BodyStart(r)
    OBVIOUS
  <2>3. s \in Nat /\ s <= n
    BY <2>2, PlacesAre
  <2>4. ~(n < s)
    BY ONLY <2>3, n \in Nat
  <2>5. ~(n < ChunkAt(r, 0 + 1))
    BY ONLY <2>1, <2>2, <2>4
  <2> QED BY <2>5
<1>3. ASSUME NEW x \in Nat, x \in P PROVE x + 1 \in P
  <2> SUFFICES ASSUME x + 1 <= k + 1, n < ChunkAt(r, (x + 1) + 1)
               PROVE  \E i \in 1 .. k + 1 : ChunkAt(r, i) <= n /\ n < ChunkAt(r, i + 1)
    OBVIOUS
  <2>1. CASE n < ChunkAt(r, x + 1)
    <3>1. x <= k + 1
      OBVIOUS
    <3> QED BY <1>3, <2>1, <3>1
  <2>2. CASE ~(n < ChunkAt(r, x + 1))
    <3>1. x + 1 \in 1 .. k + 1 /\ x + 1 \in 1 .. k + 2
      OBVIOUS
    <3>2. PICK c : c = ChunkAt(r, x + 1)
      OBVIOUS
    <3>3. c \in Nat
      BY ONLY <1>1, <3>1, <3>2 DEF ChunkPlaces
    <3>4. c <= n
      BY ONLY <2>2, <3>2, <3>3, n \in Nat
    <3> QED BY <3>1, <3>2, <3>4
  <2> QED BY <2>1, <2>2
<1> HIDE DEF P
<1>4. k + 1 \in P
  <2>1. k + 1 \in Nat
    OBVIOUS
  <2> QED BY <1>2, <1>3, <2>1, InductionOverNat
<1>5. (k + 1) + 1 = k + 2 /\ k + 1 <= k + 1
  OBVIOUS
<1>6. n < ChunkAt(r, (k + 1) + 1)
  BY <1>5
<1> QED BY <1>4, <1>5, <1>6 DEF P

\* Byte j of chunk i.
IsInChunk(r, k, i, j) == i \in 1 .. Len(r.sizes) /\ j \in 1 .. Size(r, i) /\ k = ChunkAt(r, i) + 3 + j

\* A byte after the top of a chunked response frames a chunk or is in one.
LEMMA ChunkParts ==
  ASSUME NEW r \in Responses, r.framing = "chunked", NEW m, MessageHolds(r, m),
         NEW k \in Nat, BodyStart(r) < k, k <= Len(m)
  PROVE  m[k].part = "frame" \/ \E i \in 1 .. Len(r.sizes), j \in Nat : IsInChunk(r, k, i, j)
<1>1. PICK l : l = Len(r.sizes)
  OBVIOUS
<1>2. l \in Nat
  BY <1>1, ResponseIs
<1>3. ChunkPlaces(r, l)
  BY <1>1, <1>2, ChunksAt
<1>4. PICK n, s, e : n = k - 1 /\ s = BodyStart(r) /\ e = Len(m)
  OBVIOUS
<1>5. s \in Nat /\ e = ChunkAt(r, l + 2)
  BY <1>1, <1>4, PlacesAre DEF MessageHolds
<1>6. e \in Nat
  <2>1. l + 2 \in 1 .. l + 2
    BY ONLY <1>2
  <2> QED BY ONLY <1>3, <1>5, <2>1 DEF ChunkPlaces
<1>7. s < k /\ k <= e
  BY <1>4
<1>8. n \in Nat /\ s <= n /\ n < e /\ k = n + 1
  BY ONLY <1>4, <1>5, <1>6, <1>7, k \in Nat
<1>9. BodyStart(r) <= n /\ n < ChunkAt(r, l + 2)
  BY ONLY <1>4, <1>5, <1>8
<1>10. PICK i \in 1 .. l + 1 : ChunkAt(r, i) <= n /\ n < ChunkAt(r, i + 1)
  BY <1>1, <1>2, <1>8, <1>9, ChunkWith
<1>11. PICK c, d, z, x : c = ChunkAt(r, i) /\ d = ChunkAt(r, i + 1) /\ z = Size(r, i) /\ x = k - c
  OBVIOUS
<1>12. i \in 1 .. l + 2
  BY ONLY <1>2, i \in 1 .. l + 1
<1>13. c \in Nat /\ z \in Nat
  BY ONLY <1>3, <1>11, <1>12 DEF ChunkPlaces
<1>14. d = c + z + 5
  BY ONLY <1>3, <1>11, i \in 1 .. l + 1 DEF ChunkPlaces
<1>15. x \in 1 .. z + 5 /\ k = c + x
  BY ONLY <1>8, <1>10, <1>11, <1>13, <1>14
<1>16. m[c + x].part = "frame" \/ \E j \in 1 .. z : x = 3 + j
  <2>1. ChunkInAt(r, m, i)
    BY <1>1 DEF MessageHolds
  <2> QED BY ONLY <1>11, <1>15, <2>1 DEF ChunkInAt
<1>17. CASE \E j \in 1 .. z : x = 3 + j
  <2>1. PICK j \in 1 .. z : x = 3 + j
    BY ONLY <1>17
  <2>2. z > 0 /\ j \in Nat /\ k = c + 3 + j
    BY ONLY <1>13, <1>15, <2>1
  <2>3. i # l + 1
    <3>1. Size(r, l + 1) = 0
      BY ONLY <1>3 DEF ChunkPlaces
    <3> QED BY ONLY <1>11, <2>2, <3>1, <1>13
  <2>4. i \in 1 .. l
    BY ONLY <1>2, <2>3, i \in 1 .. l + 1
  <2>5. IsInChunk(r, k, i, j)
    BY ONLY <1>1, <1>11, <2>2, <2>4, j \in 1 .. z DEF IsInChunk
  <2> QED BY ONLY <1>1, <2>2, <2>4, <2>5
<1>18. CASE m[c + x].part = "frame"
  BY ONLY <1>15, <1>18
<1> QED BY ONLY <1>16, <1>17, <1>18

\* A byte in a chunk is the byte of the body with its number.
LEMMA ChunkByte ==
  ASSUME NEW r \in Responses, r.framing = "chunked", NEW m, MessageHolds(r, m),
         NEW k, NEW i, NEW j, IsInChunk(r, k, i, j)
  PROVE  /\ k \in Nat /\ BodyStart(r) < k /\ k <= Len(m)
         /\ m[k].part = "body" /\ m[k].nth = Before(r, i) + j
<1>1. PICK l : l = Len(r.sizes)
  OBVIOUS
<1>2. l \in Nat
  BY <1>1, ResponseIs
<1>3. ChunkPlaces(r, l)
  BY <1>1, <1>2, ChunksAt
<1>4. PICK c, d, z, s, e : c = ChunkAt(r, i) /\ d = ChunkAt(r, i + 1) /\ z = Size(r, i) /\ s = BodyStart(r) /\ e = Len(m)
  OBVIOUS
<1>5. i \in 1 .. l /\ j \in 1 .. z /\ k = c + 3 + j
  BY ONLY <1>1, <1>4, IsInChunk(r, k, i, j) DEF IsInChunk
<1>6. i \in 1 .. l + 1 /\ i \in 1 .. l + 2 /\ i + 1 \in 1 .. l + 2 /\ i + 1 <= l + 2 /\ l + 2 \in 1 .. l + 2
      /\ 1 \in 1 .. l + 2 /\ 1 <= i
  BY ONLY <1>2, <1>5
<1>7. c \in Nat /\ z \in Nat /\ d = c + z + 5
  BY ONLY <1>3, <1>4, <1>6 DEF ChunkPlaces
<1>8. e = ChunkAt(r, l + 2)
  BY <1>1, <1>4 DEF MessageHolds
<1>9. d <= e
  <2>1. ChunkAt(r, i + 1) <= ChunkAt(r, l + 2)
    BY <1>1, <1>2, <1>6, LaterChunk
  <2> QED BY ONLY <1>4, <1>8, <2>1
<1>10. s <= c /\ s \in Nat
  <2>1. ChunkAt(r, 1) <= ChunkAt(r, i)
    BY <1>1, <1>2, <1>6, LaterChunk
  <2>2. ChunkAt(r, 1) = s
    BY ONLY <1>3, <1>4 DEF ChunkPlaces
  <2>3. s \in Nat
    BY <1>4, PlacesAre
  <2> QED BY ONLY <1>4, <2>1, <2>2, <2>3
<1>11. e \in Nat
  BY ONLY <1>3, <1>6, <1>8 DEF ChunkPlaces
<1>12. k \in Nat /\ s < k /\ k <= e
  BY ONLY <1>5, <1>7, <1>9, <1>10, <1>11
<1>13. BodyIn(m, c + 3, ChunkBody(r, i), Before(r, i)) /\ Len(ChunkBody(r, i)) = z
  <2>1. ChunkInAt(r, m, i)
    BY <1>1, <1>6 DEF MessageHolds
  <2>2. BodyIn(m, c + 3, ChunkBody(r, i), Before(r, i))
    BY ONLY <1>4, <2>1 DEF ChunkInAt
  <2>3. Len(ChunkBody(r, i)) = z
    BY ONLY <1>3, <1>4, <1>6 DEF ChunkPlaces
  <2> QED BY <2>2, <2>3
<1>14. m[k].part = "body" /\ m[k].nth = Before(r, i) + j
  BY ONLY <1>5, <1>13 DEF BodyIn
<1> QED BY ONLY <1>4, <1>12, <1>14

\* When all has come, the chunks are known, or where the body starts.
Whole(r, p) ==
  /\ PastTop(r, p)
  /\ r.framing = "chunked" => p.chunks = ChunksTo(r, Len(r.sizes))
  /\ r.framing # "chunked" => p.bodyStartIndex = PlainStart(r)

\* When all bytes have come, all chunks are known, or where the body starts.
LEMMA WholeIsKnown ==
  ASSUME NEW r \in Responses, NEW m, MessageHolds(r, m), NEW b, NEW p, Quiet(r, b, Len(m), p)
  PROVE  Whole(r, p)
<1>1. PICK n, s, l : n = Len(m) /\ s = BodyStart(r) /\ l = Len(r.body)
  OBVIOUS
<1>2. m \in Seq(Piece)
  BY DEF MessageHolds
<1>3. n \in Nat /\ s \in Nat /\ l \in Nat
  BY <1>1, <1>2, PlacesAre, ResponseIs
<1>4. CASE r.framing # "chunked"
  <2>1. n = s + l
    BY <1>1, <1>4 DEF MessageHolds
  <2>2. s <= n
    BY ONLY <1>3, <2>1
  <2>3. ~\E k \in 0 .. LinesOf(r) : TopAt(r, b, n, k, p)
    BY <1>1, <1>3, <2>2, TopIsBefore
  <2>4. PlainAt(r, b, n, p)
    BY ONLY <1>1, <1>4, <2>3, Quiet(r, b, Len(m), p) DEF Quiet
  <2> QED BY ONLY <1>4, <2>4 DEF PlainAt, Plain, PlainKnown, Whole
<1>5. CASE r.framing = "chunked"
  <2>1. PICK k : k = Len(r.sizes)
    OBVIOUS
  <2>2. k \in Nat
    BY <2>1, ResponseIs
  <2>3. ChunkPlaces(r, k)
    BY <1>5, <2>1, <2>2, ChunksAt
  <2>4. n = ChunkAt(r, k + 2)
    BY <1>1, <1>5, <2>1 DEF MessageHolds
  <2>5. k + 2 \in 1 .. k + 2
    BY ONLY <2>2
  <2>6. s <= n
    BY <1>1, <1>5, <2>1, <2>2, <2>4, <2>5, ChunksAreInBody
  <2>7. ~\E x \in 0 .. LinesOf(r) : TopAt(r, b, n, x, p)
    BY <1>1, <1>3, <2>6, TopIsBefore
  <2>8. ChunksRead(r, b, n, 0, p)
    BY ONLY <1>1, <1>5, <2>7, Quiet(r, b, Len(m), p) DEF Quiet
  <2>9. PICK i \in 1 .. k + 2 : ChunkState(r, b, n, i, p) /\ (i # k + 2 => n < ChunkAt(r, i + 1))
    BY <1>3, <1>5, <2>1, <2>2, <2>8, ChunkStateOf
  <2>10. i = k + 2
    <3>1. ASSUME i # k + 2 PROVE FALSE
      <4>1. i + 1 \in 1 .. k + 2 /\ i + 1 <= k + 2
        BY ONLY <2>2, <3>1, i \in 1 .. k + 2
      <4>2. ChunkAt(r, i + 1) <= ChunkAt(r, k + 2)
        BY <1>5, <2>1, <2>2, <2>5, <4>1, LaterChunk
      <4>3. PICK f : f = ChunkAt(r, i + 1)
        OBVIOUS
      <4>4. f \in Nat
        BY ONLY <2>3, <4>1, <4>3 DEF ChunkPlaces
      <4> QED BY ONLY <1>3, <2>4, <2>9, <3>1, <4>2, <4>3, <4>4
    <3> QED BY <3>1
  <2>11. AtChunk(r, b, n, i, p)
    BY ONLY <2>1, <2>9, <2>10 DEF ChunkState
  <2>12. PICK j \in 0 .. k : /\ InBody(r, b, n, ChunkAt(r, i), 0, j, Before(r, i), p)
                             /\ j = i - 1 \/ (j = k /\ j <= i - 1)
    BY ONLY <2>1, <2>11 DEF AtChunk
  <2>13. j = k
    BY ONLY <2>2, <2>10, <2>12, j \in 0 .. k
  <2> QED BY ONLY <1>5, <2>1, <2>12, <2>13 DEF InBody, Whole
<1> QED BY <1>4, <1>5

\* The date is known where it is.
LEMMA DateKnown ==
  ASSUME NEW r \in Responses, NEW p, PastTop(r, p), Date \in DOMAIN p.headers
  PROVE  \E i \in 1 .. Len(r.head) :
           /\ r.head[i] = Date /\ p.headers[Date].fromIndex = 3 * i /\ p.headers[Date].toIndex = 3 * i + 1
<1>1. PICK last, h : last = LinesOf(r) /\ h = Len(r.head)
  OBVIOUS
<1>2. last \in Nat \ {0} /\ h \in Nat /\ (r.framing # "close" => last = h + 2) /\ (r.framing = "close" => last = h + 1)
  BY <1>1, TopEnds, ResponseIs
<1>3. PICK hs : hs = p.headers
  OBVIOUS
<1>4. HeadersAre(r, last, hs)
  BY <1>1, <1>3 DEF PastTop
<1>5. DOMAIN hs = Keys(r, last)
  <2>1. hs = [x \in Keys(r, last) |-> hs[x]]
    BY ONLY <1>4 DEF HeadersAre
  <2> QED BY ONLY <2>1
<1>6. PICK j \in 1 .. last - 1 : Date = LineKey(r, j)
  BY <1>3, <1>5 DEF Keys
<1>7. j <= h
  <2>1. ASSUME ~(j <= h) PROVE FALSE
    <3>1. r.framing # "close" /\ j = h + 1 /\ j < last /\ j # 0
      BY ONLY <1>2, <2>1, j \in 1 .. last - 1
    <3>2. LineText(r, j) = FramingLine(r)
      BY <1>1, <2>1, <3>1 DEF LineText
    <3>3. LineKey(r, j) = Length \/ LineKey(r, j) = Transfer
      BY <3>2 DEF LineKey, FramingLine
    <3>4. Date # Length /\ Date # Transfer
      BY DEF Date, Length, Transfer
    <3> QED BY ONLY <1>6, <3>3, <3>4
  <2> QED BY <2>1
<1>8. j \in 1 .. h /\ j # 0 /\ j <= h + 1
  BY ONLY <1>2, <1>7, j \in 1 .. last - 1
<1>9. LineText(r, j) = <<r.head[j]>> /\ LineStart(r, j) = 3 * j
  BY <1>1, <1>8 DEF LineText, LineStart
<1>10. r.head[j] = Date
  BY ONLY <1>6, <1>9 DEF LineKey
<1>11. hs[Date] = HeaderOf(r, j)
  BY ONLY <1>4, <1>6, j \in 1 .. last - 1 DEF HeadersAre
<1>12. hs[Date].fromIndex = 3 * j /\ hs[Date].toIndex = 3 * j + 1
  <2>1. Len(<<r.head[j]>>) = 1
    OBVIOUS
  <2> QED BY ONLY <1>9, <1>11, <2>1 DEF HeaderOf
<1> QED BY <1>1, <1>3, <1>8, <1>10, <1>12

IsDate(r, k) == \E i \in 1 .. Len(r.head) : k = 3 * i + 1 /\ r.head[i] = Date
IsBody(r, k) ==
  /\ BodyStart(r) < k
  /\ r.framing = "chunked" => \E i \in 1 .. Len(r.sizes), j \in Nat : IsInChunk(r, k, i, j)

\* What each byte is part of.
LEMMA PartsAre ==
  ASSUME NEW r \in Responses, NEW m, MessageHolds(r, m), NEW k \in Nat, 1 <= k, k <= Len(m)
  PROVE  /\ m[k].part = "status" <=> k = 1
         /\ m[k].part = "date" <=> IsDate(r, k)
         /\ m[k].part = "body" <=> IsBody(r, k)
         /\ m[k].part = "header" => k <= BodyStart(r)
         /\ k <= BodyStart(r) => m[k].part # "body"
<1>1. PICK s, h : s = BodyStart(r) /\ h = Len(r.head)
  OBVIOUS
<1>2. s \in Nat /\ h \in Nat
  BY <1>1, PlacesAre, ResponseIs
<1>3. s >= 3 * h + 3
  <2>1. PICK f, w : f = FramingAt(r) /\ w = FrameWidth(r)
    OBVIOUS
  <2>2. f = 3 * (h + 1) /\ w \in Nat /\ s = f + w + 2
    BY <1>1, <2>1, PlacesAre DEF FramingAt
  <2> QED BY ONLY <1>2, <2>2
<1>4. CASE k <= s
  <2>1. k \in 1 .. BodyStart(r)
    BY ONLY <1>1, <1>2, <1>4, k \in Nat, 1 <= k
  <2>2. /\ m[k].part = "status" <=> k = 1
        /\ m[k].part = "date" <=> \E i \in 1 .. Len(r.head) : k = 3 * i + 1 /\ r.head[i] = Date
        /\ m[k].part # "body"
    BY <2>1, TopParts
  <2>3. ~(s < k)
    BY ONLY <1>2, <1>4, k \in Nat
  <2> QED BY ONLY <1>1, <1>4, <2>2, <2>3 DEF IsDate, IsBody
<1>5. CASE ~(k <= s)
  <2>1. s < k /\ k # 1
    BY ONLY <1>2, <1>3, <1>5, k \in Nat
  <2>2. ~IsDate(r, k)
    <3>1. \A i \in 1 .. h : k # 3 * i + 1
      BY ONLY <1>2, <1>3, <2>1, k \in Nat
    <3> QED BY ONLY <1>1, <3>1 DEF IsDate
  <2>3. (m[k].part = "body" <=> IsBody(r, k)) /\ m[k].part \in {"frame", "body"}
    <3>1. CASE r.framing = "chunked"
      <4>1. m[k].part = "frame" \/ \E i \in 1 .. Len(r.sizes), j \in Nat : IsInChunk(r, k, i, j)
        BY <1>1, <2>1, <3>1, ChunkParts
      <4>2. (\E i \in 1 .. Len(r.sizes), j \in Nat : IsInChunk(r, k, i, j)) => m[k].part = "body"
        BY <3>1, ChunkByte
      <4>3. IsBody(r, k) <=> \E i \in 1 .. Len(r.sizes), j \in Nat : IsInChunk(r, k, i, j)
        BY ONLY <1>1, <2>1, <3>1 DEF IsBody
      <4> QED BY ONLY <4>1, <4>2, <4>3
    <3>2. CASE r.framing # "chunked"
      <4>1. PICK x, e, l : x = k - s /\ e = Len(m) /\ l = Len(r.body)
        OBVIOUS
      <4>2. e = s + l /\ BodyIn(m, s, r.body, 0)
        BY <1>1, <3>2, <4>1 DEF MessageHolds
      <4>3. l \in Nat
        BY <4>1, ResponseIs
      <4>4. x \in 1 .. l /\ k = s + x
        <5>1. k <= e
          BY <4>1
        <5> QED BY ONLY <1>2, <2>1, <4>1, <4>2, <4>3, <5>1, k \in Nat
      <4>5. m[k].part = "body"
        BY ONLY <4>1, <4>2, <4>4 DEF BodyIn
      <4>6. IsBody(r, k)
        BY ONLY <1>1, <2>1, <3>2 DEF IsBody
      <4> QED BY ONLY <4>5, <4>6
    <3> QED BY <3>1, <3>2
  <2> QED BY ONLY <1>1, <1>5, <2>1, <2>2, <2>3
<1> QED BY <1>4, <1>5

\* What is known then is true of the message.
LEMMA WholePositions ==
  ASSUME NEW r \in Responses, r = response, MessageHolds(r, message), NEW p, Whole(r, p)
  PROVE  /\ 0 .. p.statusLineEndIndex - 1 = PositionsOf("status")
         /\ r.framing = "chunked" => Positions(p.chunks) = PositionsOf("body")
         /\ r.framing # "chunked" /\ r.body # <<>> =>
              /\ p.bodyStartIndex \in PositionsOf("body")
              /\ message[p.bodyStartIndex + 1].nth = 1
         /\ Date \in DOMAIN p.headers => Positions(<<p.headers[Date]>>) = PositionsOf("date")
<1>1. PICK m, e, s, l, h : m = message /\ e = Len(m) /\ s = BodyStart(r) /\ l = Len(r.body) /\ h = Len(r.head)
  OBVIOUS
<1>2. m \in Seq(Piece) /\ MessageHolds(r, m)
  BY <1>1 DEF MessageHolds
<1>3. e \in Nat /\ s \in Nat /\ l \in Nat /\ h \in Nat
  BY <1>1, <1>2, PlacesAre, ResponseIs
<1>4. s <= e
  <2>1. TopHolds(r, m)
    BY ONLY <1>2 DEF MessageHolds
  <2>2. LineAt(m, BodyStart(r) - 2, <<>>, "frame")
    BY ONLY <2>1 DEF TopHolds
  <2>3. (s - 2) + Len(<<>>) + 2 <= e
    BY ONLY <1>1, <2>2 DEF LineAt
  <2>4. Len(<<>>) = 0
    OBVIOUS
  <2> QED BY ONLY <1>3, <2>3, <2>4
<1>5. s >= 3 * h + 3
  <2>1. PICK f, w : f = FramingAt(r) /\ w = FrameWidth(r)
    OBVIOUS
  <2>2. f = 3 * (h + 1) /\ w \in Nat /\ s = f + w + 2
    BY <1>1, <2>1, PlacesAre DEF FramingAt
  <2> QED BY ONLY <1>3, <2>2
<1>6. \A k \in 1 .. e : /\ m[k].part = "status" <=> k = 1
                        /\ m[k].part = "date" <=> IsDate(r, k)
                        /\ m[k].part = "body" <=> IsBody(r, k)
  <2> SUFFICES ASSUME NEW k \in 1 .. e
               PROVE  /\ m[k].part = "status" <=> k = 1
                      /\ m[k].part = "date" <=> IsDate(r, k)
                      /\ m[k].part = "body" <=> IsBody(r, k)
    OBVIOUS
  <2>1. k \in Nat /\ 1 <= k /\ k <= Len(m)
    BY ONLY <1>1, <1>3, k \in 1 .. e
  <2> QED BY <1>2, <2>1, PartsAre
<1>7. \A part : PositionsOf(part) = {x \in 0 .. e - 1 : m[x + 1].part = part}
  BY ONLY <1>1 DEF PositionsOf
<1>8. 0 .. p.statusLineEndIndex - 1 = PositionsOf("status")
  <2>1. p.statusLineEndIndex = 1
    BY DEF Whole, PastTop
  <2>2. \A x \in 0 .. e - 1 : m[x + 1].part = "status" <=> x = 0
    <3> SUFFICES ASSUME NEW x \in 0 .. e - 1 PROVE m[x + 1].part = "status" <=> x = 0
      OBVIOUS
    <3>1. x + 1 \in 1 .. e /\ (x + 1 = 1 <=> x = 0)
      BY ONLY <1>3, x \in 0 .. e - 1
    <3> QED BY ONLY <1>6, <3>1
  <2>3. PositionsOf("status") = {x \in 0 .. e - 1 : x = 0}
    BY ONLY <1>7, <2>2
  <2>4. 0 \in 0 .. e - 1
    BY ONLY <1>3, <1>4, <1>5
  <2>5. 0 .. 1 - 1 = {0}
    OBVIOUS
  <2>6. {x \in 0 .. e - 1 : x = 0} = {0}
    BY ONLY <2>4
  <2> QED BY ONLY <2>1, <2>3, <2>5, <2>6
<1>9. ASSUME r.framing = "chunked" PROVE Positions(p.chunks) = PositionsOf("body")
  <2>1. PICK k, cs : k = Len(r.sizes) /\ cs = p.chunks
    OBVIOUS
  <2>2. k \in Nat
    BY <2>1, ResponseIs
  <2>3. ChunkPlaces(r, k)
    BY <1>9, <2>1, <2>2, ChunksAt
  <2>4. cs = [i \in 1 .. k |-> ChunkRecord(r, i)]
    BY <1>9, <2>1 DEF Whole, ChunksTo
  <2>5. DOMAIN cs = 1 .. k /\ \A i \in 1 .. k : cs[i] = ChunkRecord(r, i)
    BY ONLY <2>4
  <2>6. \A i \in 1 .. k : /\ cs[i].fromIndex = ChunkAt(r, i) + 3 /\ cs[i].toIndex = ChunkAt(r, i) + 3 + Size(r, i)
                          /\ ChunkAt(r, i) \in Nat /\ Size(r, i) \in Nat
    <3> SUFFICES ASSUME NEW i \in 1 .. k
                 PROVE  /\ cs[i].fromIndex = ChunkAt(r, i) + 3 /\ cs[i].toIndex = ChunkAt(r, i) + 3 + Size(r, i)
                        /\ ChunkAt(r, i) \in Nat /\ Size(r, i) \in Nat
      OBVIOUS
    <3>1. cs[i] = ChunkRecord(r, i)
      BY ONLY <2>5, i \in 1 .. k
    <3>2. cs[i].fromIndex = ChunkAt(r, i) + 3 /\ cs[i].toIndex = ChunkAt(r, i) + 3 + Size(r, i)
      BY ONLY <3>1 DEF ChunkRecord
    <3>3. i \in 1 .. k + 2
      BY ONLY <2>2, i \in 1 .. k
    <3>4. ChunkAt(r, i) \in Nat /\ Size(r, i) \in Nat
      BY ONLY <2>3, <3>3 DEF ChunkPlaces
    <3> QED BY ONLY <3>2, <3>4
  <2>7. \A x : x \in Positions(cs) <=> \E i \in 1 .. k : x \in cs[i].fromIndex .. cs[i].toIndex - 1
    BY ONLY <2>5 DEF Positions
  <2>8. ASSUME NEW x, x \in Positions(cs) PROVE x \in PositionsOf("body")
    <3>1. PICK i \in 1 .. k : x \in cs[i].fromIndex .. cs[i].toIndex - 1
      BY ONLY <2>7, <2>8
    <3>2. PICK c, z, j, y : c = ChunkAt(r, i) /\ z = Size(r, i) /\ j = (x + 1) - (c + 3) /\ y = x + 1
      OBVIOUS
    <3>3. c \in Nat /\ z \in Nat /\ x \in c + 3 .. (c + 3 + z) - 1
      BY ONLY <2>6, <3>1, <3>2
    <3>4. j \in 1 .. z /\ y = c + 3 + j /\ x \in Nat
      BY ONLY <3>2, <3>3
    <3>5. IsInChunk(r, y, i, j)
      BY ONLY <2>1, <3>2, <3>4, i \in 1 .. k DEF IsInChunk
    <3>6. y \in Nat /\ BodyStart(r) < y /\ y <= Len(m) /\ m[y].part = "body"
      BY <1>2, <1>9, <3>5, ChunkByte
    <3>7. x \in 0 .. e - 1
      BY ONLY <1>1, <1>3, <3>2, <3>4, <3>6
    <3>8. m[x + 1].part = "body"
      BY ONLY <3>2, <3>6
    <3> QED BY ONLY <1>7, <3>7, <3>8
  <2>9. ASSUME NEW x, x \in PositionsOf("body") PROVE x \in Positions(cs)
    <3>1. x \in 0 .. e - 1 /\ m[x + 1].part = "body"
      BY ONLY <1>7, <2>9
    <3>2. PICK y : y = x + 1
      OBVIOUS
    <3>3. y \in 1 .. e /\ m[y].part = "body"
      BY ONLY <1>3, <3>1, <3>2
    <3>4. IsBody(r, y)
      BY ONLY <1>6, <3>3
    <3>5. PICK i \in 1 .. k, j \in Nat : IsInChunk(r, y, i, j)
      BY ONLY <1>9, <2>1, <3>4 DEF IsBody
    <3>6. PICK c, z : c = ChunkAt(r, i) /\ z = Size(r, i)
      OBVIOUS
    <3>7. c \in Nat /\ z \in Nat /\ cs[i].fromIndex = c + 3 /\ cs[i].toIndex = c + 3 + z
      BY ONLY <2>6, <3>6, i \in 1 .. k
    <3>8. j \in 1 .. z /\ y = c + 3 + j
      BY ONLY <3>5, <3>6 DEF IsInChunk
    <3>9. x \in c + 3 .. (c + 3 + z) - 1
      BY ONLY <3>1, <3>2, <3>7, <3>8
    <3> QED BY ONLY <2>7, <3>7, <3>9, i \in 1 .. k
  <2>10. Positions(cs) = PositionsOf("body")
    BY ONLY <2>8, <2>9
  <2> QED BY ONLY <2>1, <2>10
<1>10. ASSUME r.framing # "chunked", r.body # <<>>
       PROVE  p.bodyStartIndex \in PositionsOf("body") /\ m[p.bodyStartIndex + 1].nth = 1
  <2>1. l # 0
    <3>1. r.body \in Seq(Byte)
      BY ResponseIs
    <3> QED BY ONLY <1>1, <1>10, <3>1
  <2>2. p.bodyStartIndex = s
    BY ONLY <1>1, <1>10, <2>1, Whole(r, p) DEF Whole, PlainStart
  <2>3. e = s + l /\ BodyIn(m, s, r.body, 0)
    BY ONLY <1>1, <1>2, <1>10 DEF MessageHolds
  <2>4. 1 \in 1 .. l /\ s \in 0 .. e - 1 /\ 0 + 1 = 1
    BY ONLY <1>3, <2>1, <2>3
  <2>5. m[s + 1].part = "body" /\ m[s + 1].nth = 1
    BY ONLY <1>1, <2>3, <2>4 DEF BodyIn
  <2>6. s \in PositionsOf("body")
    BY ONLY <1>7, <2>4, <2>5
  <2> QED BY ONLY <2>2, <2>5, <2>6
<1>11. ASSUME Date \in DOMAIN p.headers PROVE Positions(<<p.headers[Date]>>) = PositionsOf("date")
  <2>1. PastTop(r, p)
    BY DEF Whole
  <2>2. PICK i \in 1 .. Len(r.head) :
               r.head[i] = Date /\ p.headers[Date].fromIndex = 3 * i /\ p.headers[Date].toIndex = 3 * i + 1
    BY <1>11, <2>1, DateKnown
  <2>3. i \in 1 .. h
    BY ONLY <1>1, i \in 1 .. Len(r.head)
  <2>4. \A x \in 0 .. e - 1 : m[x + 1].part = "date" <=> x = 3 * i
    <3> SUFFICES ASSUME NEW x \in 0 .. e - 1 PROVE m[x + 1].part = "date" <=> x = 3 * i
      OBVIOUS
    <3>1. x + 1 \in 1 .. e
      BY ONLY <1>3, x \in 0 .. e - 1
    <3>2. m[x + 1].part = "date" <=> \E j \in 1 .. h : x + 1 = 3 * j + 1 /\ r.head[j] = Date
      BY ONLY <1>1, <1>6, <3>1 DEF IsDate
    <3>3. \A j \in 1 .. h : r.head[j] = Date => j = i
      BY <1>1, <2>2, <2>3, ResponseIs
    <3>4. \A j \in 1 .. h : x + 1 = 3 * j + 1 <=> x = 3 * j
      BY ONLY <1>3, x \in 0 .. e - 1
    <3> QED BY ONLY <2>2, <2>3, <3>2, <3>3, <3>4
  <2>5. 3 * i \in 0 .. e - 1
    BY ONLY <1>3, <1>4, <1>5, <2>3
  <2>6. PositionsOf("date") = {x \in 0 .. e - 1 : x = 3 * i}
    BY ONLY <1>7, <2>4
  <2>7. PositionsOf("date") = {3 * i}
    BY ONLY <2>5, <2>6
  <2>8. PICK f, t, d : d = p.headers[Date] /\ f = d.fromIndex /\ t = d.toIndex
    OBVIOUS
  <2>9. Positions(<<d>>) = f .. t - 1
    <3>1. DOMAIN <<d>> = {1} /\ <<d>>[1] = d
      OBVIOUS
    <3> QED BY ONLY <2>8, <3>1 DEF Positions
  <2>10. f = 3 * i /\ t = 3 * i + 1
    BY ONLY <2>2, <2>8
  <2>11. f .. t - 1 = {3 * i}
    BY ONLY <1>3, <2>3, <2>10
  <2> QED BY ONLY <2>7, <2>8, <2>9, <2>11
<1> QED BY ONLY <1>1, <1>8, <1>9, <1>10, <1>11

\* The positions that the parser gives the status line, the date, the chunks and the body are those at which
\* the host put them.
THEOREM PositionsAreTheHosts == Spec => []PositionsAreTrue
<1>1. (hasPlainStream(response) => ParserInv) => PositionsAreTrue
  <2> SUFFICES ASSUME ParserInv, received = Len(message)
               PROVE  /\ 0 .. parser.statusLineEndIndex - 1 = PositionsOf("status")
                      /\ response.framing = "chunked" => Positions(parser.chunks) = PositionsOf("body")
                      /\ response.framing # "chunked" /\ response.body # <<>> =>
                           /\ parser.bodyStartIndex \in PositionsOf("body")
                           /\ message[parser.bodyStartIndex + 1].nth = 1
                      /\ Date \in DOMAIN parser.headers =>
                           Positions(<<parser.headers[Date]>>) = PositionsOf("date")
    BY DEF PositionsAreTrue
  <2>1. MessageHolds(response, message)
    BY MessageIs DEF ParserInv
  <2>2. Quiet(response, BytesOf(message), Len(message), parser) /\ response \in Responses
    BY DEF ParserInv
  <2>3. Whole(response, parser)
    BY ONLY <2>1, <2>2, WholeIsKnown
  <2> QED BY <2>1, <2>2, <2>3, WholePositions
<1> QED BY <1>1, ParserInvariance, PTL

-----------------------------------------------------------------------------
(* convertResponsePosToAbsolutePos.                                         *)

\* A set of naturals has a least element.
LEMMA LeastExists ==
  ASSUME NEW S \in SUBSET Nat, NEW x \in S
  PROVE  \E y \in S : \A z \in S : y <= z
<1> SUFFICES ASSUME \A y \in S : \E z \in S : ~(y <= z) PROVE FALSE
  OBVIOUS
<1> DEFINE P == {n \in Nat : \A z \in S : n < z}
<1>1. 0 \in P
  <2> SUFFICES ASSUME NEW z \in S PROVE 0 < z
    OBVIOUS
  <2>1. z # 0
    <3>1. z = 0 => \A y \in S : z <= y
      OBVIOUS
    <3> QED BY <3>1
  <2> QED BY <2>1
<1>2. ASSUME NEW n \in Nat, n \in P PROVE n + 1 \in P
  <2>1. \A z \in S : n + 1 <= z
    BY <1>2
  <2>2. n + 1 \notin S
    BY <2>1
  <2>3. \A z \in S : n + 1 < z
    <3> SUFFICES ASSUME NEW z \in S PROVE n + 1 < z
      OBVIOUS
    <3>1. z # n + 1 /\ n + 1 <= z /\ z \in Nat
      BY <2>1, <2>2
    <3> QED BY ONLY <3>1, n \in Nat
  <2> QED BY <2>3
<1> HIDE DEF P
<1>3. x \in P
  <2>1. x \in Nat
    OBVIOUS
  <2> QED BY <1>1, <1>2, <2>1, InductionOverNat
<1>4. x < x /\ x \in Nat
  BY <1>3 DEF P
<1> QED BY ONLY <1>4

\* Function f says where each chunk starts in the body.
Starts(f, n, size) == f = [i \in 1 .. n |-> IF i = 1 THEN 0 ELSE f[i - 1] + size[i - 1]]

\* There is one such function.
LEMMA StartsAre ==
  ASSUME NEW n \in Nat, NEW size, NEW c, NEW f, Starts(f, n, size), Starts(c, n, size)
  PROVE  f = c
<1> USE DEF Starts
<1> DEFINE P == {i \in Nat : i + 1 \in 1 .. n => f[i + 1] = c[i + 1]}
<1>1. 0 \in P
  <2> SUFFICES ASSUME 0 + 1 \in 1 .. n PROVE f[0 + 1] = c[0 + 1]
    OBVIOUS
  <2>1. 0 + 1 = 1
    OBVIOUS
  <2> QED BY <2>1
<1>2. ASSUME NEW i \in Nat, i \in P PROVE i + 1 \in P
  <2> SUFFICES ASSUME (i + 1) + 1 \in 1 .. n PROVE f[(i + 1) + 1] = c[(i + 1) + 1]
    OBVIOUS
  <2>1. PICK x : x = (i + 1) + 1
    OBVIOUS
  <2>2. x \in 1 .. n /\ x # 1 /\ x - 1 = i + 1 /\ i + 1 \in 1 .. n
    BY <2>1
  <2>3. f[x] = f[x - 1] + size[x - 1] /\ c[x] = c[x - 1] + size[x - 1]
    BY <2>2
  <2>4. f[i + 1] = c[i + 1]
    BY <1>2, <2>2
  <2> QED BY <2>1, <2>2, <2>3, <2>4
<1> HIDE DEF P
<1>3. Nat \subseteq P
  BY <1>1, <1>2, InductionOverNat
<1>4. \A i \in 1 .. n : f[i] = c[i]
  <2> SUFFICES ASSUME NEW i \in 1 .. n PROVE f[i] = c[i]
    OBVIOUS
  <2>1. i - 1 \in Nat /\ (i - 1) + 1 = i
    OBVIOUS
  <2>2. i - 1 \in P
    BY <1>3, <2>1
  <2> QED BY <2>1, <2>2 DEF P
<1>5. DOMAIN f = 1 .. n /\ DOMAIN c = 1 .. n /\ f = [i \in DOMAIN f |-> f[i]] /\ c = [i \in DOMAIN c |-> c[i]]
  OBVIOUS
<1> QED BY ONLY <1>4, <1>5

\* A position is in the first chunk that reaches it.
FirstChunk(c, size, n, pos, i) ==
  /\ i \in 1 .. n /\ c[i] <= pos /\ pos <= c[i] + size[i]
  /\ \A x \in 1 .. n : c[x] <= pos /\ pos <= c[x] + size[x] => i <= x

HasChunks(p, n, size) ==
  /\ DOMAIN p.chunks = 1 .. n /\ Len(p.chunks) = n /\ p.chunks # <<>>
  /\ \A i \in 1 .. n : size[i] = p.chunks[i].toIndex - p.chunks[i].fromIndex

Reaches(c, size, n, pos) == \E k \in 1 .. n : c[k] <= pos /\ pos <= c[k] + size[k]

ConvertedBy(p, n, size, c, pos) ==
  \E i \in 1 .. n : /\ FirstChunk(c, size, n, pos, i)
                    /\ convertResponsePosToAbsolutePos(p, pos) = pos - c[i] + p.chunks[i].fromIndex

\* convertResponsePosToAbsolutePos finds the first chunk that the position reaches.
LEMMA ConvertIs ==
  ASSUME NEW p, NEW n \in Nat, n > 0, NEW size, HasChunks(p, n, size),
         NEW c, Starts(c, n, size), NEW pos, Reaches(c, size, n, pos)
  PROVE  ConvertedBy(p, n, size, c, pos)
<1> USE DEF HasChunks
<1>0. PICK k \in 1 .. n : c[k] <= pos /\ pos <= c[k] + size[k]
  BY DEF Reaches
<1> DEFINE start[i \in 1 .. n] ==
             IF i = 1 THEN 0 ELSE start[i - 1] + (p.chunks[i - 1].toIndex - p.chunks[i - 1].fromIndex)
           S == {j \in DOMAIN start : start[j] <= pos /\ pos <= start[j] + (p.chunks[j].toIndex - p.chunks[j].fromIndex)}
<1>1. convertResponsePosToAbsolutePos(p, pos) = pos - start[Min(S)] + p.chunks[Min(S)].fromIndex
  BY DEF convertResponsePosToAbsolutePos
<1>2. \A i \in 1 .. n : i # 1 => i - 1 \in 1 .. n
  OBVIOUS
<1>3. c = [i \in 1 .. n |-> IF i = 1 THEN 0 ELSE c[i - 1] + (p.chunks[i - 1].toIndex - p.chunks[i - 1].fromIndex)]
  BY <1>2 DEF Starts
<1>4. start = [i \in 1 .. n |-> IF i = 1 THEN 0
                                ELSE start[i - 1] + (p.chunks[i - 1].toIndex - p.chunks[i - 1].fromIndex)]
  BY <1>3
<1>5. PICK f : f = start
  OBVIOUS
<1>6. Starts(f, n, size)
  <2>1. f = [i \in 1 .. n |-> IF i = 1 THEN 0
                              ELSE f[i - 1] + (p.chunks[i - 1].toIndex - p.chunks[i - 1].fromIndex)]
    BY ONLY <1>4, <1>5
  <2> HIDE DEF start
  <2> QED BY <1>2, <2>1 DEF Starts
<1>7. start = c
  <2>2. f = c
    BY ONLY <1>6, Starts(c, n, size), n \in Nat, StartsAre
  <2> QED BY ONLY <1>5, <2>2
<1>8. S = {j \in 1 .. n : c[j] <= pos /\ pos <= c[j] + size[j]}
  <2>1. S = {j \in DOMAIN c : c[j] <= pos /\ pos <= c[j] + (p.chunks[j].toIndex - p.chunks[j].fromIndex)}
    <3> HIDE DEF start
    <3> QED BY <1>7
  <2>2. DOMAIN c = 1 .. n
    BY DEF Starts
  <2> HIDE DEF S, start
  <2> QED BY <2>1, <2>2
<1> HIDE DEF S, start
<1>9. k \in S /\ S \in SUBSET Nat
  BY <1>0, <1>8
<1>10. \E y \in S : \A z \in S : y <= z
  BY <1>9, LeastExists
<1>11. Min(S) \in S /\ \A z \in S : Min(S) <= z
  BY <1>10 DEF Min
<1>12. PICK i : i = Min(S)
  OBVIOUS
<1>13. i \in 1 .. n /\ c[i] <= pos /\ pos <= c[i] + size[i]
  BY <1>8, <1>11, <1>12
<1>14. \A x \in 1 .. n : c[x] <= pos /\ pos <= c[x] + size[x] => i <= x
  BY <1>8, <1>11, <1>12
<1>15. FirstChunk(c, size, n, pos, i)
  BY ONLY <1>13, <1>14 DEF FirstChunk
<1>16. convertResponsePosToAbsolutePos(p, pos) = pos - c[i] + p.chunks[i].fromIndex
  BY <1>1, <1>7, <1>12
<1> QED BY ONLY <1>13, <1>15, <1>16 DEF ConvertedBy

\* j chunks of the response are known, and have come.
ChunkedTo(r, n, p, j) ==
  /\ p.chunks = ChunksTo(r, j) /\ Len(p.body) = Before(r, j + 1)
  /\ j = 0 => p.bodyStartIndex = 0
  /\ j # 0 => ChunkAt(r, j) + 3 + Size(r, j) <= n

\* What getResponseRedactions is given.
Parsed(r, n, p) ==
  /\ BodyStart(r) <= n /\ PastTop(r, p) /\ p.currentByteIdx = n
  /\ r.framing # "chunked" => /\ p.chunks = <<>> /\ p.bodyStartIndex = PlainStart(r)
                              /\ Len(p.body) = n - BodyStart(r)
  /\ r.framing = "chunked" => \E j \in 0 .. Len(r.sizes) : ChunkedTo(r, n, p, j)

\* What a parser knows of the chunks when nothing of one is missing.
LEMMA ParsedChunks ==
  ASSUME NEW r \in Responses, r.framing = "chunked", NEW b, NEW n \in Nat, NEW k \in Nat, k = Len(r.sizes),
         NEW i \in 1 .. k + 2, ChunkAt(r, i) <= n, NEW p, ChunkState(r, b, n, i, p), p.left <= 0
  PROVE  /\ PastTop(r, p) /\ p.currentByteIdx <= n
         /\ \E j \in 0 .. k : ChunkedTo(r, n, p, j)
<1>1. ChunkPlaces(r, k)
  BY ChunksAt
<1>2. PICK c, z, e, l : c = ChunkAt(r, i) /\ z = Size(r, i) /\ e = Before(r, i) /\ l = Len(r.body)
  OBVIOUS
<1>3. c \in Nat /\ z \in Nat /\ e \in Nat /\ c <= n /\ l \in Nat
  <2>1. c \in Nat /\ z \in Nat /\ e \in Nat
    BY ONLY <1>1, <1>2, i \in 1 .. k + 2 DEF ChunkPlaces
  <2> QED BY <1>2, <2>1, ResponseIs
<1>4. r.body \in Seq(Byte) /\ l = Len(r.body)
  BY <1>2, ResponseIs
<1>5. ASSUME NEW j \in 1 .. k, j < i PROVE ChunkAt(r, j) + 3 + Size(r, j) <= n
  <2>1. j \in 1 .. k + 1 /\ j \in 1 .. k + 2 /\ j + 1 \in 1 .. k + 2 /\ j + 1 <= i
    BY <1>5
  <2>2. PICK u, v, w : u = ChunkAt(r, j) /\ v = ChunkAt(r, j + 1) /\ w = Size(r, j)
    OBVIOUS
  <2>3. u \in Nat /\ w \in Nat /\ v = u + w + 5
    BY ONLY <1>1, <2>1, <2>2 DEF ChunkPlaces
  <2>4. v <= c
    BY <1>2, <2>1, <2>2, LaterChunk
  <2>5. u + 3 + w <= n
    BY ONLY <1>3, <2>3, <2>4, n \in Nat
  <2> QED BY ONLY <2>2, <2>5
<1>6. ASSUME NEW x \in 0 .. l PROVE Len(SubSeq(r.body, 1, x)) = x
  <2>1. PICK s : s = r.body
    OBVIOUS
  <2>2. s \in Seq(Byte) /\ l = Len(s)
    BY <1>4, <2>1
  <2>3. Len(SubSeq(s, 1, x)) = x
    BY ONLY <2>2, x \in 0 .. l
  <2> QED BY <2>1, <2>3
<1>7. Before(r, k + 1) = l /\ Before(r, k + 2) = l /\ \A j \in 1 .. k + 2 : Before(r, j) \in 0 .. l
  <2>1. Before(r, k + 1) = l /\ Before(r, k + 2) = l
    BY ONLY <1>1, <1>2 DEF ChunkPlaces
  <2>2. \A j \in 1 .. k + 2 : Before(r, j) \in 0 .. l
    <3> SUFFICES ASSUME NEW j \in 1 .. k + 2 PROVE Before(r, j) \in 0 .. l
      OBVIOUS
    <3>1. PICK x : x = Before(r, j)
      OBVIOUS
    <3>2. x \in Nat /\ x <= l
      BY ONLY <1>1, <1>2, <3>1, j \in 1 .. k + 2 DEF ChunkPlaces
    <3>3. x \in 0 .. l
      BY ONLY <1>3, <3>2
    <3> QED BY ONLY <3>1, <3>3
  <2> QED BY ONLY <2>1, <2>2
<1>8. CASE AtChunk(r, b, n, i, p)
  <2>1. PICK j \in 0 .. k : /\ InBody(r, b, n, c, 0, j, e, p)
                            /\ j = i - 1 \/ (j = k /\ j <= i - 1)
    BY ONLY <1>2, <1>8, k = Len(r.sizes) DEF AtChunk
  <2>2. /\ PastTop(r, p) /\ p.currentByteIdx = c /\ p.chunks = ChunksTo(r, j) /\ p.body = SubSeq(r.body, 1, e)
        /\ j = 0 => p.bodyStartIndex = 0
    BY ONLY <2>1 DEF InBody, At
  <2>3. e \in 0 .. l
    BY ONLY <1>2, <1>7, i \in 1 .. k + 2
  <2>4. Len(p.body) = e
    BY ONLY <1>6, <2>2, <2>3
  <2>5. e = Before(r, j + 1)
    <3>1. CASE j = i - 1
      <4>1. j + 1 = i
        BY ONLY <3>1, j \in 0 .. k, i \in 1 .. k + 2
      <4> QED BY ONLY <1>2, <4>1
    <3>2. CASE j = k /\ j # i - 1
      <4>1. i = k + 2
        BY ONLY <2>1, <3>2, k \in Nat, i \in 1 .. k + 2
      <4> QED BY ONLY <1>2, <1>7, <3>2, <4>1
    <3> QED BY <2>1, <3>1, <3>2
  <2>6. j # 0 => ChunkAt(r, j) + 3 + Size(r, j) <= n
    <3>1. j # 0 => j \in 1 .. k /\ j < i
      BY ONLY <2>1, j \in 0 .. k, k \in Nat, i \in 1 .. k + 2
    <3> QED BY <1>5, <3>1
  <2>7. ChunkedTo(r, n, p, j)
    BY ONLY <2>2, <2>4, <2>5, <2>6 DEF ChunkedTo
  <2> QED BY ONLY <1>3, <2>2, <2>7, j \in 0 .. k
<1>9. CASE i # k + 2 /\ \E w \in Nat : InChunk(r, b, n, i, w, p) /\ Taken(r, n, i, w)
  <2>1. PICK w \in Nat : InChunk(r, b, n, i, w, p) /\ Taken(r, n, i, w)
    BY <1>9
  <2>2. PICK left, g, h : left = z - w /\ g = c + 3 + w /\ h = e + w
    OBVIOUS
  <2>3. PICK j \in 0 .. k : /\ InBody(r, b, n, g, left, j, h, p)
                            /\ j = i \/ (j = k /\ j <= i)
    BY ONLY <1>2, <2>1, <2>2, k = Len(r.sizes) DEF InChunk
  <2>4. /\ PastTop(r, p) /\ p.currentByteIdx = g /\ p.chunks = ChunksTo(r, j) /\ p.body = SubSeq(r.body, 1, h)
        /\ (j = 0 => p.bodyStartIndex = 0) /\ p.left = left
    BY ONLY <2>3 DEF InBody, At
  <2>5. w \in 0 .. z /\ g <= n
    BY ONLY <1>2, <2>1, <2>2 DEF Taken
  <2>6. w = z
    <3>1. left <= 0
      BY <2>4
    <3> QED BY ONLY <1>3, <2>2, <2>5, <3>1
  <2>7. i \in 1 .. k + 1
    BY <1>9
  <2>8. h = Before(r, i + 1)
    BY ONLY <1>1, <1>2, <2>2, <2>6, <2>7 DEF ChunkPlaces
  <2>9. i + 1 \in 1 .. k + 2
    BY ONLY <2>7, k \in Nat
  <2>10. h \in 0 .. l
    BY ONLY <1>7, <2>8, <2>9
  <2>11. Len(p.body) = h
    BY ONLY <1>6, <2>4, <2>10
  <2>12. h = Before(r, j + 1)
    <3>1. CASE j = i
      BY ONLY <2>8, <3>1
    <3>2. CASE j = k /\ j # i
      <4>1. i + 1 = k + 2
        BY ONLY <2>3, <2>7, <3>2, k \in Nat
      <4> QED BY ONLY <1>7, <2>8, <3>2, <4>1
    <3> QED BY <2>3, <3>1, <3>2
  <2>13. j # 0 => ChunkAt(r, j) + 3 + Size(r, j) <= n
    <3>1. CASE j = i
      <4>1. c + 3 + z <= n
        BY ONLY <2>2, <2>5, <2>6
      <4> QED BY ONLY <1>2, <3>1, <4>1
    <3>2. CASE j # i
      <4>1. j # 0 => j \in 1 .. k /\ j < i
        BY ONLY <2>3, <3>2, j \in 0 .. k, k \in Nat, i \in 1 .. k + 2
      <4> QED BY <1>5, <4>1
    <3> QED BY <3>1, <3>2
  <2>14. ChunkedTo(r, n, p, j)
    BY ONLY <2>4, <2>11, <2>12, <2>13 DEF ChunkedTo
  <2>15. p.currentByteIdx <= n
    BY ONLY <2>4, <2>5
  <2> QED BY ONLY <2>4, <2>14, <2>15, j \in 0 .. k
<1>10. AtChunk(r, b, n, i, p) \/ (i # k + 2 /\ \E w \in Nat : InChunk(r, b, n, i, w, p) /\ Taken(r, n, i, w))
  BY ONLY ChunkState(r, b, n, i, p), k = Len(r.sizes) DEF ChunkState
<1> QED BY ONLY <1>8, <1>9, <1>10

\* What has been taken and what remains is what has come.
LEMMA TakenAndLeft ==
  ASSUME NEW X, NEW b \in Seq(X), NEW c \in Nat, NEW n \in Nat, c <= n, n <= Len(b), NEW p, At(p, b, c, n)
  PROVE  p.currentByteIdx \in Nat /\ p.currentByteIdx + Len(p.remaining) = n
<1>1. PICK t : t = SubSeq(b, c + 1, n)
  OBVIOUS
<1>2. Len(t) = n - c
  BY <1>1, Between
<1>3. p.remaining = t /\ p.currentByteIdx = c
  BY ONLY <1>1, At(p, b, c, n) DEF At
<1> QED BY ONLY <1>2, <1>3, c \in Nat, n \in Nat

\* The bytes that have come are read or remain.
LEMMA QuietCounts ==
  ASSUME NEW r \in Responses, NEW m, MessageHolds(r, m), NEW b, b = BytesOf(m), NEW n \in Nat, n <= Len(m),
         NEW p, Quiet(r, b, n, p)
  PROVE  p.currentByteIdx \in Nat /\ p.currentByteIdx + Len(p.remaining) = n
<1>1. m \in Seq(Piece)
  BY DEF MessageHolds
<1>2. b \in Seq(Byte) /\ n <= Len(b)
  BY <1>1, BytesAre
<1>3. ASSUME NEW c \in Nat, c <= n, At(p, b, c, n)
      PROVE  p.currentByteIdx \in Nat /\ p.currentByteIdx + Len(p.remaining) = n
  BY ONLY <1>2, <1>3, n \in Nat, TakenAndLeft
<1>4. CASE \E k \in 0 .. LinesOf(r) : TopAt(r, b, n, k, p)
  <2>1. PICK k \in 0 .. LinesOf(r) : TopAt(r, b, n, k, p)
    BY <1>4
  <2>2. PICK c : c = LineStart(r, k)
    OBVIOUS
  <2>3. c \in Nat
    <3>1. TopLine(r, m, k)
      BY TopLines
    <3> QED BY ONLY <2>2, <3>1 DEF TopLine
  <2>4. c <= n /\ At(p, b, c, n)
    BY ONLY <2>1, <2>2 DEF TopAt, InTop
  <2> QED BY <1>3, <2>3, <2>4
<1>5. CASE PlainAt(r, b, n, p)
  <2>1. At(p, b, n, n)
    BY ONLY <1>5 DEF PlainAt, Plain
  <2>2. n <= n
    OBVIOUS
  <2> QED BY <1>3, <2>1, <2>2
<1>6. CASE r.framing = "chunked" /\ ChunksRead(r, b, n, 0, p)
  <2>1. PICK k : k = Len(r.sizes)
    OBVIOUS
  <2>2. k \in Nat
    BY <2>1, ResponseIs
  <2>3. ChunkPlaces(r, k)
    BY <1>6, <2>1, <2>2, ChunksAt
  <2>4. PICK i \in 1 .. k + 2 : ChunkState(r, b, n, i, p) /\ ChunkAt(r, i) <= n
    BY <1>6, <2>1, <2>2, ChunkStateOf
  <2>5. PICK c, z : c = ChunkAt(r, i) /\ z = Size(r, i)
    OBVIOUS
  <2>6. c \in Nat /\ z \in Nat /\ c <= n
    BY ONLY <2>3, <2>4, <2>5, i \in 1 .. k + 2 DEF ChunkPlaces
  <2>7. CASE AtChunk(r, b, n, i, p)
    <3>1. At(p, b, c, n)
      BY ONLY <2>5, <2>7 DEF AtChunk, InBody
    <3> QED BY <1>3, <2>6, <3>1
  <2>8. CASE \E w \in Nat : InChunk(r, b, n, i, w, p) /\ Taken(r, n, i, w)
    <3>1. PICK w \in Nat : InChunk(r, b, n, i, w, p) /\ Taken(r, n, i, w)
      BY <2>8
    <3>2. PICK d : d = c + 3 + w
      OBVIOUS
    <3>3. d <= n /\ At(p, b, d, n)
      BY ONLY <2>5, <3>1, <3>2 DEF InChunk, InBody, Taken
    <3>4. d \in Nat
      BY <2>6, <3>2
    <3> QED BY <1>3, <3>3, <3>4
  <2> QED BY ONLY <2>4, <2>7, <2>8 DEF ChunkState
<1> QED BY ONLY <1>4, <1>5, <1>6, Quiet(r, b, n, p) DEF Quiet

\* A response that is parsed is what getResponseRedactions assumes.
LEMMA ParsedIs ==
  ASSUME NEW r \in Responses, NEW m, MessageHolds(r, m), NEW b, b = BytesOf(m), NEW n \in Nat, n <= Len(m),
         NEW p, Quiet(r, b, n, p), isParsed(p)
  PROVE  Parsed(r, n, p)
<1>1. p.headersComplete = TRUE /\ p.left <= 0 /\ p.remaining = <<>>
  BY DEF isParsed, streamEnded
<1>2. p.currentByteIdx = n
  <2>1. p.currentByteIdx \in Nat /\ p.currentByteIdx + Len(p.remaining) = n
    BY QuietCounts
  <2>2. Len(<<>>) = 0
    OBVIOUS
  <2>3. PICK x : x = p.currentByteIdx
    OBVIOUS
  <2>4. x + 0 = n
    BY ONLY <1>1, <2>1, <2>2, <2>3
  <2>5. x \in Nat
    BY ONLY <2>1, <2>3
  <2>6. x = n
    BY ONLY <2>4, <2>5, n \in Nat
  <2> QED BY ONLY <2>3, <2>6
<1>3. ~\E k \in 0 .. LinesOf(r) : TopAt(r, b, n, k, p)
  BY <1>1 DEF TopAt, InTop
<1>4. CASE r.framing # "chunked"
  <2>1. PlainAt(r, b, n, p)
    BY ONLY <1>3, <1>4, Quiet(r, b, n, p) DEF Quiet
  <2>2. PastTop(r, p) /\ p.chunks = <<>> /\ p.bodyStartIndex = PlainStart(r) /\ BodyStart(r) <= n
    BY ONLY <2>1 DEF PlainAt, Plain, PlainKnown
  <2>3. PICK s, d, t : s = BodyStart(r) /\ d = n - s /\ t = r.body
    OBVIOUS
  <2>4. p.body = SubSeq(t, 1, d) /\ d \in 0 .. Len(t)
    <3>1. ReadTo(r, p, d)
      BY <1>4, <2>1, <2>3, PlainReadTo
    <3> QED BY ONLY <2>3, <3>1 DEF ReadTo
  <2>5. t \in Seq(Byte)
    BY <2>3, ResponseIs
  <2>6. Len(SubSeq(t, 1, d)) = d
    BY ONLY <2>4, <2>5
  <2> QED BY ONLY <1>2, <1>4, <2>2, <2>3, <2>4, <2>6 DEF Parsed
<1>5. CASE r.framing = "chunked"
  <2>1. ChunksRead(r, b, n, 0, p)
    BY ONLY <1>3, <1>5, Quiet(r, b, n, p) DEF Quiet
  <2>2. PICK k : k = Len(r.sizes)
    OBVIOUS
  <2>3. k \in Nat
    BY <2>2, ResponseIs
  <2>4. PICK i \in 1 .. k + 2 : ChunkState(r, b, n, i, p) /\ ChunkAt(r, i) <= n
    BY <1>5, <2>1, <2>2, <2>3, ChunkStateOf
  <2>5. PastTop(r, p) /\ \E j \in 0 .. k : ChunkedTo(r, n, p, j)
    BY <1>1, <1>5, <2>2, <2>3, <2>4, ParsedChunks
  <2>6. BodyStart(r) <= n
    BY <1>5, <2>1, ChunksAreAfter
  <2> QED BY ONLY <1>2, <1>5, <2>2, <2>5, <2>6 DEF Parsed
<1> QED BY <1>4, <1>5

\* A position in the body is in some chunk, or at its end.
LEMMA ChunkReaches ==
  ASSUME NEW r \in Responses, r.framing = "chunked", NEW k \in Nat, k = Len(r.sizes),
         NEW j \in 1 .. k, NEW pos \in Nat, pos <= Before(r, j + 1)
  PROVE  \E i \in 1 .. j : Before(r, i) <= pos /\ pos <= Before(r, i) + Size(r, i)
<1>1. ChunkPlaces(r, k)
  BY ChunksAt
<1> DEFINE P == {x \in Nat : x \in 1 .. j /\ pos <= Before(r, x + 1) =>
                   \E i \in 1 .. j : Before(r, i) <= pos /\ pos <= Before(r, i) + Size(r, i)}
<1>2. 0 \in P
  OBVIOUS
<1>3. ASSUME NEW x \in Nat, x \in P PROVE x + 1 \in P
  <2> SUFFICES ASSUME x + 1 \in 1 .. j, pos <= Before(r, (x + 1) + 1)
               PROVE  \E i \in 1 .. j : Before(r, i) <= pos /\ pos <= Before(r, i) + Size(r, i)
    OBVIOUS
  <2>1. PICK y, e, f, z : y = x + 1 /\ e = Before(r, y) /\ f = Before(r, y + 1) /\ z = Size(r, y)
    OBVIOUS
  <2>2. y \in 1 .. j /\ y \in 1 .. k + 1 /\ y \in 1 .. k + 2
    BY <2>1
  <2>3. e \in Nat /\ z \in Nat
    BY ONLY <1>1, <2>1, <2>2 DEF ChunkPlaces
  <2>4. f = e + z
    BY ONLY <1>1, <2>1, <2>2 DEF ChunkPlaces
  <2>5. pos <= f
    BY <2>1
  <2>6. CASE e <= pos
    BY ONLY <2>1, <2>2, <2>4, <2>5, <2>6
  <2>7. CASE ~(e <= pos)
    <3>1. x # 0
      <4>1. Before(r, 1) = 0 /\ 0 + 1 = 1
        BY ONLY <1>1 DEF ChunkPlaces
      <4>2. x = 0 => e = 0
        BY ONLY <2>1, <4>1
      <4>3. e # 0
        BY ONLY <2>3, <2>7, pos \in Nat
      <4> QED BY ONLY <4>2, <4>3
    <3>2. x \in 1 .. j
      BY ONLY <2>1, <2>2, <3>1, x \in Nat
    <3>3. pos <= e
      BY ONLY <2>3, <2>7, pos \in Nat
    <3> QED BY <1>3, <2>1, <3>2, <3>3
  <2> QED BY <2>6, <2>7
<1> HIDE DEF P
<1>4. j \in P
  <2>1. j \in Nat
    OBVIOUS
  <2> QED BY <1>2, <1>3, <2>1, InductionOverNat
<1> QED BY <1>4 DEF P

\* c is the place of position pos of the body, which is in chunk i.
InChunkAt(r, j, pos, i, c) ==
  /\ i \in 1 .. j /\ Before(r, i) <= pos /\ pos <= Before(r, i) + Size(r, i)
  /\ c = pos - Before(r, i) + (ChunkAt(r, i) + 3)

\* A position of a chunked body is converted to one of a chunk that is known.
LEMMA ConvertsInChunk ==
  ASSUME NEW r \in Responses, r.framing = "chunked", NEW k \in Nat, k = Len(r.sizes),
         NEW j \in 1 .. k, NEW n, NEW p, ChunkedTo(r, n, p, j), NEW pos \in 0 .. Len(p.body),
         NEW c, c = convertResponsePosToAbsolutePos(p, pos)
  PROVE  \E i \in 1 .. j : InChunkAt(r, j, pos, i, c)
<1>1. ChunkPlaces(r, k)
  BY ChunksAt
<1> DEFINE size == [i \in 1 .. j |-> Size(r, i)]
           start == [i \in 1 .. j |-> Before(r, i)]
<1>2. j \in Nat /\ j > 0 /\ j + 1 \in 1 .. k + 2
  OBVIOUS
<1>3. p.chunks = [i \in 1 .. j |-> ChunkRecord(r, i)] /\ Len(p.body) = Before(r, j + 1)
  BY ONLY ChunkedTo(r, n, p, j) DEF ChunkedTo, ChunksTo
<1>4. Before(r, j + 1) \in Nat
  BY ONLY <1>1, <1>2 DEF ChunkPlaces
<1>5. pos \in Nat /\ pos <= Before(r, j + 1)
  <2>1. pos \in 0 .. Before(r, j + 1)
    BY ONLY <1>3, pos \in 0 .. Len(p.body)
  <2>2. PICK x : x = Before(r, j + 1)
    OBVIOUS
  <2> QED BY ONLY <1>4, <2>1, <2>2
<1>6. PICK l \in 1 .. j : Before(r, l) <= pos /\ pos <= Before(r, l) + Size(r, l)
  BY <1>5, ChunkReaches
<1>7. DOMAIN p.chunks = 1 .. j /\ Len(p.chunks) = j /\ p.chunks # <<>>
  BY ONLY <1>2, <1>3
<1>8. \A i \in 1 .. j : /\ p.chunks[i].fromIndex = ChunkAt(r, i) + 3
                        /\ p.chunks[i].toIndex = ChunkAt(r, i) + 3 + Size(r, i)
                        /\ ChunkAt(r, i) \in Nat /\ Size(r, i) \in Nat /\ Before(r, i) \in Nat
                        /\ Before(r, i + 1) = Before(r, i) + Size(r, i)
  <2> SUFFICES ASSUME NEW i \in 1 .. j
               PROVE  /\ p.chunks[i].fromIndex = ChunkAt(r, i) + 3
                      /\ p.chunks[i].toIndex = ChunkAt(r, i) + 3 + Size(r, i)
                      /\ ChunkAt(r, i) \in Nat /\ Size(r, i) \in Nat /\ Before(r, i) \in Nat
                      /\ Before(r, i + 1) = Before(r, i) + Size(r, i)
    OBVIOUS
  <2>1. p.chunks[i] = ChunkRecord(r, i)
    BY ONLY <1>3, i \in 1 .. j
  <2>2. p.chunks[i].fromIndex = ChunkAt(r, i) + 3 /\ p.chunks[i].toIndex = ChunkAt(r, i) + 3 + Size(r, i)
    BY ONLY <2>1 DEF ChunkRecord
  <2>3. i \in 1 .. k + 1 /\ i \in 1 .. k + 2
    OBVIOUS
  <2>4. ChunkAt(r, i) \in Nat /\ Size(r, i) \in Nat /\ Before(r, i) \in Nat
    BY ONLY <1>1, <2>3 DEF ChunkPlaces
  <2>5. Before(r, i + 1) = Before(r, i) + Size(r, i)
    BY ONLY <1>1, <2>3 DEF ChunkPlaces
  <2> QED BY ONLY <2>2, <2>4, <2>5
<1>9. \A i \in 1 .. j : size[i] = p.chunks[i].toIndex - p.chunks[i].fromIndex
  <2> SUFFICES ASSUME NEW i \in 1 .. j PROVE size[i] = p.chunks[i].toIndex - p.chunks[i].fromIndex
    OBVIOUS
  <2>1. PICK x, z : x = ChunkAt(r, i) /\ z = Size(r, i)
    OBVIOUS
  <2>2. x \in Nat /\ z \in Nat /\ p.chunks[i].fromIndex = x + 3 /\ p.chunks[i].toIndex = x + 3 + z
    BY ONLY <1>8, <2>1, i \in 1 .. j
  <2>3. z = (x + 3 + z) - (x + 3)
    BY ONLY <2>2
  <2> QED BY ONLY <2>1, <2>2, <2>3, i \in 1 .. j
<1>10. Starts(start, j, size)
  <2>1. \A i \in 1 .. j : start[i] = IF i = 1 THEN 0 ELSE start[i - 1] + size[i - 1]
    <3> SUFFICES ASSUME NEW i \in 1 .. j PROVE start[i] = IF i = 1 THEN 0 ELSE start[i - 1] + size[i - 1]
      OBVIOUS
    <3>1. CASE i = 1
      <4>1. Before(r, 1) = 0
        BY ONLY <1>1 DEF ChunkPlaces
      <4> QED BY ONLY <3>1, <4>1, i \in 1 .. j
    <3>2. CASE i # 1
      <4>1. PICK x : x = i - 1
        OBVIOUS
      <4>2. x \in 1 .. j /\ x + 1 = i
        BY ONLY <1>2, <3>2, <4>1, i \in 1 .. j
      <4>3. Before(r, i) = Before(r, x) + Size(r, x)
        BY ONLY <1>8, <4>2
      <4>4. start[i] = Before(r, i) /\ start[x] = Before(r, x) /\ size[x] = Size(r, x)
        BY ONLY <4>2, i \in 1 .. j
      <4> QED BY ONLY <3>2, <4>1, <4>3, <4>4
    <3> QED BY <3>1, <3>2
  <2>2. start = [i \in 1 .. j |-> start[i]]
    OBVIOUS
  <2> HIDE DEF start, size
  <2> QED BY ONLY <2>1, <2>2 DEF Starts
<1>11. start[l] <= pos /\ pos <= start[l] + size[l]
  BY ONLY <1>6, l \in 1 .. j
<1>12. \A i \in 1 .. j : start[i] = Before(r, i) /\ size[i] = Size(r, i)
  OBVIOUS
<1>13. PICK f, g : f = start /\ g = size
  OBVIOUS
<1>14. Starts(f, j, g) /\ Reaches(f, g, j, pos) /\ HasChunks(p, j, g)
  BY ONLY <1>7, <1>9, <1>10, <1>11, <1>13, l \in 1 .. j DEF Reaches, HasChunks
<1>15. \A i \in 1 .. j : f[i] = Before(r, i) /\ g[i] = Size(r, i)
  BY ONLY <1>12, <1>13
<1> HIDE DEF start, size
<1>16. PICK i \in 1 .. j : FirstChunk(f, g, j, pos, i)
                          /\ convertResponsePosToAbsolutePos(p, pos) = pos - f[i] + p.chunks[i].fromIndex
  <2>1. ConvertedBy(p, j, g, f, pos)
    BY ONLY <1>2, <1>14, ConvertIs
  <2> QED BY ONLY <2>1 DEF ConvertedBy
<1>17. f[i] <= pos /\ pos <= f[i] + g[i]
  BY ONLY <1>16 DEF FirstChunk
<1>18. c = pos - Before(r, i) + (ChunkAt(r, i) + 3)
  BY ONLY <1>8, <1>15, <1>16, i \in 1 .. j, c = convertResponsePosToAbsolutePos(p, pos)
<1>19. InChunkAt(r, j, pos, i, c)
  BY ONLY <1>15, <1>17, <1>18, i \in 1 .. j DEF InChunkAt
<1> QED BY <1>19

\* c bytes of the response hold the first pos bytes of its body, and no other of it.
ConvertsTo(r, m, n, pos, c) ==
  /\ c \in Nat /\ BodyStart(r) <= c /\ c <= n
  /\ \A k \in 1 .. Len(m) : m[k].part = "body" => (m[k].nth <= pos <=> k <= c)

\* It divides the bytes of the body as the position does.
LEMMA ChunkSplits ==
  ASSUME NEW r \in Responses, r.framing = "chunked", NEW l \in Nat, l = Len(r.sizes), NEW m, MessageHolds(r, m),
         NEW j \in 1 .. l, NEW pos \in Nat, NEW i, NEW c, InChunkAt(r, j, pos, i, c)
  PROVE  \A k \in 1 .. Len(m) : m[k].part = "body" => (m[k].nth <= pos <=> k <= c)
<1> SUFFICES ASSUME NEW k \in 1 .. Len(m), m[k].part = "body"
             PROVE  m[k].nth <= pos <=> k <= c
  OBVIOUS
<1>1. ChunkPlaces(r, l)
  BY ChunksAt
<1>2. PICK a, d, z : a = ChunkAt(r, i) /\ d = Before(r, i) /\ z = Size(r, i)
  OBVIOUS
<1>3. i \in 1 .. j /\ d <= pos /\ pos <= d + z /\ c = pos - d + (a + 3)
  BY ONLY <1>2, InChunkAt(r, j, pos, i, c) DEF InChunkAt
<1>4. i \in 1 .. l /\ i \in 1 .. l + 1 /\ i \in 1 .. l + 2
  BY ONLY <1>3, j \in 1 .. l, l \in Nat
<1>5. a \in Nat /\ d \in Nat /\ z \in Nat
  BY ONLY <1>1, <1>2, <1>4 DEF ChunkPlaces
<1>6. PICK x \in 1 .. l, y \in Nat : IsInChunk(r, k, x, y)
  <2>1. m \in Seq(Piece)
    BY DEF MessageHolds
  <2>2. k \in Nat /\ 1 <= k /\ k <= Len(m)
    BY <2>1
  <2>3. IsBody(r, k)
    BY <2>2, PartsAre
  <2> QED BY ONLY <2>3, r.framing = "chunked", l = Len(r.sizes) DEF IsBody
<1>7. m[k].nth = Before(r, x) + y
  BY <1>6, ChunkByte
<1>8. PICK e, f, w, v : e = ChunkAt(r, x) /\ f = Before(r, x) /\ w = Size(r, x) /\ v = m[k].nth
  OBVIOUS
<1>9. x \in 1 .. l + 1 /\ x \in 1 .. l + 2
  BY ONLY l \in Nat, x \in 1 .. l
<1>10. e \in Nat /\ f \in Nat /\ w \in Nat
  BY ONLY <1>1, <1>8, <1>9 DEF ChunkPlaces
<1>11. y \in 1 .. w /\ k = e + 3 + y /\ v = f + y
  BY ONLY <1>6, <1>7, <1>8 DEF IsInChunk
<1>12. CASE x = i
  <2>1. e = a /\ f = d
    BY ONLY <1>2, <1>8, <1>12
  <2>2. v <= pos <=> k <= c
    BY ONLY <1>3, <1>5, <1>10, <1>11, <2>1, pos \in Nat
  <2> QED BY ONLY <1>8, <2>2
<1>13. CASE x < i
  <2>1. x + 1 \in 1 .. l + 2 /\ x + 1 <= i
    BY ONLY <1>4, <1>13, l \in Nat, x \in 1 .. l
  <2>2. ChunkAt(r, x + 1) <= a /\ Before(r, x + 1) <= d
    BY <1>2, <1>4, <2>1, LaterChunk
  <2>3. ChunkAt(r, x + 1) = e + w + 5 /\ Before(r, x + 1) = f + w
    BY ONLY <1>1, <1>8, <1>9 DEF ChunkPlaces
  <2>4. v <= pos /\ k <= c
    BY ONLY <1>3, <1>5, <1>10, <1>11, <2>2, <2>3, pos \in Nat
  <2> QED BY ONLY <1>8, <2>4
<1>14. CASE i < x
  <2>1. i + 1 \in 1 .. l + 2 /\ i + 1 <= x
    BY ONLY <1>4, <1>14, l \in Nat, x \in 1 .. l
  <2>2. ChunkAt(r, i + 1) <= e /\ Before(r, i + 1) <= f
    BY <1>8, <1>9, <2>1, LaterChunk
  <2>3. ChunkAt(r, i + 1) = a + z + 5 /\ Before(r, i + 1) = d + z
    BY ONLY <1>1, <1>2, <1>4 DEF ChunkPlaces
  <2>4. ~(v <= pos) /\ ~(k <= c)
    BY ONLY <1>3, <1>5, <1>10, <1>11, <2>2, <2>3, pos \in Nat
  <2> QED BY ONLY <1>8, <2>4
<1> QED BY ONLY <1>4, <1>12, <1>13, <1>14, x \in 1 .. l, l \in Nat

\* It is after the top and within what has come.
LEMMA ChunkBounds ==
  ASSUME NEW r \in Responses, r.framing = "chunked", NEW l \in Nat, l = Len(r.sizes),
         NEW n \in Nat, NEW j \in 1 .. l, ChunkAt(r, j) + 3 + Size(r, j) <= n,
         NEW pos \in Nat, NEW i, NEW c, InChunkAt(r, j, pos, i, c)
  PROVE  c \in Nat /\ BodyStart(r) <= c /\ c <= n
<1>1. ChunkPlaces(r, l)
  BY ChunksAt
<1>2. PICK a, d, z, s : a = ChunkAt(r, i) /\ d = Before(r, i) /\ z = Size(r, i) /\ s = BodyStart(r)
  OBVIOUS
<1>3. i \in 1 .. j /\ d <= pos /\ pos <= d + z /\ c = pos - d + (a + 3)
  BY ONLY <1>2, InChunkAt(r, j, pos, i, c) DEF InChunkAt
<1>4. i \in 1 .. l + 2 /\ i \in 1 .. l + 1 /\ 1 \in 1 .. l + 2 /\ 1 <= i /\ j \in 1 .. l + 2 /\ i <= j
  BY ONLY <1>3, j \in 1 .. l, l \in Nat
<1>5. a \in Nat /\ d \in Nat /\ z \in Nat
  BY ONLY <1>1, <1>2, <1>4 DEF ChunkPlaces
<1>6. s <= a /\ s \in Nat
  <2>1. ChunkAt(r, 1) <= a
    BY <1>2, <1>4, LaterChunk
  <2>2. ChunkAt(r, 1) = s
    BY ONLY <1>1, <1>2 DEF ChunkPlaces
  <2> QED BY <1>2, <2>1, <2>2, PlacesAre
<1>7. a + 3 + z <= n
  <2>1. CASE i = j
    BY ONLY <1>2, <2>1, ChunkAt(r, j) + 3 + Size(r, j) <= n
  <2>2. CASE i # j
    <3>1. i + 1 \in 1 .. l + 2 /\ i + 1 <= j
      BY ONLY <1>3, <2>2, j \in 1 .. l, l \in Nat
    <3>2. PICK u, v, w : u = ChunkAt(r, i + 1) /\ v = ChunkAt(r, j) /\ w = Size(r, j)
      OBVIOUS
    <3>3. u <= v
      BY <1>4, <3>1, <3>2, LaterChunk
    <3>4. u = a + z + 5
      BY ONLY <1>1, <1>2, <1>4, <3>2 DEF ChunkPlaces
    <3>5. v \in Nat /\ w \in Nat
      BY ONLY <1>1, <1>4, <3>2 DEF ChunkPlaces
    <3>6. v + 3 + w <= n
      BY <3>2
    <3> QED BY ONLY <1>5, <3>3, <3>4, <3>5, <3>6, n \in Nat
  <2> QED BY <2>1, <2>2
<1>8. c \in Nat /\ s <= c /\ c <= n
  BY ONLY <1>3, <1>5, <1>6, <1>7, pos \in Nat, n \in Nat
<1> QED BY ONLY <1>2, <1>8

\* A later position is converted to a later one.
LEMMA ChunkAscends ==
  ASSUME NEW r \in Responses, r.framing = "chunked", NEW l \in Nat, l = Len(r.sizes), NEW j \in 1 .. l,
         NEW pos \in Nat, NEW i, NEW c, InChunkAt(r, j, pos, i, c),
         NEW pos2 \in Nat, NEW i2, NEW c2, InChunkAt(r, j, pos2, i2, c2), pos < pos2
  PROVE  c < c2
<1>1. ChunkPlaces(r, l)
  BY ChunksAt
<1>2. PICK a, d, z, a2, d2, z2 : /\ a = ChunkAt(r, i) /\ d = Before(r, i) /\ z = Size(r, i)
                                 /\ a2 = ChunkAt(r, i2) /\ d2 = Before(r, i2) /\ z2 = Size(r, i2)
  OBVIOUS
<1>3. /\ i \in 1 .. j /\ d <= pos /\ pos <= d + z /\ c = pos - d + (a + 3)
      /\ i2 \in 1 .. j /\ d2 <= pos2 /\ pos2 <= d2 + z2 /\ c2 = pos2 - d2 + (a2 + 3)
  BY ONLY <1>2, InChunkAt(r, j, pos, i, c), InChunkAt(r, j, pos2, i2, c2) DEF InChunkAt
<1>4. i \in 1 .. l + 1 /\ i \in 1 .. l + 2 /\ i2 \in 1 .. l + 1 /\ i2 \in 1 .. l + 2
  BY ONLY <1>3, j \in 1 .. l, l \in Nat
<1>5. a \in Nat /\ d \in Nat /\ z \in Nat /\ a2 \in Nat /\ d2 \in Nat /\ z2 \in Nat
  BY ONLY <1>1, <1>2, <1>4 DEF ChunkPlaces
<1>6. CASE i = i2
  <2>1. a = a2 /\ d = d2
    BY ONLY <1>2, <1>6
  <2> QED BY ONLY <1>3, <1>5, <2>1, pos \in Nat, pos2 \in Nat, pos < pos2
<1>7. CASE i < i2
  <2>1. i + 1 \in 1 .. l + 2 /\ i + 1 <= i2
    BY ONLY <1>4, <1>7, l \in Nat
  <2>2. ChunkAt(r, i + 1) <= a2
    BY <1>2, <1>4, <2>1, LaterChunk
  <2>3. ChunkAt(r, i + 1) = a + z + 5
    BY ONLY <1>1, <1>2, <1>4 DEF ChunkPlaces
  <2> QED BY ONLY <1>3, <1>5, <2>2, <2>3, pos \in Nat, pos2 \in Nat
<1>8. CASE i2 < i
  <2>1. i2 + 1 \in 1 .. l + 2 /\ i2 + 1 <= i
    BY ONLY <1>4, <1>8, l \in Nat
  <2>2. Before(r, i2 + 1) <= d
    BY <1>2, <1>4, <2>1, LaterChunk
  <2>3. Before(r, i2 + 1) = d2 + z2
    BY ONLY <1>1, <1>2, <1>4 DEF ChunkPlaces
  <2> QED BY ONLY <1>3, <1>5, <2>2, <2>3, pos \in Nat, pos2 \in Nat, pos < pos2
<1> QED BY ONLY <1>4, <1>6, <1>7, <1>8, l \in Nat

\* The same, of a response that is parsed.
LEMMA ChunkedConverts ==
  ASSUME NEW r \in Responses, r.framing = "chunked", NEW m, MessageHolds(r, m), NEW n \in Nat,
         NEW p, Parsed(r, n, p), p.bodyStartIndex >= 4,
         NEW pos \in 0 .. Len(p.body), NEW c, c = convertResponsePosToAbsolutePos(p, pos)
  PROVE  pos \in Nat /\ \E j \in 1 .. Len(r.sizes), i \in Nat : /\ InChunkAt(r, j, pos, i, c)
                                                             /\ ChunkedTo(r, n, p, j)
<1>1. PICK l : l = Len(r.sizes)
  OBVIOUS
<1>2. l \in Nat
  BY <1>1, ResponseIs
<1>3. ChunkPlaces(r, l)
  BY <1>1, <1>2, ChunksAt
<1>4. PICK j \in 0 .. l : ChunkedTo(r, n, p, j)
  BY ONLY <1>1, r.framing = "chunked", Parsed(r, n, p) DEF Parsed
<1>5. j \in 1 .. l
  <2>1. j # 0
    <3>1. j = 0 => p.bodyStartIndex = 0
      BY ONLY <1>4 DEF ChunkedTo
    <3> QED BY ONLY <3>1, p.bodyStartIndex >= 4
  <2> QED BY ONLY <1>2, <2>1, j \in 0 .. l
<1>6. pos \in Nat
  <2>1. PICK x : x = Before(r, j + 1)
    OBVIOUS
  <2>2. Len(p.body) = x
    BY ONLY <1>4, <2>1 DEF ChunkedTo
  <2>3. j + 1 \in 1 .. l + 2
    BY ONLY <1>2, <1>5
  <2>4. x \in Nat
    BY ONLY <1>3, <2>1, <2>3 DEF ChunkPlaces
  <2> QED BY ONLY <2>2, <2>4, pos \in 0 .. Len(p.body)
<1>7. PICK i \in 1 .. j : InChunkAt(r, j, pos, i, c)
  BY <1>1, <1>2, <1>4, <1>5, ConvertsInChunk
<1>8. i \in Nat
  BY ONLY <1>5, i \in 1 .. j
<1> QED BY ONLY <1>1, <1>4, <1>5, <1>6, <1>7, <1>8

\* A position of a body that is not chunked is moved by the top.
LEMMA PlainConverts ==
  ASSUME NEW r \in Responses, r.framing # "chunked", NEW m, MessageHolds(r, m), NEW n \in Nat,
         NEW p, Parsed(r, n, p), p.bodyStartIndex >= 4,
         NEW pos \in 0 .. Len(p.body), NEW c, c = convertResponsePosToAbsolutePos(p, pos)
  PROVE  pos \in Nat /\ c = BodyStart(r) + pos /\ ConvertsTo(r, m, n, pos, c)
<1>1. PICK s, l, e : s = BodyStart(r) /\ l = Len(r.body) /\ e = Len(m)
  OBVIOUS
<1>2. s \in Nat /\ l \in Nat
  BY <1>1, PlacesAre, ResponseIs
<1>3. /\ s <= n /\ p.chunks = <<>> /\ Len(p.body) = n - s
      /\ p.bodyStartIndex = PlainStart(r)
  BY ONLY <1>1, Parsed(r, n, p), r.framing # "chunked" DEF Parsed
<1>4. p.bodyStartIndex = s
  <2>1. p.bodyStartIndex = 0 \/ p.bodyStartIndex = s
    BY ONLY <1>1, <1>3 DEF PlainStart
  <2> QED BY ONLY <2>1, p.bodyStartIndex >= 4
<1>5. c = s + pos
  <2>1. convertResponsePosToAbsolutePos(p, pos) = p.bodyStartIndex + pos
    BY ONLY <1>3 DEF convertResponsePosToAbsolutePos
  <2> QED BY ONLY <1>4, <2>1, c = convertResponsePosToAbsolutePos(p, pos)
<1>6. pos \in Nat /\ c \in Nat /\ s <= c /\ c <= n
  BY ONLY <1>2, <1>3, <1>5, pos \in 0 .. Len(p.body), n \in Nat
<1>7. ASSUME NEW k \in 1 .. Len(m), m[k].part = "body" PROVE m[k].nth <= pos <=> k <= c
  <2>1. m \in Seq(Piece)
    BY DEF MessageHolds
  <2>2. k \in Nat /\ 1 <= k /\ k <= e /\ e \in Nat
    BY <1>1, <2>1
  <2>3. s < k
    <3>1. ~(k <= s)
      BY <1>1, <1>7, <2>2, PartsAre
    <3> QED BY ONLY <1>2, <2>2, <3>1
  <2>4. e = s + l /\ BodyIn(m, s, r.body, 0)
    BY <1>1 DEF MessageHolds
  <2>5. PICK x : x = k - s
    OBVIOUS
  <2>6. x \in 1 .. l /\ k = s + x
    BY ONLY <1>2, <2>2, <2>3, <2>4, <2>5
  <2>7. m[k].nth = 0 + x
    BY ONLY <1>1, <2>4, <2>6 DEF BodyIn
  <2>8. m[k].nth = x /\ x \in Nat
    BY ONLY <2>6, <2>7
  <2>9. x <= pos <=> k <= c
    BY ONLY <1>2, <1>5, <1>6, <2>6, <2>8
  <2> QED BY ONLY <2>8, <2>9
<1> QED BY ONLY <1>1, <1>5, <1>6, <1>7 DEF ConvertsTo

\* A position of the body becomes the place that it has in the response.
LEMMA Converted ==
  ASSUME NEW r \in Responses, NEW m, MessageHolds(r, m), NEW n \in Nat,
         NEW p, Parsed(r, n, p), p.bodyStartIndex >= 4,
         NEW pos \in 0 .. Len(p.body), NEW c, c = convertResponsePosToAbsolutePos(p, pos)
  PROVE  pos \in Nat /\ ConvertsTo(r, m, n, pos, c)
<1>1. CASE r.framing # "chunked"
  BY <1>1, PlainConverts
<1>2. CASE r.framing = "chunked"
  <2>1. PICK l : l = Len(r.sizes)
    OBVIOUS
  <2>2. l \in Nat
    BY <2>1, ResponseIs
  <2>3. pos \in Nat
    BY <1>2, ChunkedConverts
  <2>4. PICK j \in 1 .. l, i \in Nat : InChunkAt(r, j, pos, i, c) /\ ChunkedTo(r, n, p, j)
    BY <1>2, <2>1, ChunkedConverts
  <2>5. ChunkAt(r, j) + 3 + Size(r, j) <= n
    <3>1. j # 0
      BY <2>2
    <3> QED BY ONLY <2>4, <3>1 DEF ChunkedTo
  <2>6. c \in Nat /\ BodyStart(r) <= c /\ c <= n
    BY <1>2, <2>1, <2>2, <2>3, <2>4, <2>5, ChunkBounds
  <2>7. \A k \in 1 .. Len(m) : m[k].part = "body" => (m[k].nth <= pos <=> k <= c)
    <3>1. InChunkAt(r, j, pos, i, c) /\ l = Len(r.sizes)
      BY ONLY <2>1, <2>4
    <3> QED BY ONLY <1>2, <2>2, <2>3, <3>1, ChunkSplits, r \in Responses, MessageHolds(r, m), j \in 1 .. l
  <2> QED BY ONLY <2>3, <2>6, <2>7 DEF ConvertsTo
<1> QED BY <1>1, <1>2

\* A later position of the body has a later place in the response.
LEMMA ConvertedAscend ==
  ASSUME NEW r \in Responses, NEW m, MessageHolds(r, m), NEW n \in Nat,
         NEW p, Parsed(r, n, p), p.bodyStartIndex >= 4,
         NEW pos \in 0 .. Len(p.body), NEW c, c = convertResponsePosToAbsolutePos(p, pos),
         NEW pos2 \in 0 .. Len(p.body), NEW c2, c2 = convertResponsePosToAbsolutePos(p, pos2), pos < pos2
  PROVE  c < c2
<1>1. CASE r.framing # "chunked"
  <2>1. pos \in Nat /\ c = BodyStart(r) + pos
    BY <1>1, PlainConverts
  <2>2. pos2 \in Nat /\ c2 = BodyStart(r) + pos2
    BY <1>1, PlainConverts
  <2>3. BodyStart(r) \in Nat
    BY PlacesAre
  <2>4. PICK s : s = BodyStart(r)
    OBVIOUS
  <2> QED BY ONLY <2>1, <2>2, <2>3, <2>4, pos < pos2
<1>2. CASE r.framing = "chunked"
  <2>1. PICK l : l = Len(r.sizes)
    OBVIOUS
  <2>2. l \in Nat
    BY <2>1, ResponseIs
  <2>3. pos \in Nat /\ pos2 \in Nat
    BY <1>2, ChunkedConverts
  <2>4. PICK j \in 1 .. l, i \in Nat : InChunkAt(r, j, pos, i, c) /\ ChunkedTo(r, n, p, j)
    BY <1>2, <2>1, ChunkedConverts
  <2>5. PICK j2 \in 1 .. l, i2 \in Nat : InChunkAt(r, j2, pos2, i2, c2) /\ ChunkedTo(r, n, p, j2)
    BY <1>2, <2>1, ChunkedConverts
  <2>6. j = j2
    <3>1. [i0 \in 1 .. j |-> ChunkRecord(r, i0)] = [i0 \in 1 .. j2 |-> ChunkRecord(r, i0)]
      BY ONLY <2>4, <2>5 DEF ChunkedTo, ChunksTo
    <3>2. 1 .. j = 1 .. j2
      BY ONLY <3>1
    <3>3. j \in 1 .. j /\ j2 \in 1 .. j2 /\ j \in Nat /\ j2 \in Nat
      BY ONLY <2>2, j \in 1 .. l, j2 \in 1 .. l
    <3>4. j \in 1 .. j2 /\ j2 \in 1 .. j
      BY ONLY <3>2, <3>3
    <3> QED BY ONLY <3>3, <3>4
  <2>7. InChunkAt(r, j, pos2, i2, c2)
    BY <2>5, <2>6
  <2> QED BY <1>2, <2>1, <2>2, <2>3, <2>4, <2>7, ChunkAscends
<1> QED BY <1>1, <1>2

-----------------------------------------------------------------------------
(* The slices to reveal, in order, and the gaps between them.               *)

Among(s, x) == \E k \in 1 .. Len(s) : s[k] = x

\* A concatenation has the elements of both sequences.
LEMMA AmongBoth ==
  ASSUME NEW X, NEW s \in Seq(X), NEW t \in Seq(X), NEW u, u = s \o t, NEW x
  PROVE  Among(u, x) <=> Among(s, x) \/ Among(t, x)
<1>1. PICK a, b : a = Len(s) /\ b = Len(t)
  OBVIOUS
<1>2. /\ u \in Seq(X) /\ Len(u) = a + b /\ a \in Nat /\ b \in Nat
      /\ \A k \in 1 .. a : u[k] = s[k]
      /\ \A k \in 1 .. b : u[a + k] = t[k]
  BY ONLY <1>1, s \in Seq(X), t \in Seq(X), u = s \o t, Concatenation
<1>3. ASSUME Among(u, x) PROVE Among(s, x) \/ Among(t, x)
  <2>1. PICK k \in 1 .. a + b : u[k] = x
    BY ONLY <1>2, <1>3 DEF Among
  <2>2. CASE k <= a
    <3>1. k \in 1 .. a
      BY ONLY <1>2, <2>2, k \in 1 .. a + b
    <3> QED BY ONLY <1>1, <1>2, <2>1, <3>1 DEF Among
  <2>3. CASE ~(k <= a)
    <3>1. PICK j : j = k - a
      OBVIOUS
    <3>2. j \in 1 .. b /\ a + j = k
      BY ONLY <1>2, <2>3, <3>1, k \in 1 .. a + b
    <3> QED BY ONLY <1>1, <1>2, <2>1, <3>2 DEF Among
  <2> QED BY ONLY <2>2, <2>3
<1>4. ASSUME Among(s, x) PROVE Among(u, x)
  <2>1. PICK k \in 1 .. a : s[k] = x
    BY ONLY <1>1, <1>4 DEF Among
  <2>2. k \in 1 .. a + b /\ u[k] = x
    BY ONLY <1>2, <2>1, k \in 1 .. a
  <2> QED BY ONLY <1>2, <2>2 DEF Among
<1>5. ASSUME Among(t, x) PROVE Among(u, x)
  <2>1. PICK k \in 1 .. b : t[k] = x
    BY ONLY <1>1, <1>5 DEF Among
  <2>2. a + k \in 1 .. a + b /\ u[a + k] = x
    BY ONLY <1>2, <2>1, k \in 1 .. b
  <2> QED BY ONLY <1>2, <2>2 DEF Among
<1> QED BY ONLY <1>3, <1>4, <1>5

\* A flattened sequence has the elements of its parts.
LEMMA AmongFlattened ==
  ASSUME NEW X, NEW seqs \in Seq(Seq(X)), NEW n \in Nat, n = Len(seqs), NEW flat, flat = FlattenSeq(seqs), NEW x
  PROVE  flat \in Seq(X) /\ (Among(flat, x) <=> \E i \in 1 .. n : Among(seqs[i], x))
<1>1. PICK f \in [0 .. n -> Seq(X)] :
        f[0] = <<>> /\ (\A i \in 1 .. n : f[i] = f[i - 1] \o seqs[i]) /\ FlattenSeq(seqs) = f[n]
  BY Flattened
<1>2. \A i \in 1 .. n : seqs[i] \in Seq(X)
  OBVIOUS
<1> DEFINE P == {m \in Nat : m <= n => (Among(f[m], x) <=> \E i \in 1 .. m : Among(seqs[i], x))}
<1>3. 0 \in P
  <2>1. ~Among(f[0], x)
    BY <1>1 DEF Among
  <2> QED BY <2>1
<1>4. ASSUME NEW m \in Nat, m \in P PROVE m + 1 \in P
  <2> SUFFICES ASSUME m + 1 <= n PROVE Among(f[m + 1], x) <=> \E i \in 1 .. m + 1 : Among(seqs[i], x)
    OBVIOUS
  <2>1. m \in 0 .. n /\ m + 1 \in 1 .. n /\ (m + 1) - 1 = m /\ m <= n
    BY ONLY m \in Nat, n \in Nat, m + 1 <= n
  <2>2. PICK s, t, u : s = f[m] /\ t = seqs[m + 1] /\ u = f[m + 1]
    OBVIOUS
  <2>3. s \in Seq(X) /\ t \in Seq(X) /\ u = s \o t
    BY ONLY <1>1, <1>2, <2>1, <2>2
  <2>4. Among(u, x) <=> Among(s, x) \/ Among(t, x)
    BY ONLY <2>3, AmongBoth
  <2>5. Among(s, x) <=> \E i \in 1 .. m : Among(seqs[i], x)
    BY ONLY <1>4, <2>1, <2>2
  <2>6. \A i : i \in 1 .. m + 1 <=> i \in 1 .. m \/ i = m + 1
    BY ONLY m \in Nat
  <2> QED BY ONLY <2>2, <2>4, <2>5, <2>6
<1>5. n \in P
  <2> HIDE DEF P
  <2> QED BY <1>3, <1>4, InductionOverNat
<1>6. n <= n /\ n \in 0 .. n
  OBVIOUS
<1>7. Among(f[n], x) <=> \E i \in 1 .. n : Among(seqs[i], x)
  BY ONLY <1>5, <1>6
<1>8. flat = f[n] /\ flat \in Seq(X)
  BY ONLY <1>1, <1>6, f \in [0 .. n -> Seq(X)], flat = FlattenSeq(seqs)
<1> QED BY ONLY <1>7, <1>8

\* The elements of short sequences.
LEMMA AmongOne ==
  ASSUME NEW x, NEW y
  PROVE  (Among(<<x>>, y) <=> y = x) /\ ~Among(<<>>, y)
BY DEF Among

Slices == [fromIndex : Nat, toIndex : Nat]

\* The ends of a slice.
LEMMA SliceIs ==
  ASSUME NEW a, NEW b
  PROVE  /\ Slice(a, b).fromIndex = a /\ Slice(a, b).toIndex = b
         /\ a \in Nat /\ b \in Nat => Slice(a, b) \in Slices
BY DEF Slice, Slices

\* Where the gap before slice k of a sequence starts.
GapStart(s, k) == IF k = 1 THEN 0 ELSE s[k - 1].toIndex

\* gapsBefore has the gaps between each slice and the one before it.
LEMMA GapsAre ==
  ASSUME NEW s \in Seq(Slices), NEW n \in Nat, n = Len(s), NEW x
  PROVE  /\ gapsBefore(s) \in Seq(Slices)
         /\ Among(gapsBefore(s), x) <=>
              \E k \in 1 .. n : GapStart(s, k) < s[k].fromIndex /\ x = Slice(GapStart(s, k), s[k].fromIndex)
<1> DEFINE gap == [k \in 1 .. n |-> gapBefore(s, k)]
<1>1. ASSUME NEW k \in 1 .. n
      PROVE  /\ gapBefore(s, k) \in Seq(Slices)
             /\ Among(gapBefore(s, k), x) <=>
                  GapStart(s, k) < s[k].fromIndex /\ x = Slice(GapStart(s, k), s[k].fromIndex)
  <2>1. PICK a, b : a = GapStart(s, k) /\ b = s[k].fromIndex
    OBVIOUS
  <2>2. b \in Nat
    <3>1. s[k] \in Slices
      OBVIOUS
    <3> QED BY <2>1, <3>1 DEF Slices
  <2>3. a \in Nat
    <3>1. CASE k = 1
      BY <2>1, <3>1 DEF GapStart
    <3>2. CASE k # 1
      <4>1. k - 1 \in 1 .. n
        BY <3>2
      <4>2. s[k - 1] \in Slices
        BY <4>1
      <4> QED BY <2>1, <3>2, <4>2 DEF GapStart, Slices
    <3> QED BY <3>1, <3>2
  <2>4. gapBefore(s, k) = IF a < b THEN <<Slice(a, b)>> ELSE <<>>
    BY ONLY <2>1 DEF gapBefore, GapStart
  <2>5. CASE a < b
    <3>1. PICK y : y = Slice(a, b)
      OBVIOUS
    <3>2. y \in Slices
      BY <2>2, <2>3, <3>1, SliceIs
    <3>3. gapBefore(s, k) = <<y>>
      BY ONLY <2>4, <2>5, <3>1
    <3>4. Among(<<y>>, x) <=> x = y
      BY AmongOne
    <3>5. <<y>> \in Seq(Slices)
      BY ONLY <3>2
    <3> QED BY ONLY <2>1, <2>5, <3>1, <3>3, <3>4, <3>5
  <2>6. CASE ~(a < b)
    <3>1. gapBefore(s, k) = <<>> /\ <<>> \in Seq(Slices)
      BY ONLY <2>4, <2>6
    <3>2. ~Among(<<>>, x)
      BY AmongOne
    <3> QED BY ONLY <2>1, <2>6, <3>1, <3>2
  <2> QED BY <2>5, <2>6
<1>2. gapsBefore(s) = FlattenSeq(gap)
  BY DEF gapsBefore
<1>3. \A k \in 1 .. n : gap[k] = gapBefore(s, k)
  OBVIOUS
<1>4. gap = [k \in 1 .. n |-> gap[k]]
  OBVIOUS
<1> HIDE DEF gap
<1>5. gap \in Seq(Seq(Slices)) /\ Len(gap) = n
  <2>1. \A k \in 1 .. n : gap[k] \in Seq(Slices)
    BY ONLY <1>1, <1>3
  <2> QED BY ONLY <1>4, <2>1, n \in Nat, IsSequence
<1>6. /\ gapsBefore(s) \in Seq(Slices)
      /\ Among(gapsBefore(s), x) <=> \E k \in 1 .. n : Among(gap[k], x)
  BY ONLY <1>2, <1>5, n \in Nat, AmongFlattened
<1> QED BY ONLY <1>1, <1>3, <1>6

\* Slice i is before slice j, the number of slice i in order, and the slice with number k.
IsBefore(slices, i, j) == \/ slices[i].toIndex < slices[j].toIndex
                          \/ slices[i].toIndex = slices[j].toIndex /\ i < j
PlaceOf(slices, i) == Cardinality({j \in DOMAIN slices : IsBefore(slices, j, i)}) + 1
AtPlace(slices, k) == CHOOSE i \in DOMAIN slices : PlaceOf(slices, i) = k

\* sorted takes the slice with number k to place k.
LEMMA SortedBy ==
  ASSUME NEW slices
  PROVE  sorted(slices) = [k \in DOMAIN slices |-> slices[AtPlace(slices, k)]]
BY DEF sorted, AtPlace, PlaceOf, IsBefore

\* The numbers are in range, and a slice has a greater one than those before it.
LEMMA PlacesGrow ==
  ASSUME NEW slices \in Seq(Slices), NEW n \in Nat, n = Len(slices)
  PROVE  /\ \A i \in 1 .. n : PlaceOf(slices, i) \in 1 .. n
         /\ \A i, j \in 1 .. n : IsBefore(slices, i, j) => PlaceOf(slices, i) < PlaceOf(slices, j)
<1> DEFINE B == [i \in 1 .. n |-> {j \in 1 .. n : IsBefore(slices, j, i)}]
<1>1. DOMAIN slices = 1 .. n
  OBVIOUS
<1>2. \A i \in 1 .. n : slices[i].toIndex \in Nat
  <2>1. \A i \in 1 .. n : slices[i] \in Slices
    OBVIOUS
  <2> QED BY <2>1 DEF Slices
<1>3. \A i \in 1 .. n : PlaceOf(slices, i) = Cardinality(B[i]) + 1
  BY <1>1 DEF PlaceOf
<1>4. \A i \in 1 .. n : B[i] \subseteq 1 .. n /\ i \notin B[i]
  BY <1>2 DEF IsBefore
<1>5. IsFiniteSet(1 .. n) /\ Cardinality(1 .. n) = n
  <2>1. 1 \in Int /\ n \in Int
    OBVIOUS
  <2>2. IsFiniteSet(1 .. n) /\ Cardinality(1 .. n) = IF 1 > n THEN 0 ELSE n - 1 + 1
    BY ONLY <2>1, FS_Interval, Zenon
  <2> QED BY ONLY <2>2, n \in Nat
<1>6. ASSUME NEW i \in 1 .. n, NEW j \in 1 .. n, IsBefore(slices, i, j)
      PROVE  B[i] \subseteq B[j] /\ i \in B[j]
  <2>1. i \in B[j]
    BY <1>6
  <2>2. ASSUME NEW k \in 1 .. n, IsBefore(slices, k, i) PROVE IsBefore(slices, k, j)
    BY <1>2, <1>6, <2>2 DEF IsBefore
  <2> QED BY <2>1, <2>2
<1> HIDE DEF B
<1>7. \A i \in 1 .. n : IsFiniteSet(B[i]) /\ Cardinality(B[i]) \in Nat
  BY <1>4, <1>5, FS_Subset, FS_CardinalityType
<1>8. ASSUME NEW i \in 1 .. n PROVE PlaceOf(slices, i) \in 1 .. n
  <2>1. B[i] \in SUBSET (1 .. n) /\ B[i] # 1 .. n
    BY <1>4
  <2>2. Cardinality(B[i]) <= n /\ Cardinality(B[i]) # n
    BY <1>5, <2>1, FS_Subset
  <2>3. PICK c : c = Cardinality(B[i])
    OBVIOUS
  <2>4. c \in Nat /\ c < n
    BY <1>7, <2>2, <2>3
  <2>5. c + 1 \in 1 .. n
    BY ONLY <2>4, n \in Nat
  <2> QED BY <1>3, <2>3, <2>5
<1>9. ASSUME NEW i \in 1 .. n, NEW j \in 1 .. n, IsBefore(slices, i, j)
      PROVE  PlaceOf(slices, i) < PlaceOf(slices, j)
  <2>1. B[i] \in SUBSET B[j] /\ B[i] # B[j]
    BY <1>4, <1>6, <1>9
  <2>2. Cardinality(B[i]) <= Cardinality(B[j]) /\ Cardinality(B[i]) # Cardinality(B[j])
    BY <1>7, <2>1, FS_Subset
  <2>3. PICK c, d : c = Cardinality(B[i]) /\ d = Cardinality(B[j])
    OBVIOUS
  <2>4. c \in Nat /\ d \in Nat /\ c < d
    BY <1>7, <2>2, <2>3
  <2>5. c + 1 < d + 1
    BY ONLY <2>4
  <2> QED BY <1>3, <2>3, <2>5
<1> QED BY <1>8, <1>9

\* sorted has the same slices, each of them once, and in the order of their ends.
LEMMA SortedIs ==
  ASSUME NEW slices \in Seq(Slices), NEW n \in Nat, n = Len(slices), NEW all, all = sorted(slices)
  PROVE  /\ all \in Seq(Slices) /\ Len(all) = n
         /\ \A x : Among(all, x) <=> Among(slices, x)
         /\ \A k, l \in 1 .. n : k < l => all[k].toIndex <= all[l].toIndex
<1> DEFINE P == [i \in 1 .. n |-> PlaceOf(slices, i)]
           A == [k \in 1 .. n |-> AtPlace(slices, k)]
<1>1. DOMAIN slices = 1 .. n /\ \A i \in 1 .. n : slices[i] \in Slices
  OBVIOUS
<1>2. \A i \in 1 .. n : slices[i].toIndex \in Nat
  BY <1>1 DEF Slices
<1>3. ASSUME NEW i \in 1 .. n, NEW j \in 1 .. n, i # j
      PROVE  IsBefore(slices, i, j) \/ IsBefore(slices, j, i)
  BY <1>2, <1>3 DEF IsBefore
<1>4. /\ \A i \in 1 .. n : P[i] \in 1 .. n /\ P[i] \in Nat
      /\ \A i, j \in 1 .. n : IsBefore(slices, i, j) => P[i] < P[j]
  BY PlacesGrow
<1>5. P \in [1 .. n -> 1 .. n]
  BY <1>4
<1>6. \A k \in 1 .. n : (\E i \in 1 .. n : P[i] = k) => A[k] \in 1 .. n /\ P[A[k]] = k
  <2> SUFFICES ASSUME NEW k \in 1 .. n, NEW i \in 1 .. n, P[i] = k
               PROVE  A[k] \in 1 .. n /\ P[A[k]] = k
    OBVIOUS
  <2>1. i \in DOMAIN slices /\ PlaceOf(slices, i) = k
    BY <1>1
  <2>2. AtPlace(slices, k) \in DOMAIN slices /\ PlaceOf(slices, AtPlace(slices, k)) = k
    BY ONLY <2>1 DEF AtPlace
  <2> QED BY <1>1, <2>2
<1>7. all = [k \in 1 .. n |-> slices[A[k]]]
  BY <1>1, SortedBy
<1> HIDE DEF P, A
<1>8. \A i, j \in 1 .. n : i # j => P[i] # P[j]
  BY <1>3, <1>4
<1>9. P \in Injection(1 .. n, 1 .. n)
  BY <1>5, <1>8 DEF Injection, IsInjective
<1>10. IsFiniteSet(1 .. n)
  BY FS_Interval
<1>11. P \in Surjection(1 .. n, 1 .. n)
  BY <1>9, <1>10, FS_Injection
<1>12. \A k \in 1 .. n : \E i \in 1 .. n : P[i] = k
  BY <1>11 DEF Surjection
<1>13. \A k \in 1 .. n : A[k] \in 1 .. n /\ P[A[k]] = k
  BY <1>6, <1>12
<1>14. \A k \in 1 .. n : all[k] = slices[A[k]] /\ all[k] \in Slices
  BY <1>1, <1>7, <1>13
<1>15. all \in Seq(Slices) /\ Len(all) = n
  <2>1. all = [k \in 1 .. n |-> all[k]]
    BY <1>7
  <2> QED BY ONLY <1>14, <2>1, n \in Nat, IsSequence
<1>16. ASSUME NEW x PROVE Among(all, x) <=> Among(slices, x)
  <2>1. ASSUME Among(all, x) PROVE Among(slices, x)
    BY <1>13, <1>14, <1>15, <2>1 DEF Among
  <2>2. ASSUME Among(slices, x) PROVE Among(all, x)
    <3>1. PICK i \in 1 .. n : slices[i] = x
      BY <2>2 DEF Among
    <3>2. PICK k : k = P[i]
      OBVIOUS
    <3>3. k \in 1 .. n
      BY <1>4, <3>2
    <3>4. A[k] = i
      BY <1>8, <1>13, <3>2, <3>3
    <3>5. all[k] = x
      BY <1>14, <3>1, <3>3, <3>4
    <3> QED BY <1>15, <3>3, <3>5 DEF Among
  <2> QED BY <2>1, <2>2
<1>17. ASSUME NEW k \in 1 .. n, NEW l \in 1 .. n, k < l PROVE all[k].toIndex <= all[l].toIndex
  <2>1. PICK i, j : i = A[k] /\ j = A[l]
    OBVIOUS
  <2>2. i \in 1 .. n /\ j \in 1 .. n /\ P[i] = k /\ P[j] = l
    BY <1>13, <2>1
  <2>3. ~IsBefore(slices, j, i)
    <3>1. ~(l < k)
      BY <1>17
    <3> QED BY <1>4, <2>2, <3>1
  <2>4. i # j
    BY <1>17, <2>2
  <2>5. IsBefore(slices, i, j)
    BY <1>3, <2>2, <2>3, <2>4
  <2>6. slices[i].toIndex <= slices[j].toIndex
    BY <1>2, <2>2, <2>5 DEF IsBefore
  <2> QED BY <1>14, <2>1, <2>6
<1> QED BY ONLY <1>15, <1>16, <1>17

InSlice(s, x) == s.fromIndex <= x /\ x < s.toIndex

\* A position is in one of the slices.
LEMMA PositionsIn ==
  ASSUME NEW slices \in Seq(Slices), NEW x \in Nat
  PROVE  x \in Positions(slices) <=> \E s : Among(slices, s) /\ InSlice(s, x)
<1>1. DOMAIN slices = 1 .. Len(slices) /\ \A i \in 1 .. Len(slices) : slices[i] \in Slices
  OBVIOUS
<1>2. \A i \in 1 .. Len(slices) : x \in slices[i].fromIndex .. slices[i].toIndex - 1 <=> InSlice(slices[i], x)
  <2> SUFFICES ASSUME NEW i \in 1 .. Len(slices)
               PROVE  x \in slices[i].fromIndex .. slices[i].toIndex - 1 <=> InSlice(slices[i], x)
    OBVIOUS
  <2>1. PICK a, b : a = slices[i].fromIndex /\ b = slices[i].toIndex
    OBVIOUS
  <2>2. a \in Nat /\ b \in Nat
    BY <1>1, <2>1 DEF Slices
  <2>3. x \in a .. b - 1 <=> a <= x /\ x < b
    BY ONLY <2>2, x \in Nat
  <2> QED BY ONLY <2>1, <2>3 DEF InSlice
<1>3. x \in Positions(slices) <=> \E i \in 1 .. Len(slices) : x \in slices[i].fromIndex .. slices[i].toIndex - 1
  BY ONLY <1>1 DEF Positions
<1> QED BY ONLY <1>2, <1>3 DEF Among

\* The gaps are those before the slices in order and the one after the last of them.
LEMMA GapsBetween ==
  ASSUME NEW slices \in Seq(Slices), NEW n \in Nat, n = Len(slices), n >= 2, NEW length \in Nat,
         NEW all, all = sorted(slices), NEW g
  PROVE  /\ gaps(slices, length) \in Seq(Slices)
         /\ Among(gaps(slices, length), g) <=>
              \/ \E k \in 1 .. n : GapStart(all, k) < all[k].fromIndex /\ g = Slice(GapStart(all, k), all[k].fromIndex)
              \/ g = Slice(all[n].toIndex, length)
<1>1. all \in Seq(Slices) /\ Len(all) = n
  BY SortedIs
<1>2. PICK s, t : s = gapsBefore(all) /\ t = Slice(all[n].toIndex, length)
  OBVIOUS
<1>3. /\ s \in Seq(Slices)
      /\ Among(s, g) <=>
           \E k \in 1 .. n : GapStart(all, k) < all[k].fromIndex /\ g = Slice(GapStart(all, k), all[k].fromIndex)
  BY <1>1, <1>2, GapsAre
<1>4. t \in Slices
  <2>1. n \in 1 .. n
    BY ONLY n \in Nat, n >= 2
  <2>2. all[n] \in Slices
    BY ONLY <1>1, <2>1
  <2>3. all[n].toIndex \in Nat
    BY ONLY <2>2 DEF Slices
  <2> QED BY ONLY <1>2, <2>3, length \in Nat, SliceIs
<1>5. gaps(slices, length) = s \o <<t>>
  <2>1. ~(Len(slices) <= 1)
    BY ONLY n = Len(slices), n >= 2, n \in Nat
  <2> QED BY ONLY <1>1, <1>2, <2>1, all = sorted(slices) DEF gaps
<1>6. <<t>> \in Seq(Slices) /\ (Among(<<t>>, g) <=> g = t)
  <2>1. Among(<<t>>, g) <=> g = t
    BY AmongOne
  <2> QED BY ONLY <1>4, <2>1
<1>7. PICK u : u = gaps(slices, length)
  OBVIOUS
<1>8. u \in Seq(Slices)
  BY ONLY <1>3, <1>5, <1>6, <1>7
<1>9. Among(u, g) <=> Among(s, g) \/ Among(<<t>>, g)
  BY ONLY <1>3, <1>5, <1>6, <1>7, AmongBoth
<1> QED BY ONLY <1>2, <1>3, <1>6, <1>7, <1>8, <1>9

\* What no gap holds is in a slice.
LEMMA GapsHide ==
  ASSUME NEW slices \in Seq(Slices), Len(slices) >= 2, NEW length \in Nat,
         NEW x \in Nat, x < length, x \notin Positions(gaps(slices, length))
  PROVE  \E s : Among(slices, s) /\ InSlice(s, x)
<1>1. PICK n, all, g : n = Len(slices) /\ all = sorted(slices) /\ g = gaps(slices, length)
  OBVIOUS
<1>2. n \in Nat /\ n >= 2 /\ n \in 1 .. n
  BY <1>1
<1>3. all \in Seq(Slices) /\ Len(all) = n /\ \A s : Among(all, s) <=> Among(slices, s)
  BY <1>1, <1>2, SortedIs
<1>4. /\ g \in Seq(Slices)
      /\ \A k \in 1 .. n : GapStart(all, k) < all[k].fromIndex => Among(g, Slice(GapStart(all, k), all[k].fromIndex))
      /\ Among(g, Slice(all[n].toIndex, length))
  BY <1>1, <1>2, GapsBetween
<1>5. \A k \in 1 .. n : all[k].fromIndex \in Nat /\ all[k].toIndex \in Nat
  <2>1. \A k \in 1 .. n : all[k] \in Slices
    BY ONLY <1>3
  <2> QED BY ONLY <2>1 DEF Slices
<1>6. \A s : Among(g, s) => ~InSlice(s, x)
  BY <1>1, <1>4, PositionsIn
<1>7. x < all[n].toIndex
  <2>1. PICK a : a = all[n].toIndex
    OBVIOUS
  <2>2. ~InSlice(Slice(a, length), x)
    BY ONLY <1>4, <1>6, <2>1
  <2>3. ~(a <= x /\ x < length)
    BY ONLY <2>2, SliceIs DEF InSlice
  <2>4. x < a
    BY ONLY <1>2, <1>5, <2>1, <2>3, x \in Nat, length \in Nat, x < length
  <2> QED BY ONLY <2>1, <2>4
<1> DEFINE S == {k \in 1 .. n : x < all[k].toIndex}
<1>8. PICK k \in S : \A l \in S : k <= l
  <2>1. S \in SUBSET Nat /\ n \in S
    BY <1>2, <1>7
  <2> QED BY <2>1, LeastExists
<1>9. k \in 1 .. n /\ x < all[k].toIndex /\ \A l \in 1 .. n : x < all[l].toIndex => k <= l
  BY <1>8
<1>10. PICK a, b : a = GapStart(all, k) /\ b = all[k].fromIndex
  OBVIOUS
<1>11. a \in Nat /\ a <= x
  <2>1. CASE k = 1
    BY ONLY <1>10, <2>1, x \in Nat DEF GapStart
  <2>2. CASE k # 1
    <3>1. k - 1 \in 1 .. n /\ ~(k <= k - 1)
      BY ONLY <1>2, <1>9, <2>2
    <3>2. ~(x < all[k - 1].toIndex)
      BY ONLY <1>9, <3>1
    <3>3. a = all[k - 1].toIndex
      BY ONLY <1>10, <2>2 DEF GapStart
    <3> QED BY ONLY <1>5, <3>1, <3>2, <3>3, x \in Nat
  <2> QED BY ONLY <2>1, <2>2
<1>12. b \in Nat
  BY ONLY <1>5, <1>9, <1>10
<1>13. b <= x
  <2>1. ASSUME ~(b <= x) PROVE FALSE
    <3>1. a < b /\ x < b
      BY ONLY <1>11, <1>12, <2>1, x \in Nat
    <3>2. Among(g, Slice(a, b))
      BY ONLY <1>4, <1>9, <1>10, <3>1
    <3>3. ~InSlice(Slice(a, b), x)
      BY ONLY <1>6, <3>2
    <3> QED BY ONLY <1>11, <3>1, <3>3, SliceIs DEF InSlice
  <2> QED BY <2>1
<1>14. InSlice(all[k], x)
  BY ONLY <1>9, <1>10, <1>13 DEF InSlice
<1>15. Among(all, all[k])
  BY ONLY <1>3, <1>9 DEF Among
<1> QED BY ONLY <1>3, <1>14, <1>15

\* Slices that start in the order in which they end.
Agree(slices) ==
  \A s, t : Among(slices, s) /\ Among(slices, t) /\ s.toIndex <= t.toIndex => s.fromIndex <= t.fromIndex

\* If they start in the order in which they end, no gap holds a byte of a slice.
LEMMA GapsReveal ==
  ASSUME NEW slices \in Seq(Slices), Len(slices) >= 2, Agree(slices), NEW length \in Nat,
         NEW x \in Nat, NEW s, Among(slices, s), InSlice(s, x)
  PROVE  x \notin Positions(gaps(slices, length))
<1>1. PICK n, all, g : n = Len(slices) /\ all = sorted(slices) /\ g = gaps(slices, length)
  OBVIOUS
<1>2. n \in Nat /\ n >= 2 /\ n \in 1 .. n
  BY <1>1
<1>3. /\ all \in Seq(Slices) /\ Len(all) = n /\ \A y : Among(all, y) <=> Among(slices, y)
      /\ \A k, l \in 1 .. n : k < l => all[k].toIndex <= all[l].toIndex
  BY <1>1, <1>2, SortedIs
<1>4. \A k \in 1 .. n : all[k].fromIndex \in Nat /\ all[k].toIndex \in Nat /\ Among(slices, all[k])
  <2>1. \A k \in 1 .. n : all[k] \in Slices /\ Among(all, all[k])
    BY ONLY <1>3 DEF Among
  <2> QED BY ONLY <1>3, <2>1 DEF Slices
<1>5. PICK j \in 1 .. n : all[j] = s
  <2>1. Among(all, s)
    BY <1>3
  <2> QED BY ONLY <1>3, <2>1 DEF Among
<1>6. \A k, l \in 1 .. n : k < l => all[k].fromIndex <= all[l].fromIndex
  BY ONLY <1>3, <1>4, Agree(slices) DEF Agree
<1>7. all[j].fromIndex <= x /\ x < all[j].toIndex
  BY ONLY <1>5, InSlice(s, x) DEF InSlice
<1>8. g \in Seq(Slices)
  BY <1>1, <1>2, GapsBetween
<1>9. ASSUME NEW y, Among(g, y), InSlice(y, x) PROVE FALSE
  <2>1. \/ \E k \in 1 .. n : GapStart(all, k) < all[k].fromIndex /\ y = Slice(GapStart(all, k), all[k].fromIndex)
        \/ y = Slice(all[n].toIndex, length)
    BY <1>1, <1>2, <1>9, GapsBetween
  <2>2. CASE y = Slice(all[n].toIndex, length)
    <3>1. all[n].toIndex <= x
      BY ONLY <1>9, <2>2, SliceIs DEF InSlice
    <3>2. all[j].toIndex <= all[n].toIndex
      <4>1. CASE j = n
        BY ONLY <1>2, <1>4, <4>1
      <4>2. CASE j # n
        BY ONLY <1>2, <1>3, <4>2, j \in 1 .. n
      <4> QED BY ONLY <4>1, <4>2
    <3> QED BY ONLY <1>2, <1>4, <1>7, <3>1, <3>2, j \in 1 .. n, x \in Nat
  <2>3. CASE \E k \in 1 .. n : GapStart(all, k) < all[k].fromIndex /\ y = Slice(GapStart(all, k), all[k].fromIndex)
    <3>1. PICK k \in 1 .. n : y = Slice(GapStart(all, k), all[k].fromIndex)
      BY ONLY <2>3
    <3>2. GapStart(all, k) <= x /\ x < all[k].fromIndex
      BY ONLY <1>9, <3>1, SliceIs DEF InSlice
    <3>3. j < k
      <4>1. ASSUME ~(j < k) PROVE all[k].fromIndex <= all[j].fromIndex
        <5>1. CASE k = j
          BY ONLY <1>4, <5>1, j \in 1 .. n
        <5>2. CASE k # j
          <6>1. k < j
            BY ONLY <1>2, <4>1, <5>2, j \in 1 .. n, k \in 1 .. n
          <6> QED BY ONLY <1>6, <6>1, j \in 1 .. n, k \in 1 .. n
        <5> QED BY ONLY <5>1, <5>2
      <4> QED BY ONLY <1>4, <1>7, <3>2, <4>1, j \in 1 .. n, k \in 1 .. n, x \in Nat
    <3>4. k - 1 \in 1 .. n /\ k # 1 /\ (j = k - 1 \/ j < k - 1)
      BY ONLY <1>2, <3>3, j \in 1 .. n, k \in 1 .. n
    <3>5. all[k - 1].toIndex <= x
      BY ONLY <3>2, <3>4 DEF GapStart
    <3>6. all[j].toIndex <= all[k - 1].toIndex
      <4>1. CASE j = k - 1
        <5>1. all[j].toIndex = all[k - 1].toIndex
          BY ONLY <4>1
        <5> QED BY ONLY <1>4, <5>1, j \in 1 .. n
      <4>2. CASE j < k - 1
        BY ONLY <1>3, <3>4, <4>2, j \in 1 .. n
      <4> QED BY ONLY <3>4, <4>1, <4>2
    <3> QED BY ONLY <1>4, <1>7, <3>4, <3>5, <3>6, j \in 1 .. n, x \in Nat
  <2> QED BY <2>1, <2>2, <2>3
<1>10. \A y : Among(g, y) => ~InSlice(y, x)
  BY ONLY <1>9
<1> QED BY <1>1, <1>8, <1>10, PositionsIn

\* The slice that a rule selects, and what is revealed.
RuleSlice(p, rule) ==
  Slice(convertResponsePosToAbsolutePos(p, rule.from), convertResponsePosToAbsolutePos(p, rule.from + rule.length))

IsReveal(p, rs, s) ==
  \/ s = Slice(0, p.statusLineEndIndex)
  \/ Date \in DOMAIN p.headers /\ s = Slice(p.headers[Date].fromIndex, p.headers[Date].toIndex)
  \/ \E i \in 1 .. Len(rs) : rs[i].length # 0 /\ s = RuleSlice(p, rs[i])

\* reveals has the status line, the date and the slices of the rules.
LEMMA RevealsAre ==
  ASSUME NEW p, NEW rs, NEW l \in Nat, l = Len(rs), NEW s,
         p.statusLineEndIndex \in Nat,
         Date \in DOMAIN p.headers => p.headers[Date].fromIndex \in Nat /\ p.headers[Date].toIndex \in Nat,
         \A i \in 1 .. l : rs[i].length # 0 => RuleSlice(p, rs[i]) \in Slices
  PROVE  reveals(p, rs) \in Seq(Slices) /\ (Among(reveals(p, rs), s) <=> IsReveal(p, rs, s))
<1>1. PICK first, date, rest :
        /\ first = <<Slice(0, p.statusLineEndIndex)>>
        /\ date = IF Date \in DOMAIN p.headers
                  THEN <<Slice(p.headers[Date].fromIndex, p.headers[Date].toIndex)>> ELSE <<>>
        /\ rest = [i \in 1 .. l |-> IF rs[i].length = 0 THEN <<>> ELSE <<RuleSlice(p, rs[i])>>]
  OBVIOUS
<1>2. reveals(p, rs) = first \o date \o FlattenSeq(rest)
  BY ONLY <1>1, l = Len(rs) DEF reveals, RuleSlice
<1>3. first \in Seq(Slices) /\ (Among(first, s) <=> s = Slice(0, p.statusLineEndIndex))
  <2>1. PICK y : y = Slice(0, p.statusLineEndIndex)
    OBVIOUS
  <2>2. y \in Slices
    BY <2>1, SliceIs
  <2>3. Among(<<y>>, s) <=> s = y
    BY AmongOne
  <2> QED BY ONLY <1>1, <2>1, <2>2, <2>3
<1>4. /\ date \in Seq(Slices)
      /\ Among(date, s) <=>
           Date \in DOMAIN p.headers /\ s = Slice(p.headers[Date].fromIndex, p.headers[Date].toIndex)
  <2>1. PICK y : y = Slice(p.headers[Date].fromIndex, p.headers[Date].toIndex)
    OBVIOUS
  <2>2. (Among(<<y>>, s) <=> s = y) /\ ~Among(<<>>, s)
    BY AmongOne
  <2>3. CASE Date \in DOMAIN p.headers
    <3>1. y \in Slices
      BY <2>1, <2>3, SliceIs
    <3>2. date = <<y>>
      BY ONLY <1>1, <2>1, <2>3
    <3> QED BY ONLY <2>1, <2>2, <2>3, <3>1, <3>2
  <2>4. CASE Date \notin DOMAIN p.headers
    <3>1. date = <<>> /\ <<>> \in Seq(Slices)
      BY ONLY <1>1, <2>4
    <3> QED BY ONLY <2>2, <2>4, <3>1
  <2> QED BY ONLY <2>3, <2>4
<1>5. ASSUME NEW i \in 1 .. l
      PROVE  rest[i] \in Seq(Slices) /\ (Among(rest[i], s) <=> rs[i].length # 0 /\ s = RuleSlice(p, rs[i]))
  <2>1. PICK y : y = RuleSlice(p, rs[i])
    OBVIOUS
  <2>2. (Among(<<y>>, s) <=> s = y) /\ ~Among(<<>>, s)
    BY AmongOne
  <2>3. CASE rs[i].length = 0
    <3>1. rest[i] = <<>> /\ <<>> \in Seq(Slices)
      BY ONLY <1>1, <2>3, i \in 1 .. l
    <3> QED BY ONLY <2>2, <2>3, <3>1
  <2>4. CASE rs[i].length # 0
    <3>1. y \in Slices
      BY <2>1, <2>4
    <3>2. rest[i] = <<y>>
      BY ONLY <1>1, <2>1, <2>4, i \in 1 .. l
    <3> QED BY ONLY <2>1, <2>2, <2>4, <3>1, <3>2
  <2> QED BY ONLY <2>3, <2>4
<1>6. rest \in Seq(Seq(Slices)) /\ Len(rest) = l
  <2>1. rest = [i \in 1 .. l |-> rest[i]]
    BY ONLY <1>1
  <2>2. \A i \in 1 .. l : rest[i] \in Seq(Slices)
    BY ONLY <1>5
  <2> QED BY ONLY <2>1, <2>2, l \in Nat, IsSequence
<1>7. PICK flat : flat = FlattenSeq(rest)
  OBVIOUS
<1>8. flat \in Seq(Slices) /\ (Among(flat, s) <=> \E i \in 1 .. l : Among(rest[i], s))
  BY ONLY <1>6, <1>7, l \in Nat, AmongFlattened
<1>9. PICK u : u = first \o date
  OBVIOUS
<1>10. u \in Seq(Slices) /\ (Among(u, s) <=> Among(first, s) \/ Among(date, s))
  <2>1. u \in Seq(Slices)
    BY ONLY <1>3, <1>4, <1>9
  <2> QED BY ONLY <1>3, <1>4, <1>9, <2>1, AmongBoth
<1>11. PICK v : v = u \o flat
  OBVIOUS
<1>12. v \in Seq(Slices) /\ (Among(v, s) <=> Among(u, s) \/ Among(flat, s))
  <2>1. v \in Seq(Slices)
    BY ONLY <1>8, <1>10, <1>11
  <2> QED BY ONLY <1>8, <1>10, <1>11, <2>1, AmongBoth
<1>13. reveals(p, rs) = v
  BY ONLY <1>2, <1>7, <1>9, <1>11
<1>14. Among(v, s) <=> \/ s = Slice(0, p.statusLineEndIndex)
                       \/ Date \in DOMAIN p.headers /\ s = Slice(p.headers[Date].fromIndex, p.headers[Date].toIndex)
                       \/ \E i \in 1 .. l : rs[i].length # 0 /\ s = RuleSlice(p, rs[i])
  BY ONLY <1>3, <1>4, <1>5, <1>8, <1>10, <1>12
<1> QED BY ONLY <1>12, <1>13, <1>14, l = Len(rs) DEF IsReveal

\* Where the rules select something of the response.
Selection(r, m, n, p, rs) ==
  /\ rs \in Rules /\ rs # <<>>
  /\ MessageHolds(r, m) /\ Parsed(r, n, p) /\ n \in Nat /\ n <= Len(m) /\ p.bodyStartIndex >= 4
  /\ \A i \in 1 .. Len(rs) : rs[i].from + rs[i].length <= Len(p.body)

\* What a rule selects is a slice of the body.
LEMMA RuleSliceIs ==
  ASSUME NEW r \in Responses, NEW m, NEW n, NEW p, NEW rs, Selection(r, m, n, p, rs),
         NEW i \in 1 .. Len(rs), NEW a, a = RuleSlice(p, rs[i])
  PROVE  /\ a \in Slices /\ rs[i].from \in Nat /\ rs[i].length \in Nat
         /\ ConvertsTo(r, m, n, rs[i].from, a.fromIndex)
         /\ ConvertsTo(r, m, n, rs[i].from + rs[i].length, a.toIndex)
         /\ rs[i].from \in 0 .. Len(p.body) /\ rs[i].from + rs[i].length \in 0 .. Len(p.body)
<1>1. rs[i] \in [from : Nat, length : Nat]
  <2>1. PICK R : R = [from : Nat, length : Nat]
    OBVIOUS
  <2>2. rs \in Seq(R)
    BY <2>1, ResponseAssumption DEF Selection
  <2>3. rs[i] \in R
    BY ONLY <2>2, i \in 1 .. Len(rs)
  <2> QED BY ONLY <2>1, <2>3
<1>2. PICK f, l, e : f = rs[i].from /\ l = rs[i].length /\ e = Len(p.body)
  OBVIOUS
<1>3. f \in Nat /\ l \in Nat
  BY <1>1, <1>2
<1>4. f + l <= e
  BY <1>2 DEF Selection
<1>5. e \in Nat
  <2>1. Parsed(r, n, p) /\ n \in Nat
    BY DEF Selection
  <2>2. CASE r.framing # "chunked"
    <3>1. e = n - BodyStart(r) /\ BodyStart(r) <= n
      BY ONLY <1>2, <2>1, <2>2 DEF Parsed
    <3>2. PICK s : s = BodyStart(r)
      OBVIOUS
    <3>3. s \in Nat
      BY <3>2, PlacesAre
    <3> QED BY ONLY <2>1, <3>1, <3>2, <3>3
  <2>3. CASE r.framing = "chunked"
    <3>1. PICK k : k = Len(r.sizes)
      OBVIOUS
    <3>2. k \in Nat
      BY <3>1, ResponseIs
    <3>3. ChunkPlaces(r, k)
      BY <2>3, <3>1, <3>2, ChunksAt
    <3>4. PICK j \in 0 .. k : ChunkedTo(r, n, p, j)
      BY ONLY <2>1, <2>3, <3>1 DEF Parsed
    <3>5. j + 1 \in 1 .. k + 2
      BY ONLY <3>2, j \in 0 .. k
    <3>6. Before(r, j + 1) \in Nat
      BY ONLY <3>3, <3>5 DEF ChunkPlaces
    <3> QED BY ONLY <1>2, <3>4, <3>6 DEF ChunkedTo
  <2> QED BY ONLY <2>2, <2>3
<1>6. f \in 0 .. e /\ f + l \in 0 .. e
  BY ONLY <1>3, <1>4, <1>5
<1>7. PICK c, d : c = convertResponsePosToAbsolutePos(p, f) /\ d = convertResponsePosToAbsolutePos(p, f + l)
  OBVIOUS
<1>8. MessageHolds(r, m) /\ n \in Nat /\ Parsed(r, n, p) /\ p.bodyStartIndex >= 4
  BY DEF Selection
<1>9. ConvertsTo(r, m, n, f, c)
  BY <1>2, <1>6, <1>7, <1>8, Converted
<1>10. ConvertsTo(r, m, n, f + l, d)
  BY <1>2, <1>6, <1>7, <1>8, Converted
<1>11. a = Slice(c, d) /\ a.fromIndex = c /\ a.toIndex = d
  BY ONLY <1>2, <1>7, a = RuleSlice(p, rs[i]), SliceIs DEF RuleSlice
<1>12. a \in Slices
  BY ONLY <1>9, <1>10, <1>11, SliceIs DEF ConvertsTo
<1> QED BY ONLY <1>2, <1>3, <1>6, <1>9, <1>10, <1>11, <1>12

\* The status line, the date or what a rule selects.
IsStatusSlice(s) == s.fromIndex = 0 /\ s.toIndex = 1
IsDateSlice(r, s, i) == i \in 1 .. Len(r.head) /\ r.head[i] = Date /\ s.fromIndex = 3 * i /\ s.toIndex = 3 * i + 1
IsRuleSlice(p, rs, s, i) == i \in 1 .. Len(rs) /\ rs[i].length # 0 /\ s = RuleSlice(p, rs[i])

\* The header lines are before the body.
LEMMA HeadIsBefore ==
  ASSUME NEW r \in Responses, NEW i \in 1 .. Len(r.head)
  PROVE  i \in Nat /\ 1 <= i /\ 3 * i + 3 <= BodyStart(r) /\ BodyStart(r) \in Nat
<1>1. PICK s, h : s = BodyStart(r) /\ h = Len(r.head)
  OBVIOUS
<1>2. s \in Nat /\ h \in Nat
  BY <1>1, PlacesAre, ResponseIs
<1>3. s >= 3 * h + 3
  <2>1. PICK f, w : f = FramingAt(r) /\ w = FrameWidth(r)
    OBVIOUS
  <2>2. f = 3 * (h + 1) /\ w \in Nat /\ s = f + w + 2
    BY <1>1, <2>1, PlacesAre DEF FramingAt
  <2> QED BY ONLY <1>2, <2>2
<1>4. i \in 1 .. h
  BY <1>1
<1>5. i \in Nat /\ 1 <= i /\ 3 * i + 3 <= s
  BY ONLY <1>2, <1>3, <1>4
<1> QED BY ONLY <1>1, <1>2, <1>5

\* The body starts after the status line.
LEMMA StartIsPositive ==
  ASSUME NEW r \in Responses
  PROVE  BodyStart(r) \in Nat /\ BodyStart(r) >= 3
<1>1. PICK s, h, f, w : s = BodyStart(r) /\ h = Len(r.head) /\ f = FramingAt(r) /\ w = FrameWidth(r)
  OBVIOUS
<1>2. s \in Nat /\ h \in Nat
  BY <1>1, PlacesAre, ResponseIs
<1>3. f = 3 * (h + 1) /\ w \in Nat /\ s = f + w + 2
  BY <1>1, PlacesAre DEF FramingAt
<1> QED BY ONLY <1>1, <1>2, <1>3

\* What is revealed is one of the three.
LEMMA RevealKinds ==
  ASSUME NEW r \in Responses, NEW m, NEW n, NEW p, NEW rs, Selection(r, m, n, p, rs)
  PROVE  /\ reveals(p, rs) \in Seq(Slices)
         /\ \A s : Among(reveals(p, rs), s) <=> IsReveal(p, rs, s)
         /\ \A s : IsReveal(p, rs, s) => \/ IsStatusSlice(s)
                                         \/ \E i : IsDateSlice(r, s, i)
                                         \/ \E i : IsRuleSlice(p, rs, s, i)
<1>1. PastTop(r, p) /\ p.statusLineEndIndex = 1
  BY DEF Selection, Parsed, PastTop
<1>2. ASSUME Date \in DOMAIN p.headers
      PROVE  \E i \in 1 .. Len(r.head) :
               /\ r.head[i] = Date /\ p.headers[Date].fromIndex = 3 * i /\ p.headers[Date].toIndex = 3 * i + 1
  BY <1>1, <1>2, DateKnown
<1>3. PICK l : l = Len(rs)
  OBVIOUS
<1>4. l \in Nat
  <2>1. PICK R : R = [from : Nat, length : Nat]
    OBVIOUS
  <2>2. rs \in Seq(R)
    BY <2>1, ResponseAssumption DEF Selection
  <2> QED BY ONLY <1>3, <2>2
<1>5. \A i \in 1 .. l : rs[i].length # 0 => RuleSlice(p, rs[i]) \in Slices
  BY <1>3, RuleSliceIs
<1>6. Date \in DOMAIN p.headers => p.headers[Date].fromIndex \in Nat /\ p.headers[Date].toIndex \in Nat
  <2> SUFFICES ASSUME Date \in DOMAIN p.headers
               PROVE  p.headers[Date].fromIndex \in Nat /\ p.headers[Date].toIndex \in Nat
    OBVIOUS
  <2>1. PICK i \in 1 .. Len(r.head) : p.headers[Date].fromIndex = 3 * i /\ p.headers[Date].toIndex = 3 * i + 1
    BY <1>2
  <2>2. i \in Nat
    BY HeadIsBefore
  <2>3. 3 * i \in Nat /\ 3 * i + 1 \in Nat
    BY ONLY <2>2
  <2> QED BY ONLY <2>1, <2>3
<1>7. ASSUME NEW s
      PROVE  reveals(p, rs) \in Seq(Slices) /\ (Among(reveals(p, rs), s) <=> IsReveal(p, rs, s))
  <2>1. p.statusLineEndIndex \in Nat
    BY ONLY <1>1
  <2> QED BY <1>3, <1>4, <1>5, <1>6, <2>1, RevealsAre
<1>8. ASSUME NEW s, IsReveal(p, rs, s)
      PROVE  IsStatusSlice(s) \/ (\E i : IsDateSlice(r, s, i)) \/ (\E i : IsRuleSlice(p, rs, s, i))
  <2>1. CASE s = Slice(0, p.statusLineEndIndex)
    BY ONLY <1>1, <2>1, SliceIs DEF IsStatusSlice
  <2>2. CASE Date \in DOMAIN p.headers /\ s = Slice(p.headers[Date].fromIndex, p.headers[Date].toIndex)
    <3>1. PICK i \in 1 .. Len(r.head) :
            /\ r.head[i] = Date /\ p.headers[Date].fromIndex = 3 * i /\ p.headers[Date].toIndex = 3 * i + 1
      BY <1>2, <2>2
    <3>2. s.fromIndex = 3 * i /\ s.toIndex = 3 * i + 1
      BY ONLY <2>2, <3>1, SliceIs
    <3> QED BY ONLY <3>1, <3>2, i \in 1 .. Len(r.head) DEF IsDateSlice
  <2>3. CASE \E i \in 1 .. Len(rs) : rs[i].length # 0 /\ s = RuleSlice(p, rs[i])
    BY ONLY <2>3 DEF IsRuleSlice
  <2> QED BY ONLY <1>8, <2>1, <2>2, <2>3 DEF IsReveal
<1>9. reveals(p, rs) \in Seq(Slices)
  BY ONLY <1>7
<1>10. \A s : Among(reveals(p, rs), s) <=> IsReveal(p, rs, s)
  BY ONLY <1>7
<1>11. \A s : IsReveal(p, rs, s) => \/ IsStatusSlice(s)
                                    \/ \E i : IsDateSlice(r, s, i)
                                    \/ \E i : IsRuleSlice(p, rs, s, i)
  BY ONLY <1>8
<1> QED BY ONLY <1>9, <1>10, <1>11

\* The slice of a rule holds bytes of the body, and of these those that it selects.
LEMMA RuleSliceHolds ==
  ASSUME NEW r \in Responses, NEW m, NEW n, NEW p, NEW rs, Selection(r, m, n, p, rs),
         NEW s, NEW i, IsRuleSlice(p, rs, s, i), NEW x \in Nat, x + 1 <= Len(m)
  PROVE  /\ InSlice(s, x) => BodyStart(r) <= x /\ x < n
         /\ m[x + 1].part = "body" =>
              (InSlice(s, x) <=> m[x + 1].nth \in rs[i].from + 1 .. rs[i].from + rs[i].length)
<1>1. i \in 1 .. Len(rs) /\ s = RuleSlice(p, rs[i])
  BY DEF IsRuleSlice
<1>2. PICK f, l, c, d, b, e, k : /\ f = rs[i].from /\ l = rs[i].length /\ c = s.fromIndex /\ d = s.toIndex
                                 /\ b = BodyStart(r) /\ e = Len(m) /\ k = x + 1
  OBVIOUS
<1>3. f \in Nat /\ l \in Nat /\ ConvertsTo(r, m, n, f, c) /\ ConvertsTo(r, m, n, f + l, d)
  BY <1>1, <1>2, RuleSliceIs
<1>4. c \in Nat /\ d \in Nat /\ b <= c /\ d <= n
  BY ONLY <1>2, <1>3 DEF ConvertsTo
<1>5. b \in Nat /\ n \in Nat
  BY <1>2, StartIsPositive DEF Selection
<1>6. InSlice(s, x) <=> c <= x /\ x < d
  BY ONLY <1>2 DEF InSlice
<1>7. InSlice(s, x) => b <= x /\ x < n
  BY ONLY <1>4, <1>5, <1>6, x \in Nat
<1>8. ASSUME m[k].part = "body" PROVE InSlice(s, x) <=> m[k].nth \in f + 1 .. f + l
  <2>1. m \in Seq(Piece)
    BY DEF Selection, MessageHolds
  <2>2. e \in Nat /\ k \in 1 .. e
    BY <1>2, <2>1
  <2>3. PICK v : v = m[k].nth
    OBVIOUS
  <2>4. v \in Nat
    <3>1. m[k] \in Piece
      BY ONLY <1>2, <2>1, <2>2
    <3> QED BY ONLY <2>3, <3>1 DEF Piece
  <2>5. v <= f <=> k <= c
    BY ONLY <1>2, <1>3, <1>8, <2>2, <2>3 DEF ConvertsTo
  <2>6. v <= f + l <=> k <= d
    BY ONLY <1>2, <1>3, <1>8, <2>2, <2>3 DEF ConvertsTo
  <2>7. v \in f + 1 .. f + l <=> c <= x /\ x < d
    BY ONLY <1>2, <1>3, <1>4, <2>4, <2>5, <2>6, x \in Nat
  <2> QED BY ONLY <1>6, <2>3, <2>7
<1> QED BY ONLY <1>2, <1>7, <1>8

\* No slice is empty, and that of the date is before those of the rules.
LEMMA RuleSliceIsWide ==
  ASSUME NEW r \in Responses, NEW m, NEW n, NEW p, NEW rs, Selection(r, m, n, p, rs),
         NEW s, NEW i, IsRuleSlice(p, rs, s, i)
  PROVE  /\ s.fromIndex \in Nat /\ s.toIndex \in Nat
         /\ BodyStart(r) <= s.fromIndex /\ s.fromIndex < s.toIndex
<1>1. i \in 1 .. Len(rs) /\ rs[i].length # 0 /\ s = RuleSlice(p, rs[i])
  BY DEF IsRuleSlice
<1>2. PICK f, l, c, d : f = rs[i].from /\ l = rs[i].length /\ c = s.fromIndex /\ d = s.toIndex
  OBVIOUS
<1>3. /\ f \in Nat /\ l \in Nat /\ ConvertsTo(r, m, n, f, c) /\ ConvertsTo(r, m, n, f + l, d)
      /\ f \in 0 .. Len(p.body) /\ f + l \in 0 .. Len(p.body)
  BY <1>1, <1>2, RuleSliceIs
<1>4. c \in Nat /\ d \in Nat /\ BodyStart(r) <= c
  BY ONLY <1>3 DEF ConvertsTo
<1>5. c = convertResponsePosToAbsolutePos(p, f) /\ d = convertResponsePosToAbsolutePos(p, f + l)
  BY ONLY <1>1, <1>2, SliceIs DEF RuleSlice
<1>6. f < f + l
  BY ONLY <1>1, <1>2, <1>3
<1>7. MessageHolds(r, m) /\ n \in Nat /\ Parsed(r, n, p) /\ p.bodyStartIndex >= 4
  BY DEF Selection
<1>8. PICK g : g = f + l
  OBVIOUS
<1>9. c < d
  <2>1. g \in 0 .. Len(p.body) /\ d = convertResponsePosToAbsolutePos(p, g) /\ f < g
    BY ONLY <1>3, <1>5, <1>6, <1>8
  <2> QED BY <1>3, <1>5, <1>7, <2>1, ConvertedAscend
<1> QED BY ONLY <1>2, <1>4, <1>9

\* Rules that do not nest select slices that start in the order in which they end.
NotNestedIn(rs) ==
  \A i, j \in DOMAIN rs : rs[i].from < rs[j].from /\ rs[j].length > 0 =>
    rs[i].from + rs[i].length < rs[j].from + rs[j].length

\* For the slices of two rules.
LEMMA RuleSlicesAgree ==
  ASSUME NEW r \in Responses, NEW m, NEW n, NEW p, NEW rs, Selection(r, m, n, p, rs), NotNestedIn(rs),
         NEW s, NEW i, IsRuleSlice(p, rs, s, i), NEW t, NEW j, IsRuleSlice(p, rs, t, j), s.toIndex <= t.toIndex
  PROVE  s.fromIndex <= t.fromIndex
<1>1. /\ i \in 1 .. Len(rs) /\ rs[i].length # 0 /\ s = RuleSlice(p, rs[i])
      /\ j \in 1 .. Len(rs) /\ rs[j].length # 0 /\ t = RuleSlice(p, rs[j])
  BY DEF IsRuleSlice
<1>2. PICK f, g, c, d : f = rs[i].from /\ g = f + rs[i].length /\ c = s.fromIndex /\ d = s.toIndex
  OBVIOUS
<1>3. PICK f2, g2, c2, d2 : f2 = rs[j].from /\ g2 = f2 + rs[j].length /\ c2 = t.fromIndex /\ d2 = t.toIndex
  OBVIOUS
<1>4. /\ f \in Nat /\ rs[i].length \in Nat /\ ConvertsTo(r, m, n, f, c) /\ ConvertsTo(r, m, n, g, d)
      /\ f \in 0 .. Len(p.body) /\ g \in 0 .. Len(p.body)
  BY <1>1, <1>2, RuleSliceIs
<1>5. /\ f2 \in Nat /\ rs[j].length \in Nat /\ ConvertsTo(r, m, n, f2, c2) /\ ConvertsTo(r, m, n, g2, d2)
      /\ f2 \in 0 .. Len(p.body) /\ g2 \in 0 .. Len(p.body)
  BY <1>1, <1>3, RuleSliceIs
<1>6. c = convertResponsePosToAbsolutePos(p, f) /\ d = convertResponsePosToAbsolutePos(p, g)
  BY ONLY <1>1, <1>2, SliceIs DEF RuleSlice
<1>7. c2 = convertResponsePosToAbsolutePos(p, f2) /\ d2 = convertResponsePosToAbsolutePos(p, g2)
  BY ONLY <1>1, <1>3, SliceIs DEF RuleSlice
<1>8. MessageHolds(r, m) /\ n \in Nat /\ Parsed(r, n, p) /\ p.bodyStartIndex >= 4
  BY DEF Selection
<1>9. c \in Nat /\ d \in Nat /\ c2 \in Nat /\ d2 \in Nat /\ g \in Nat /\ g2 \in Nat
  BY ONLY <1>2, <1>3, <1>4, <1>5 DEF ConvertsTo
<1>10. d <= d2
  BY ONLY <1>2, <1>3, s.toIndex <= t.toIndex
<1>11. ~(g2 < g)
  <2>1. g2 < g => d2 < d
    BY <1>4, <1>5, <1>6, <1>7, <1>8, ConvertedAscend
  <2> QED BY ONLY <1>9, <1>10, <2>1
<1>12. ~(f2 < f)
  <2>1. DOMAIN rs = 1 .. Len(rs)
    <3>1. PICK R : R = [from : Nat, length : Nat]
      OBVIOUS
    <3>2. rs \in Seq(R)
      BY <3>1, ResponseAssumption DEF Selection
    <3> QED BY ONLY <3>2
  <2>2. rs[i].length > 0
    BY ONLY <1>1, <1>4
  <2>3. f2 < f => g2 < g
    BY ONLY <1>1, <1>2, <1>3, <2>1, <2>2, NotNestedIn(rs) DEF NotNestedIn
  <2> QED BY ONLY <1>11, <2>3
<1>13. CASE f = f2
  <2>1. c = c2
    BY ONLY <1>6, <1>7, <1>13
  <2> QED BY ONLY <1>2, <1>3, <1>9, <2>1
<1>14. CASE f < f2
  <2>1. c < c2
    BY <1>4, <1>5, <1>6, <1>7, <1>8, <1>14, ConvertedAscend
  <2> QED BY ONLY <1>2, <1>3, <1>9, <2>1
<1> QED BY ONLY <1>4, <1>5, <1>12, <1>13, <1>14

\* For all that is revealed, the status line and the date being before the body.
LEMMA RevealsAgree ==
  ASSUME NEW r \in Responses, NEW m, NEW n, NEW p, NEW rs, Selection(r, m, n, p, rs), NotNestedIn(rs)
  PROVE  Agree(reveals(p, rs))
<1> SUFFICES ASSUME NEW s, NEW t, Among(reveals(p, rs), s), Among(reveals(p, rs), t), s.toIndex <= t.toIndex
             PROVE  s.fromIndex <= t.fromIndex
  BY DEF Agree
<1>1. /\ IsStatusSlice(s) \/ (\E i : IsDateSlice(r, s, i)) \/ (\E i : IsRuleSlice(p, rs, s, i))
      /\ IsStatusSlice(t) \/ (\E i : IsDateSlice(r, t, i)) \/ (\E i : IsRuleSlice(p, rs, t, i))
  BY RevealKinds
<1>2. PICK b : b = BodyStart(r)
  OBVIOUS
<1>3. b \in Nat /\ b >= 3
  BY <1>2, StartIsPositive
<1>4. PICK c, d, c2, d2 : c = s.fromIndex /\ d = s.toIndex /\ c2 = t.fromIndex /\ d2 = t.toIndex
  OBVIOUS
<1>5. d <= d2
  BY ONLY <1>4, s.toIndex <= t.toIndex
<1>6. \A i : IsDateSlice(r, s, i) => i \in Nat /\ 1 <= i /\ 3 * i + 3 <= b /\ c = 3 * i /\ d = 3 * i + 1
  <2> SUFFICES ASSUME NEW i, IsDateSlice(r, s, i)
               PROVE  i \in Nat /\ 1 <= i /\ 3 * i + 3 <= b /\ c = 3 * i /\ d = 3 * i + 1
    OBVIOUS
  <2>1. i \in 1 .. Len(r.head) /\ c = 3 * i /\ d = 3 * i + 1
    BY ONLY <1>4, IsDateSlice(r, s, i) DEF IsDateSlice
  <2>2. i \in Nat /\ 1 <= i /\ 3 * i + 3 <= BodyStart(r)
    BY <2>1, HeadIsBefore
  <2> QED BY ONLY <1>2, <2>1, <2>2
<1>7. \A i : IsDateSlice(r, t, i) => i \in Nat /\ 1 <= i /\ 3 * i + 3 <= b /\ c2 = 3 * i /\ d2 = 3 * i + 1
  <2> SUFFICES ASSUME NEW i, IsDateSlice(r, t, i)
               PROVE  i \in Nat /\ 1 <= i /\ 3 * i + 3 <= b /\ c2 = 3 * i /\ d2 = 3 * i + 1
    OBVIOUS
  <2>1. i \in 1 .. Len(r.head) /\ c2 = 3 * i /\ d2 = 3 * i + 1
    BY ONLY <1>4, IsDateSlice(r, t, i) DEF IsDateSlice
  <2>2. i \in Nat /\ 1 <= i /\ 3 * i + 3 <= BodyStart(r)
    BY <2>1, HeadIsBefore
  <2> QED BY ONLY <1>2, <2>1, <2>2
<1>8. \A i : IsRuleSlice(p, rs, s, i) => c \in Nat /\ d \in Nat /\ b <= c /\ c < d
  BY <1>2, <1>4, RuleSliceIsWide
<1>9. \A i : IsRuleSlice(p, rs, t, i) => c2 \in Nat /\ d2 \in Nat /\ b <= c2 /\ c2 < d2
  BY <1>2, <1>4, RuleSliceIsWide
<1>10. CASE IsStatusSlice(s)
  <2>1. c = 0
    BY ONLY <1>4, <1>10 DEF IsStatusSlice
  <2>2. CASE IsStatusSlice(t)
    <3>1. c2 = 0
      BY ONLY <1>4, <2>2 DEF IsStatusSlice
    <3> QED BY ONLY <1>4, <2>1, <3>1
  <2>3. CASE \E i : IsDateSlice(r, t, i)
    <3>1. PICK i \in Nat : c2 = 3 * i
      BY ONLY <1>7, <2>3
    <3> QED BY ONLY <1>4, <2>1, <3>1, i \in Nat
  <2>4. CASE \E i : IsRuleSlice(p, rs, t, i)
    BY ONLY <1>4, <1>9, <2>1, <2>4
  <2> QED BY ONLY <1>1, <2>2, <2>3, <2>4
<1>11. CASE \E i : IsDateSlice(r, s, i)
  <2>1. PICK i \in Nat : 1 <= i /\ 3 * i + 3 <= b /\ c = 3 * i /\ d = 3 * i + 1
    BY ONLY <1>6, <1>11
  <2>2. CASE IsStatusSlice(t)
    <3>1. d2 = 1
      BY ONLY <1>4, <2>2 DEF IsStatusSlice
    <3> QED BY ONLY <1>5, <2>1, <3>1, i \in Nat
  <2>3. CASE \E j : IsDateSlice(r, t, j)
    <3>1. PICK j \in Nat : c2 = 3 * j /\ d2 = 3 * j + 1
      BY ONLY <1>7, <2>3
    <3> QED BY ONLY <1>4, <1>5, <2>1, <3>1, i \in Nat, j \in Nat
  <2>4. CASE \E j : IsRuleSlice(p, rs, t, j)
    <3>1. c2 \in Nat /\ b <= c2
      BY ONLY <1>9, <2>4
    <3> QED BY ONLY <1>3, <1>4, <2>1, <3>1, i \in Nat
  <2> QED BY ONLY <1>1, <2>2, <2>3, <2>4
<1>12. CASE \E i : IsRuleSlice(p, rs, s, i)
  <2>1. c \in Nat /\ d \in Nat /\ b <= c /\ c < d
    BY ONLY <1>8, <1>12
  <2>2. CASE IsStatusSlice(t)
    <3>1. d2 = 1
      BY ONLY <1>4, <2>2 DEF IsStatusSlice
    <3> QED BY ONLY <1>3, <1>5, <2>1, <3>1
  <2>3. CASE \E j : IsDateSlice(r, t, j)
    <3>1. PICK j \in Nat : 3 * j + 3 <= b /\ d2 = 3 * j + 1
      BY ONLY <1>7, <2>3
    <3> QED BY ONLY <1>3, <1>5, <2>1, <3>1, j \in Nat
  <2>4. CASE \E j : IsRuleSlice(p, rs, t, j)
    BY <1>12, <2>4, RuleSlicesAgree
  <2> QED BY ONLY <1>1, <2>2, <2>3, <2>4
<1> QED BY ONLY <1>1, <1>10, <1>11, <1>12

\* With a rule that selects something there are two slices at least.
LEMMA RevealsTwo ==
  ASSUME NEW r \in Responses, NEW m, NEW n, NEW p, NEW rs, Selection(r, m, n, p, rs),
         NEW i \in 1 .. Len(rs), rs[i].length > 0
  PROVE  Len(reveals(p, rs)) >= 2
<1>1. PICK v : v = reveals(p, rs)
  OBVIOUS
<1>2. PICK y, z : y = Slice(0, p.statusLineEndIndex) /\ z = RuleSlice(p, rs[i])
  OBVIOUS
<1>3. p.statusLineEndIndex = 1
  BY DEF Selection, Parsed, PastTop
<1>4. rs[i].length # 0
  <2>1. rs[i].length \in Nat
    BY RuleSliceIs
  <2> QED BY ONLY <2>1, rs[i].length > 0
<1>5. v \in Seq(Slices) /\ Among(v, y) /\ Among(v, z)
  <2>1. IsReveal(p, rs, y)
    BY ONLY <1>2 DEF IsReveal
  <2>2. IsReveal(p, rs, z)
    BY ONLY <1>2, <1>4, i \in 1 .. Len(rs) DEF IsReveal
  <2> QED BY <1>1, <2>1, <2>2, RevealKinds
<1>6. y # z
  <2>1. y.fromIndex = 0
    BY ONLY <1>2, SliceIs
  <2>2. IsRuleSlice(p, rs, z, i)
    BY ONLY <1>2, <1>4, i \in 1 .. Len(rs) DEF IsRuleSlice
  <2>3. z.fromIndex \in Nat /\ BodyStart(r) <= z.fromIndex
    BY <2>2, RuleSliceIsWide
  <2>4. PICK b, c : b = BodyStart(r) /\ c = z.fromIndex
    OBVIOUS
  <2>5. b \in Nat /\ b >= 3
    BY <2>4, StartIsPositive
  <2>6. c # 0
    BY ONLY <2>3, <2>4, <2>5
  <2> QED BY ONLY <2>1, <2>4, <2>6
<1>7. Len(v) \in Nat
  BY ONLY <1>5
<1>8. PICK k, l \in 1 .. Len(v) : v[k] = y /\ v[l] = z
  BY ONLY <1>5 DEF Among
<1>9. k # l
  BY ONLY <1>6, <1>8
<1>10. Len(v) >= 2
  BY ONLY <1>7, <1>9, k \in 1 .. Len(v), l \in 1 .. Len(v)
<1> QED BY ONLY <1>1, <1>10

\* What no redaction holds is of the status line, the date or what a rule selects.
LEMMA SeenIsRevealed ==
  ASSUME NEW r \in Responses, NEW m, NEW n, NEW p, NEW rs, Selection(r, m, n, p, rs),
         \E i \in 1 .. Len(rs) : rs[i].length > 0,
         NEW x \in Nat, x < n, x \notin Positions(gaps(reveals(p, rs), n))
  PROVE  /\ m[x + 1].part # "header"
         /\ m[x + 1].part = "body" =>
              \E i \in 1 .. Len(rs) : m[x + 1].nth \in rs[i].from + 1 .. rs[i].from + rs[i].length
<1>1. reveals(p, rs) \in Seq(Slices) /\ Len(reveals(p, rs)) >= 2 /\ n \in Nat
  BY RevealKinds, RevealsTwo DEF Selection
<1>2. PICK s : Among(reveals(p, rs), s) /\ InSlice(s, x)
  BY <1>1, GapsHide
<1>3. IsStatusSlice(s) \/ (\E i : IsDateSlice(r, s, i)) \/ (\E i : IsRuleSlice(p, rs, s, i))
  BY <1>2, RevealKinds
<1>4. m \in Seq(Piece) /\ MessageHolds(r, m) /\ n <= Len(m)
  BY DEF Selection, MessageHolds
<1>5. Len(m) \in Nat
  BY ONLY <1>4
<1>6. PICK k : k = x + 1
  OBVIOUS
<1>7. k \in Nat /\ 1 <= k /\ k <= Len(m)
  BY ONLY <1>1, <1>4, <1>5, <1>6, x \in Nat, x < n
<1>8. /\ m[k].part = "status" <=> k = 1
      /\ m[k].part = "date" <=> IsDate(r, k)
      /\ m[k].part = "header" => k <= BodyStart(r)
  BY <1>4, <1>7, PartsAre
<1>9. s.fromIndex <= x /\ x < s.toIndex
  BY ONLY <1>2 DEF InSlice
<1>10. CASE IsStatusSlice(s)
  <2>1. k = 1
    BY ONLY <1>6, <1>9, <1>10, x \in Nat DEF IsStatusSlice
  <2> QED BY ONLY <1>6, <1>8, <2>1
<1>11. CASE \E i : IsDateSlice(r, s, i)
  <2>1. PICK i : IsDateSlice(r, s, i)
    BY <1>11
  <2>2. i \in 1 .. Len(r.head) /\ r.head[i] = Date /\ s.fromIndex = 3 * i /\ s.toIndex = 3 * i + 1
    BY ONLY <2>1 DEF IsDateSlice
  <2>3. i \in Nat
    BY <2>2, HeadIsBefore
  <2>4. k = 3 * i + 1
    BY ONLY <1>6, <1>9, <2>2, <2>3, x \in Nat
  <2>5. IsDate(r, k)
    BY ONLY <2>2, <2>4 DEF IsDate
  <2> QED BY ONLY <1>6, <1>8, <2>5
<1>12. CASE \E i : IsRuleSlice(p, rs, s, i)
  <2>1. PICK i : IsRuleSlice(p, rs, s, i)
    BY <1>12
  <2>2. i \in 1 .. Len(rs)
    BY ONLY <2>1 DEF IsRuleSlice
  <2>3. x + 1 <= Len(m)
    BY ONLY <1>6, <1>7
  <2>4. /\ BodyStart(r) <= x
        /\ m[x + 1].part = "body" => m[x + 1].nth \in rs[i].from + 1 .. rs[i].from + rs[i].length
    BY <1>2, <2>1, <2>3, RuleSliceHolds
  <2>5. ~(k <= BodyStart(r))
    <3>1. PICK b : b = BodyStart(r)
      OBVIOUS
    <3>2. b \in Nat
      BY <3>1, StartIsPositive
    <3> QED BY ONLY <1>6, <2>4, <3>1, <3>2, x \in Nat
  <2> QED BY ONLY <1>6, <1>8, <2>2, <2>4, <2>5
<1> QED BY ONLY <1>3, <1>10, <1>11, <1>12

\* No redaction holds a byte of what is revealed, if the rules do not nest.
LEMMA RevealedIsSeen ==
  ASSUME NEW r \in Responses, NEW m, NEW n, NEW p, NEW rs, Selection(r, m, n, p, rs), NotNestedIn(rs),
         NEW x \in Nat, NEW s, IsReveal(p, rs, s), InSlice(s, x)
  PROVE  x \notin Positions(gaps(reveals(p, rs), n))
<1>1. PICK v : v = reveals(p, rs)
  OBVIOUS
<1>2. v \in Seq(Slices) /\ Among(v, s) /\ Agree(v) /\ n \in Nat
  BY <1>1, RevealKinds, RevealsAgree DEF Selection
<1>3. CASE Len(v) >= 2
  BY <1>1, <1>2, <1>3, GapsReveal
<1>4. CASE ~(Len(v) >= 2)
  <2>1. Len(v) \in Nat
    BY ONLY <1>2
  <2>2. Len(v) <= 1
    BY ONLY <1>4, <2>1
  <2>3. gaps(v, n) = <<>>
    BY ONLY <2>2 DEF gaps
  <2>4. Positions(<<>>) = {}
    BY DEF Positions
  <2> QED BY <1>1, <2>3, <2>4
<1> QED BY ONLY <1>3, <1>4

\* What is revealed is the status line, the date, and all that the rules select.
LEMMA RevealedIs ==
  ASSUME NEW r \in Responses, NEW m, NEW n, NEW p, NEW rs, Selection(r, m, n, p, rs),
         NEW x \in Nat, x + 1 <= Len(m),
         \/ m[x + 1].part \in {"status", "date"}
         \/ /\ m[x + 1].part = "body"
            /\ \E i \in 1 .. Len(rs) : m[x + 1].nth \in rs[i].from + 1 .. rs[i].from + rs[i].length
  PROVE  x < n /\ \E s : IsReveal(p, rs, s) /\ InSlice(s, x)
<1>1. PICK k, b : k = x + 1 /\ b = BodyStart(r)
  OBVIOUS
<1>2. b \in Nat /\ b >= 3
  BY <1>1, StartIsPositive
<1>3. n \in Nat /\ b <= n /\ MessageHolds(r, m) /\ PastTop(r, p) /\ p.statusLineEndIndex = 1
  BY <1>1 DEF Selection, Parsed, PastTop
<1>4. k \in Nat /\ 1 <= k /\ k <= Len(m)
  BY ONLY <1>1, x \in Nat, x + 1 <= Len(m)
<1>5. /\ m[k].part = "status" <=> k = 1
      /\ m[k].part = "date" <=> IsDate(r, k)
  BY <1>3, <1>4, PartsAre
<1>6. CASE m[k].part = "status"
  <2>1. x = 0
    BY ONLY <1>1, <1>5, <1>6, x \in Nat
  <2>2. PICK s : s = Slice(0, p.statusLineEndIndex)
    OBVIOUS
  <2>3. s.fromIndex = 0 /\ s.toIndex = 1
    BY ONLY <1>3, <2>2, SliceIs
  <2>4. InSlice(s, x)
    BY ONLY <2>1, <2>3 DEF InSlice
  <2>5. x < n
    BY ONLY <1>2, <1>3, <2>1
  <2> QED BY ONLY <2>2, <2>4, <2>5 DEF IsReveal
<1>7. CASE m[k].part = "date"
  <2>1. PICK i \in 1 .. Len(r.head) : k = 3 * i + 1 /\ r.head[i] = Date
    BY ONLY <1>5, <1>7 DEF IsDate
  <2>2. i \in Nat /\ 1 <= i /\ 3 * i + 3 <= b
    BY <1>1, HeadIsBefore
  <2>3. Date \in DOMAIN p.headers
    <3>1. PICK last, h, hs : last = LinesOf(r) /\ h = Len(r.head) /\ hs = p.headers
      OBVIOUS
    <3>2. last \in Nat /\ h \in Nat /\ last >= h + 1
      BY <3>1, TopEnds, ResponseIs
    <3>3. i \in 1 .. last - 1 /\ i # 0 /\ i <= h
      BY ONLY <3>1, <3>2, i \in 1 .. Len(r.head)
    <3>4. LineText(r, i) = <<r.head[i]>>
      BY ONLY <3>1, <3>3 DEF LineText
    <3>5. LineKey(r, i) = Date
      BY ONLY <2>1, <3>4 DEF LineKey
    <3>6. HeadersAre(r, last, hs)
      BY ONLY <1>3, <3>1 DEF PastTop
    <3>7. DOMAIN hs = Keys(r, last)
      <4>1. hs = [y \in Keys(r, last) |-> hs[y]]
        BY ONLY <3>6 DEF HeadersAre
      <4> QED BY ONLY <4>1
    <3>8. Date \in Keys(r, last)
      BY ONLY <3>3, <3>5 DEF Keys
    <3> QED BY ONLY <3>1, <3>7, <3>8
  <2>4. PICK j \in 1 .. Len(r.head) :
          /\ r.head[j] = Date /\ p.headers[Date].fromIndex = 3 * j /\ p.headers[Date].toIndex = 3 * j + 1
    BY <1>3, <2>3, DateKnown
  <2>5. i = j
    BY ONLY <2>1, <2>4, ResponseIs, r \in Responses, i \in 1 .. Len(r.head), j \in 1 .. Len(r.head)
  <2>6. PICK s : s = Slice(p.headers[Date].fromIndex, p.headers[Date].toIndex)
    OBVIOUS
  <2>7. s.fromIndex = 3 * i /\ s.toIndex = 3 * i + 1
    BY ONLY <2>4, <2>5, <2>6, SliceIs
  <2>8. s.fromIndex <= x /\ x < s.toIndex /\ x < n
    BY ONLY <1>1, <1>2, <1>3, <2>1, <2>2, <2>7, x \in Nat
  <2> QED BY ONLY <2>3, <2>6, <2>8 DEF IsReveal, InSlice
<1>8. CASE /\ m[k].part = "body"
           /\ \E i \in 1 .. Len(rs) : m[k].nth \in rs[i].from + 1 .. rs[i].from + rs[i].length
  <2>1. PICK i \in 1 .. Len(rs) : m[k].nth \in rs[i].from + 1 .. rs[i].from + rs[i].length
    BY ONLY <1>8
  <2>2. rs[i].from \in Nat /\ rs[i].length \in Nat
    BY RuleSliceIs
  <2>3. rs[i].length # 0
    BY ONLY <2>1, <2>2
  <2>4. PICK s : s = RuleSlice(p, rs[i])
    OBVIOUS
  <2>5. IsRuleSlice(p, rs, s, i)
    BY ONLY <2>3, <2>4, i \in 1 .. Len(rs) DEF IsRuleSlice
  <2>6. m[x + 1].part = "body" /\ m[x + 1].nth \in rs[i].from + 1 .. rs[i].from + rs[i].length
    BY ONLY <1>1, <1>8, <2>1
  <2>7. InSlice(s, x) /\ x < n
    BY <2>5, <2>6, RuleSliceHolds
  <2> QED BY ONLY <2>3, <2>4, <2>7, i \in 1 .. Len(rs) DEF IsReveal
<1>9. m[k].part \in {"status", "date"} => m[k].part = "status" \/ m[k].part = "date"
  OBVIOUS
<1> QED BY <1>1, <1>6, <1>7, <1>8, <1>9

-----------------------------------------------------------------------------
(* What the witness sees of a response.                                     *)

\* What the reachable states with rules have revealed.
LEMMA RevealedBy ==
  ASSUME ParserInv, RevealInv, pc = "revealed"
  PROVE  /\ response \in Responses /\ MessageHolds(response, message)
         /\ received \in Nat /\ received <= Len(message) /\ BodyStart(response) <= received
         /\ rules = <<>> => redactions = <<>>
         /\ rules # <<>> => /\ Selection(response, message, received, parser, rules)
                            /\ redactions = gaps(reveals(parser, rules), received)
<1>1. response \in Responses /\ Quiet(response, BytesOf(message), received, parser)
  BY DEF ParserInv
<1>2. MessageHolds(response, message)
  BY MessageIs DEF ParserInv
<1>3. message \in Seq(Piece)
  BY ONLY <1>2 DEF MessageHolds
<1>4. received \in Nat /\ received <= Len(message)
  BY <1>3 DEF ParserInv
<1>5. /\ isParsed(parser) /\ rules \in Rules /\ isSelected(parser, rules)
      /\ redactions = getResponseRedactions(parser, rules)
  BY DEF RevealInv
<1>6. Parsed(response, received, parser)
  BY <1>1, <1>2, <1>4, <1>5, ParsedIs
<1>7. BodyStart(response) <= received /\ parser.currentByteIdx = received
  BY ONLY <1>6 DEF Parsed
<1>8. rules = <<>> => redactions = <<>>
  BY ONLY <1>5 DEF getResponseRedactions
<1>9. ASSUME rules # <<>>
      PROVE  /\ Selection(response, message, received, parser, rules)
             /\ redactions = gaps(reveals(parser, rules), received)
  <2>1. redactions = gaps(reveals(parser, rules), received)
    BY ONLY <1>5, <1>7, <1>9 DEF getResponseRedactions
  <2>2. DOMAIN rules = 1 .. Len(rules)
    <3>1. PICK R : R = [from : Nat, length : Nat]
      OBVIOUS
    <3>2. rules \in Seq(R)
      BY <1>5, <3>1, ResponseAssumption
    <3> QED BY ONLY <3>2
  <2>3. parser.bodyStartIndex >= 4 /\ \A i \in 1 .. Len(rules) : rules[i].from + rules[i].length <= Len(parser.body)
    BY ONLY <1>5, <1>9, <2>2 DEF isSelected
  <2>4. Selection(response, message, received, parser, rules)
    BY ONLY <1>2, <1>4, <1>5, <1>6, <1>9, <2>3 DEF Selection
  <2> QED BY ONLY <2>1, <2>4
<1> QED BY ONLY <1>1, <1>2, <1>4, <1>7, <1>8, <1>9

\* Of the response the witness sees no header but the date, and of its body only what a rule selects.
THEOREM WitnessSeesNoMore == Spec => []HidesTheRest
<1>1. (hasPlainStream(response) => ParserInv /\ RevealInv) => HidesTheRest
  <2> SUFFICES ASSUME ParserInv, RevealInv, pc = "revealed", SelectsSomething
               PROVE  /\ Seen \cap PositionsOf("header") = {}
                      /\ Seen \cap PositionsOf("body") \subseteq UNION {Selected(rules[i]) : i \in DOMAIN rules}
    BY DEF HidesTheRest
  <2>1. /\ response \in Responses /\ received \in Nat /\ received <= Len(message)
        /\ rules # <<>> => /\ Selection(response, message, received, parser, rules)
                           /\ redactions = gaps(reveals(parser, rules), received)
    BY RevealedBy
  <2>2. rules # <<>>
    BY DEF SelectsSomething
  <2>3. DOMAIN rules = 1 .. Len(rules)
    <3>1. PICK R : R = [from : Nat, length : Nat]
      OBVIOUS
    <3>2. rules \in Seq(R)
      BY <2>1, <2>2, <3>1, ResponseAssumption DEF Selection
    <3> QED BY ONLY <3>2
  <2>4. \E i \in 1 .. Len(rules) : rules[i].length > 0
    BY <2>3 DEF SelectsSomething
  <2>5. ASSUME NEW x \in Seen
        PROVE  /\ x \in Nat /\ x < received
               /\ message[x + 1].part # "header"
               /\ message[x + 1].part = "body" =>
                    \E i \in 1 .. Len(rules) :
                      message[x + 1].nth \in rules[i].from + 1 .. rules[i].from + rules[i].length
    <3>1. x \in 0 .. received - 1 /\ x \notin Positions(redactions)
      BY DEF Seen
    <3>2. x \in Nat /\ x < received
      BY ONLY <2>1, <3>1
    <3>3. x \notin Positions(gaps(reveals(parser, rules), received))
      BY ONLY <2>1, <2>2, <3>1
    <3> QED BY <2>1, <2>2, <2>4, <3>2, <3>3, SeenIsRevealed
  <2>6. \A part : PositionsOf(part) = {x \in 0 .. Len(message) - 1 : message[x + 1].part = part}
    BY DEF PositionsOf
  <2>7. Seen \cap PositionsOf("header") = {}
    BY ONLY <2>5, <2>6
  <2>8. ASSUME NEW x \in Seen, x \in PositionsOf("body")
        PROVE  \E i \in DOMAIN rules : x \in Selected(rules[i])
    <3>1. message[x + 1].part = "body"
      BY ONLY <2>6, <2>8
    <3>2. PICK i \in 1 .. Len(rules) :
            message[x + 1].nth \in rules[i].from + 1 .. rules[i].from + rules[i].length
      BY ONLY <2>5, <3>1, x \in Seen
    <3>3. x \in Selected(rules[i])
      BY ONLY <2>8, <3>2 DEF Selected
    <3> QED BY ONLY <2>3, <3>3, i \in 1 .. Len(rules)
  <2> QED BY ONLY <2>7, <2>8
<1> QED BY <1>1, ParserInvariance, RevealInvariance, PTL

\* It sees the status line, the date and all that the rules select, if none selects a part of what another one does
\* from its middle.
THEOREM WitnessSeesTheSelected == Spec => []RevealsSelected
<1>1. (hasPlainStream(response) => ParserInv /\ RevealInv) => RevealsSelected
  <2> SUFFICES ASSUME ParserInv, RevealInv, pc = "revealed", NotNested,
                      NEW x \in PositionsOf("status") \cup (PositionsOf("date") \cap 0 .. received - 1)
                                  \cup UNION {Selected(rules[i]) : i \in DOMAIN rules}
               PROVE  x \in Seen
    BY DEF RevealsSelected
  <2>1. /\ response \in Responses /\ MessageHolds(response, message)
        /\ received \in Nat /\ received <= Len(message) /\ BodyStart(response) <= received
        /\ rules = <<>> => redactions = <<>>
        /\ rules # <<>> => /\ Selection(response, message, received, parser, rules)
                           /\ redactions = gaps(reveals(parser, rules), received)
    BY RevealedBy
  <2>2. DOMAIN rules = 1 .. Len(rules)
    <3>1. PICK R : R = [from : Nat, length : Nat]
      OBVIOUS
    <3>2. rules \in Seq(R)
      BY <3>1, ResponseAssumption DEF RevealInv
    <3> QED BY ONLY <3>2
  <2>3. PICK e : e = Len(message)
    OBVIOUS
  <2>4. e \in Nat
    <3>1. message \in Seq(Piece)
      BY ONLY <2>1 DEF MessageHolds
    <3> QED BY ONLY <2>3, <3>1
  <2>5. \A part : PositionsOf(part) = {y \in 0 .. e - 1 : message[y + 1].part = part}
    BY <2>3 DEF PositionsOf
  <2>6. \/ x \in PositionsOf("status")
        \/ x \in PositionsOf("date") /\ x \in 0 .. received - 1
        \/ \E i \in 1 .. Len(rules) : x \in Selected(rules[i])
    BY <2>2
  <2>7. \A i \in 1 .. Len(rules) : x \in Selected(rules[i]) =>
          /\ x \in PositionsOf("body")
          /\ message[x + 1].nth \in rules[i].from + 1 .. rules[i].from + rules[i].length
    BY DEF Selected
  <2>8. x \in 0 .. e - 1
    BY ONLY <2>5, <2>6, <2>7
  <2>9. x \in Nat /\ x + 1 <= e
    BY ONLY <2>4, <2>8
  <2>10. \/ message[x + 1].part \in {"status", "date"}
         \/ /\ message[x + 1].part = "body"
            /\ \E i \in 1 .. Len(rules) :
                 message[x + 1].nth \in rules[i].from + 1 .. rules[i].from + rules[i].length
    BY ONLY <2>5, <2>6, <2>7
  <2>11. CASE rules # <<>>
    <3>1. NotNestedIn(rules)
      BY DEF NotNested, NotNestedIn
    <3>2. Selection(response, message, received, parser, rules)
          /\ redactions = gaps(reveals(parser, rules), received)
      BY ONLY <2>1, <2>11
    <3>3. x < received /\ \E s : IsReveal(parser, rules, s) /\ InSlice(s, x)
      BY <2>1, <2>3, <2>9, <2>10, <3>2, RevealedIs
    <3>4. x \notin Positions(gaps(reveals(parser, rules), received))
      BY <2>1, <2>9, <3>1, <3>2, <3>3, RevealedIsSeen
    <3>5. x \in 0 .. received - 1
      BY ONLY <2>1, <2>9, <3>3
    <3>6. x \notin Positions(redactions)
      BY ONLY <3>2, <3>4
    <3> QED BY ONLY <3>5, <3>6 DEF Seen
  <2>12. CASE rules = <<>>
    <3>1. Positions(redactions) = {}
      BY <2>1, <2>12 DEF Positions
    <3>2. ~\E i \in 1 .. Len(rules) : TRUE
      BY ONLY <2>12
    <3>3. x \in PositionsOf("status") \/ x \in 0 .. received - 1
      BY ONLY <2>6, <3>2
    <3>4. x \in PositionsOf("status") => x \in 0 .. received - 1
      <4> SUFFICES ASSUME x \in PositionsOf("status") PROVE x \in 0 .. received - 1
        OBVIOUS
      <4>1. message[x + 1].part = "status"
        BY ONLY <2>5, x \in PositionsOf("status")
      <4>2. PICK k, b : k = x + 1 /\ b = BodyStart(response)
        OBVIOUS
      <4>3. k \in Nat /\ 1 <= k /\ k <= Len(message)
        BY ONLY <2>3, <2>9, <4>2
      <4>4. k = 1
        BY <2>1, <4>1, <4>2, <4>3, PartsAre
      <4>5. b \in Nat /\ b >= 3
        BY <2>1, <4>2, StartIsPositive
      <4> QED BY ONLY <2>1, <2>9, <4>2, <4>4, <4>5
    <3> QED BY ONLY <3>1, <3>3, <3>4 DEF Seen
  <2> QED BY ONLY <2>11, <2>12
<1> QED BY <1>1, ParserInvariance, RevealInvariance, PTL

\* The redactions are slices.
LEMMA GapsType ==
  ASSUME NEW slices \in Seq(Slices), NEW length \in Nat
  PROVE  gaps(slices, length) \in Seq(Slices)
<1>1. PICK n : n = Len(slices)
  OBVIOUS
<1>2. n \in Nat
  BY <1>1
<1>3. CASE n >= 2
  <2>1. PICK all, g : all = sorted(slices) /\ g = gaps(slices, length)
    OBVIOUS
  <2> QED BY <1>1, <1>2, <1>3, <2>1, GapsBetween
<1>4. CASE ~(n >= 2)
  <2>1. n <= 1
    BY ONLY <1>2, <1>4
  <2>2. gaps(slices, length) = <<>>
    BY ONLY <1>1, <2>1 DEF gaps
  <2> QED BY ONLY <2>2
<1> QED BY ONLY <1>3, <1>4

\* The type invariant of HttpResponse: the bytes that have come of a plain stream are either read or remain.
THEOREM ResponseTypeCorrect == Spec => [](hasPlainStream(response) => TypeOK)
<1>1. ParserInv /\ RevealInv => TypeOK
  <2> SUFFICES ASSUME ParserInv, RevealInv PROVE TypeOK
    OBVIOUS
  <2>1. /\ response \in Responses /\ received \in 0 .. Len(message)
        /\ Quiet(response, BytesOf(message), received, parser)
    BY DEF ParserInv
  <2>2. MessageHolds(response, message)
    BY MessageIs DEF ParserInv
  <2>3. message \in Seq(Piece)
    BY ONLY <2>2 DEF MessageHolds
  <2>4. received \in Nat /\ received <= Len(message)
    BY ONLY <2>1, <2>3
  <2>5. parser.currentByteIdx + Len(parser.remaining) = received
    BY <2>1, <2>2, <2>4, QuietCounts
  <2>6. notified \in BOOLEAN /\ pc \in {"receiving", "revealed", "failed"}
    BY DEF RevealInv
  <2>7. rules \in Rules \cup {<<>>} /\ redactions \in Seq(Slices)
    <3>1. CASE pc # "revealed"
      <4>1. rules = <<>> /\ redactions = <<>>
        BY <3>1 DEF RevealInv
      <4> QED BY ONLY <4>1
    <3>2. CASE pc = "revealed"
      <4>1. rules \in Rules
        BY <3>2 DEF RevealInv
      <4>2. /\ rules = <<>> => redactions = <<>>
            /\ rules # <<>> => /\ Selection(response, message, received, parser, rules)
                               /\ redactions = gaps(reveals(parser, rules), received)
        BY <3>2, RevealedBy
      <4>3. rules # <<>> => redactions \in Seq(Slices)
        <5> SUFFICES ASSUME rules # <<>> PROVE redactions \in Seq(Slices)
          OBVIOUS
        <5>1. reveals(parser, rules) \in Seq(Slices)
          BY <2>1, <4>2, RevealKinds
        <5>2. gaps(reveals(parser, rules), received) \in Seq(Slices)
          BY <2>4, <5>1, GapsType
        <5> QED BY <4>2, <5>2
      <4>4. rules = <<>> => redactions \in Seq(Slices)
        BY ONLY <4>2
      <4> QED BY ONLY <4>1, <4>3, <4>4
    <3> QED BY ONLY <3>1, <3>2
  <2> QED BY ONLY <2>1, <2>5, <2>6, <2>7 DEF TypeOK, Slices
<1> QED BY <1>1, ParserInvariance, RevealInvariance, PTL

\* Slices that follow one another and end at e at the latest.
OrderedTo(s, e) ==
  \A i \in 1 .. Len(s) : /\ s[i].fromIndex <= s[i].toIndex /\ s[i].toIndex <= e
                         /\ \A j \in 1 .. i - 1 : s[j].toIndex <= s[i].fromIndex

\* Slices that end at e at the latest end at d at the latest.
LEMMA OrderedLonger ==
  ASSUME NEW s \in Seq(Slices), NEW e \in Nat, OrderedTo(s, e), NEW d \in Nat, e <= d
  PROVE  OrderedTo(s, d)
<1>1. \A i \in 1 .. Len(s) : s[i] \in Slices
  OBVIOUS
<1> SUFFICES ASSUME NEW i \in 1 .. Len(s)
             PROVE  /\ s[i].fromIndex <= s[i].toIndex /\ s[i].toIndex <= d
                    /\ \A j \in 1 .. i - 1 : s[j].toIndex <= s[i].fromIndex
  BY DEF OrderedTo
<1>2. s[i].toIndex \in Nat
  BY <1>1 DEF Slices
<1>3. s[i].toIndex <= e
  BY DEF OrderedTo
<1>4. s[i].toIndex <= d
  BY ONLY <1>2, <1>3, e <= d, e \in Nat, d \in Nat
<1> QED BY ONLY <1>4, OrderedTo(s, e), i \in 1 .. Len(s) DEF OrderedTo

\* Another slice can follow them.
LEMMA OrderedAppended ==
  ASSUME NEW s \in Seq(Slices), NEW e, OrderedTo(s, e), NEW y \in Slices, y.fromIndex = e, e <= y.toIndex,
         NEW d \in Nat, y.toIndex <= d, NEW u, u = s \o <<y>>
  PROVE  OrderedTo(u, d)
<1>1. PICK a, b : a = y.fromIndex /\ b = y.toIndex
  OBVIOUS
<1>2. a \in Nat /\ b \in Nat /\ e = a /\ a <= b /\ b <= d
  BY <1>1 DEF Slices
<1>3. PICK l : l = Len(s)
  OBVIOUS
<1>4. l \in Nat /\ Len(u) = l + 1 /\ u[l + 1] = y /\ \A i \in 1 .. l : u[i] = s[i]
  BY ONLY <1>3, s \in Seq(Slices), y \in Slices, u = s \o <<y>>
<1>5. \A i \in 1 .. l : s[i].fromIndex \in Nat /\ s[i].toIndex \in Nat
  <2>1. \A i \in 1 .. l : s[i] \in Slices
    BY <1>3
  <2> QED BY ONLY <2>1 DEF Slices
<1>6. \A i \in 1 .. l : /\ s[i].fromIndex <= s[i].toIndex /\ s[i].toIndex <= e
                        /\ \A j \in 1 .. i - 1 : s[j].toIndex <= s[i].fromIndex
  BY ONLY <1>3, OrderedTo(s, e) DEF OrderedTo
<1>7. ASSUME NEW i \in 1 .. l + 1
      PROVE  /\ u[i].fromIndex <= u[i].toIndex /\ u[i].toIndex <= d
             /\ \A j \in 1 .. i - 1 : u[j].toIndex <= u[i].fromIndex
  <2>1. CASE i \in 1 .. l
    <3>1. \A j \in 1 .. i - 1 : j \in 1 .. l
      BY ONLY <1>4, <2>1
    <3>2. \A j \in 1 .. i - 1 : u[j].toIndex <= u[i].fromIndex
      BY ONLY <1>4, <1>6, <2>1, <3>1
    <3>3. s[i].toIndex <= d
      BY ONLY <1>2, <1>5, <1>6, <2>1, d \in Nat
    <3> QED BY ONLY <1>4, <1>6, <2>1, <3>2, <3>3
  <2>2. CASE i \notin 1 .. l
    <3>1. i = l + 1 /\ (l + 1) - 1 = l
      BY ONLY <1>4, <2>2, i \in 1 .. l + 1
    <3>2. u[i].fromIndex = a /\ u[i].toIndex = b
      BY ONLY <1>1, <1>4, <3>1
    <3>3. \A j \in 1 .. l : u[j].toIndex <= a
      BY ONLY <1>2, <1>4, <1>6
    <3> QED BY ONLY <1>2, <3>1, <3>2, <3>3
  <2> QED BY ONLY <2>1, <2>2
<1> QED BY ONLY <1>4, <1>7 DEF OrderedTo

\* The gaps before slices in order follow one another.
LEMMA GapsBeforeOrdered ==
  ASSUME NEW s \in Seq(Slices), NEW n \in Nat, n = Len(s), n >= 1,
         \A k \in 1 .. n : s[k].fromIndex <= s[k].toIndex,
         \A k, l \in 1 .. n : k < l => s[k].toIndex <= s[l].toIndex
  PROVE  OrderedTo(gapsBefore(s), s[n].toIndex)
<1> DEFINE gap == [k \in 1 .. n |-> gapBefore(s, k)]
           End(k) == IF k = 0 THEN 0 ELSE s[k].toIndex
<1>1. \A k \in 1 .. n : s[k].fromIndex \in Nat /\ s[k].toIndex \in Nat
  <2>1. \A k \in 1 .. n : s[k] \in Slices
    OBVIOUS
  <2> QED BY <2>1 DEF Slices
<1>2. gapsBefore(s) = FlattenSeq(gap)
  BY DEF gapsBefore
<1>3. ASSUME NEW k \in Nat, k + 1 <= n
      PROVE  LET a == End(k)
                 b == s[k + 1].fromIndex
             IN  /\ a \in Nat /\ b \in Nat /\ End(k + 1) \in Nat /\ a <= End(k + 1) /\ b <= End(k + 1)
                 /\ gap[k + 1] = IF a < b THEN <<Slice(a, b)>> ELSE <<>>
  <2>1. k + 1 \in 1 .. n /\ (k + 1) - 1 = k /\ k + 1 # 0 /\ (k + 1 = 1 <=> k = 0)
    BY ONLY k \in Nat, k + 1 <= n, n \in Nat
  <2>2. s[k + 1].fromIndex \in Nat /\ s[k + 1].toIndex \in Nat /\ s[k + 1].fromIndex <= s[k + 1].toIndex
    BY <1>1, <2>1
  <2>3. End(k + 1) = s[k + 1].toIndex
    BY <2>1
  <2>4. End(k) \in Nat /\ End(k) <= End(k + 1)
    <3>1. CASE k = 0
      BY <2>2, <2>3, <3>1
    <3>2. CASE k # 0
      <4>1. k \in 1 .. n /\ k < k + 1
        BY ONLY <3>2, k \in Nat, k + 1 <= n, n \in Nat
      <4>2. s[k].toIndex \in Nat /\ s[k].toIndex <= s[k + 1].toIndex
        BY <1>1, <2>1, <4>1
      <4>3. End(k) = s[k].toIndex
        BY <3>2
      <4> QED BY ONLY <2>3, <4>2, <4>3
    <3> QED BY <3>1, <3>2
  <2>5. gap[k + 1] = gapBefore(s, k + 1)
    BY <2>1
  <2>6. gap[k + 1] = IF End(k) < s[k + 1].fromIndex THEN <<Slice(End(k), s[k + 1].fromIndex)>> ELSE <<>>
    BY ONLY <2>1, <2>5 DEF gapBefore
  <2> QED BY <2>2, <2>3, <2>4, <2>6
<1>4. \A k \in 1 .. n : gap[k] = gapBefore(s, k)
  OBVIOUS
<1>5. gap = [k \in 1 .. n |-> gap[k]]
  OBVIOUS
<1>6. End(0) = 0 /\ End(n) = s[n].toIndex
  OBVIOUS
<1> HIDE DEF gap, End
<1>7. gap \in Seq(Seq(Slices)) /\ Len(gap) = n
  <2>1. ASSUME NEW k \in 1 .. n PROVE gap[k] \in Seq(Slices)
    <3>1. PICK i : i = k - 1
      OBVIOUS
    <3>2. i \in Nat /\ i + 1 = k /\ i + 1 <= n
      BY ONLY <3>1, k \in 1 .. n, n \in Nat
    <3>3. PICK a, b : a = End(i) /\ b = s[i + 1].fromIndex
      OBVIOUS
    <3>4. a \in Nat /\ b \in Nat /\ gap[k] = IF a < b THEN <<Slice(a, b)>> ELSE <<>>
      BY <1>3, <3>2, <3>3
    <3>5. Slice(a, b) \in Slices
      BY <3>4, SliceIs
    <3> QED BY ONLY <3>4, <3>5
  <2> QED BY ONLY <1>5, <2>1, n \in Nat, IsSequence
<1>8. PICK f \in [0 .. n -> Seq(Slices)] :
        f[0] = <<>> /\ (\A i \in 1 .. n : f[i] = f[i - 1] \o gap[i]) /\ FlattenSeq(gap) = f[n]
  BY ONLY <1>7, Flattened
<1> DEFINE P == {m \in Nat : m <= n => OrderedTo(f[m], End(m))}
<1>9. 0 \in P
  <2>1. OrderedTo(f[0], End(0))
    BY <1>8 DEF OrderedTo
  <2> QED BY <2>1
<1>10. ASSUME NEW m \in Nat, m \in P PROVE m + 1 \in P
  <2> SUFFICES ASSUME m + 1 <= n PROVE OrderedTo(f[m + 1], End(m + 1))
    OBVIOUS
  <2>1. m \in 0 .. n /\ m + 1 \in 1 .. n /\ (m + 1) - 1 = m /\ m <= n
    BY ONLY m \in Nat, n \in Nat, m + 1 <= n
  <2>2. PICK t, u, a, b, d : t = f[m] /\ u = f[m + 1] /\ a = End(m) /\ b = s[m + 1].fromIndex /\ d = End(m + 1)
    OBVIOUS
  <2>3. /\ a \in Nat /\ b \in Nat /\ d \in Nat /\ a <= d /\ b <= d
        /\ gap[m + 1] = IF a < b THEN <<Slice(a, b)>> ELSE <<>>
    BY <1>3, <2>2
  <2>4. t \in Seq(Slices) /\ u = t \o gap[m + 1] /\ OrderedTo(t, a)
    BY <1>8, <1>10, <2>1, <2>2
  <2>5. CASE a < b
    <3>1. PICK y : y = Slice(a, b)
      OBVIOUS
    <3>2. y \in Slices /\ y.fromIndex = a /\ y.toIndex = b
      BY <2>3, <3>1, SliceIs
    <3>3. u = t \o <<y>>
      BY ONLY <2>3, <2>4, <2>5, <3>1
    <3>4. a <= y.toIndex /\ y.toIndex <= d
      BY ONLY <2>3, <2>5, <3>2
    <3>5. OrderedTo(u, d)
      BY ONLY <2>3, <2>4, <3>2, <3>3, <3>4, OrderedAppended
    <3> QED BY ONLY <2>2, <3>5
  <2>6. CASE ~(a < b)
    <3>1. u = t
      BY ONLY <2>3, <2>4, <2>6
    <3>2. OrderedTo(t, d)
      BY ONLY <2>3, <2>4, OrderedLonger
    <3> QED BY ONLY <2>2, <3>1, <3>2
  <2> QED BY ONLY <2>5, <2>6
<1>11. n \in P
  <2> HIDE DEF P
  <2> QED BY <1>9, <1>10, InductionOverNat
<1>12. OrderedTo(f[n], End(n))
  BY <1>11
<1> QED BY ONLY <1>2, <1>6, <1>8, <1>12

\* The redactions follow one another, up to the end of the response.
LEMMA GapsOrdered ==
  ASSUME NEW slices \in Seq(Slices), NEW length \in Nat,
         \A s : Among(slices, s) => s.fromIndex <= s.toIndex /\ s.toIndex <= length
  PROVE  OrderedTo(gaps(slices, length), length)
<1>1. PICK n, all, g : n = Len(slices) /\ all = sorted(slices) /\ g = gaps(slices, length)
  OBVIOUS
<1>2. n \in Nat
  BY <1>1
<1>3. CASE n >= 2
  <2>1. /\ all \in Seq(Slices) /\ Len(all) = n /\ \A s : Among(all, s) <=> Among(slices, s)
        /\ \A k, l \in 1 .. n : k < l => all[k].toIndex <= all[l].toIndex
    BY <1>1, <1>2, SortedIs
  <2>2. \A k \in 1 .. n : Among(slices, all[k]) /\ all[k] \in Slices
    <3>1. ASSUME NEW k \in 1 .. n PROVE Among(all, all[k])
      BY ONLY <2>1, k \in 1 .. n DEF Among
    <3>2. \A k \in 1 .. n : all[k] \in Slices
      BY ONLY <2>1
    <3> QED BY ONLY <2>1, <3>1, <3>2
  <2>3. \A k \in 1 .. n : all[k].fromIndex <= all[k].toIndex /\ all[k].toIndex <= length
    BY <2>2
  <2>4. PICK t, e, y : t = gapsBefore(all) /\ e = all[n].toIndex /\ y = Slice(e, length)
    OBVIOUS
  <2>5. n >= 1 /\ n \in 1 .. n
    BY ONLY <1>2, <1>3
  <2>6. OrderedTo(t, e)
    BY <1>2, <2>1, <2>3, <2>4, <2>5, GapsBeforeOrdered
  <2>7. t \in Seq(Slices)
    BY <1>2, <2>1, <2>4, GapsAre
  <2>8. e \in Nat /\ e <= length
    BY ONLY <2>2, <2>3, <2>4, <2>5 DEF Slices
  <2>9. y \in Slices /\ y.fromIndex = e /\ y.toIndex = length
    BY <2>4, <2>8, SliceIs
  <2>10. g = t \o <<y>>
    <3>1. ~(Len(slices) <= 1)
      BY ONLY <1>1, <1>2, <1>3
    <3> QED BY ONLY <1>1, <2>1, <2>4, <3>1 DEF gaps
  <2>11. e <= y.toIndex /\ y.toIndex <= length
    BY ONLY <2>8, <2>9, length \in Nat
  <2>12. OrderedTo(g, length)
    BY ONLY <2>6, <2>7, <2>9, <2>10, <2>11, length \in Nat, OrderedAppended
  <2> QED BY ONLY <1>1, <2>12
<1>4. CASE ~(n >= 2)
  <2>1. n <= 1
    BY ONLY <1>2, <1>4
  <2>2. gaps(slices, length) = <<>>
    BY ONLY <1>1, <2>1 DEF gaps
  <2>3. OrderedTo(<<>>, length)
    BY DEF OrderedTo
  <2> QED BY ONLY <2>2, <2>3
<1> QED BY ONLY <1>3, <1>4

\* The redactions of a plain stream follow one another within what has come: what BlocksToReveal!InOrder asks
\* of them.
THEOREM RedactionsInOrder == Spec => [](hasPlainStream(response) => SlicesInOrder)
<1>1. ParserInv /\ RevealInv => SlicesInOrder
  <2> SUFFICES ASSUME ParserInv, RevealInv PROVE SlicesInOrder
    OBVIOUS
  <2>1. CASE redactions = <<>>
    BY <2>1 DEF SlicesInOrder
  <2>2. CASE redactions # <<>>
    <3>1. pc = "revealed"
      BY <2>2 DEF RevealInv
    <3>2. /\ response \in Responses /\ received \in Nat /\ BodyStart(response) <= received
          /\ Selection(response, message, received, parser, rules)
          /\ redactions = gaps(reveals(parser, rules), received)
      BY <2>2, <3>1, RevealedBy
    <3>3. PICK v, b : v = reveals(parser, rules) /\ b = BodyStart(response)
      OBVIOUS
    <3>4. b \in Nat /\ b >= 3 /\ b <= received
      BY <3>2, <3>3, StartIsPositive
    <3>5. v \in Seq(Slices)
      BY <3>2, <3>3, RevealKinds
    <3>6. ASSUME NEW s, Among(v, s) PROVE s.fromIndex <= s.toIndex /\ s.toIndex <= received
      <4>1. /\ IsReveal(parser, rules, s)
            /\ IsStatusSlice(s) \/ (\E i : IsDateSlice(response, s, i)) \/ (\E i : IsRuleSlice(parser, rules, s, i))
        BY <3>2, <3>3, <3>6, RevealKinds
      <4>2. CASE IsStatusSlice(s)
        BY ONLY <3>2, <3>4, <4>2 DEF IsStatusSlice
      <4>3. CASE \E i : IsDateSlice(response, s, i)
        <5>1. PICK i : IsDateSlice(response, s, i)
          BY <4>3
        <5>2. i \in 1 .. Len(response.head) /\ s.fromIndex = 3 * i /\ s.toIndex = 3 * i + 1
          BY ONLY <5>1 DEF IsDateSlice
        <5>3. i \in Nat /\ 3 * i + 3 <= b
          BY <3>2, <3>3, <5>2, HeadIsBefore
        <5> QED BY ONLY <3>2, <3>4, <5>2, <5>3
      <4>4. CASE \E i : IsRuleSlice(parser, rules, s, i)
        <5>1. PICK i : IsRuleSlice(parser, rules, s, i)
          BY <4>4
        <5>2. s.fromIndex \in Nat /\ s.toIndex \in Nat /\ s.fromIndex < s.toIndex
          BY <3>2, <5>1, RuleSliceIsWide
        <5>3. i \in 1 .. Len(rules) /\ s = RuleSlice(parser, rules[i])
          BY ONLY <5>1 DEF IsRuleSlice
        <5>4. ConvertsTo(response, message, received, rules[i].from + rules[i].length, s.toIndex)
          BY <3>2, <5>3, RuleSliceIs
        <5>5. s.toIndex <= received
          BY ONLY <5>4 DEF ConvertsTo
        <5> QED BY ONLY <5>2, <5>5
      <4> QED BY ONLY <4>1, <4>2, <4>3, <4>4
    <3>7. OrderedTo(gaps(v, received), received)
      BY <3>2, <3>5, <3>6, GapsOrdered
    <3>8. OrderedTo(redactions, received) /\ redactions \in Seq(Slices)
      BY <3>2, <3>3, <3>5, <3>7, GapsType
    <3>9. DOMAIN redactions = 1 .. Len(redactions)
      BY ONLY <3>8
    <3> QED BY ONLY <3>8, <3>9 DEF SlicesInOrder, OrderedTo
  <2> QED BY <2>1, <2>2
<1> QED BY <1>1, ParserInvariance, RevealInvariance, PTL
=============================================================================
