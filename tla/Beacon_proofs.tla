--------------------------- MODULE Beacon_proofs ---------------------------
(***************************************************************************)
(* Proofs about Beacon, for any callers, witnesses, lists, hashes and      *)
(* numbers of epochs.                                                      *)
(***************************************************************************)
EXTENDS Beacon, SequenceTheorems, TLAPS

Fetch == [epochId : 0 .. MaxEpoch, state : EpochState,
          status : {"pending", "resolved", "rejected"}]

CallerState ==
  [pc : {"start", "awaiting", "selecting", "selected", "failed"},
   claim : Claim, epochId : 0 .. MaxEpoch, askedAt : 0 .. MaxEpoch,
   fetch : 0 .. Len(fetches), state : EpochState, left : Seq(Witness),
   selected : Seq(Witness \cup {None}), word : 1 .. HashWords]

LEMMA Bounds ==
  /\ Required \subseteq Nat
  /\ HashWords \in Nat \ {0}
  /\ MaxEpoch \in Nat \ {0}
BY BeaconAssumption, Zenon

LEMMA HashType ==
  ASSUME NEW claim \in Claim, NEW epoch \in 1 .. MaxEpoch,
         NEW required \in Required \cup {1}
  PROVE  Hash(claim, epoch, required) \in [1 .. HashWords -> Nat]
BY BeaconAssumption, Zenon

-----------------------------------------------------------------------------
(* The choice of witnesses.                                                 *)

\* What has been selected and what is left are different witnesses of the
\* epoch, together all of them; after the last one undefined is selected.
SelectionOf(all, selected, left, required) ==
  /\ Len(selected) <= required
  /\ Len(left) = IF Len(selected) < Len(all) THEN Len(all) - Len(selected) ELSE 0
  /\ \A i \in 1 .. Len(selected) :
       /\ i <= Len(all) => /\ \E k \in 1 .. Len(all) : all[k] = selected[i]
                          /\ \A j \in 1 .. i - 1 : selected[j] # selected[i]
       /\ i > Len(all) => selected[i] = None
  /\ \A i \in 1 .. Len(left) :
       /\ \E k \in 1 .. Len(all) : all[k] = left[i]
       /\ \A j \in 1 .. Len(left) : left[i] = left[j] => i = j
       /\ \A j \in 1 .. Len(selected) : selected[j] # left[i]

Selection(x) == SelectionOf(x.state.witnesses, x.selected, x.left, x.state.required)

\* The swap with the last one drops the witness at the index and keeps the
\* others, each at one place.
LEMMA WithoutDropsOne ==
  ASSUME NEW left \in Seq(Witness), left # <<>>, NEW at \in 1 .. Len(left)
  PROVE  /\ without(left, at) \in Seq(Witness)
         /\ Len(without(left, at)) = Len(left) - 1
         /\ \A i \in 1 .. Len(left) - 1 :
              without(left, at)[i] = IF i = at THEN left[Len(left)] ELSE left[i]
<1>1. Len(left) \in Nat /\ Len(left) # 0
  BY EmptySeq
<1>2. \A i \in 1 .. Len(left) - 1 :
        (IF i = at THEN left[Len(left)] ELSE left[i]) \in Witness
  BY <1>1
<1>3. without(left, at) \in Seq(Witness)
  BY <1>1, <1>2, IsASeq DEF without
<1> QED BY <1>1, <1>3 DEF without

LEMMA HashIsNat ==
  ASSUME NEW claim \in Claim, NEW state \in EpochState, NEW word \in 1 .. HashWords
  PROVE  Hash(claim, state.epoch, state.required)[word] \in Nat
<1>1. state.epoch \in 1 .. MaxEpoch /\ state.required \in Required \cup {1}
  BY DEF EpochState
<1>2. Hash(claim, state.epoch, state.required) \in [1 .. HashWords -> Nat]
  BY <1>1, HashType, Zenon
<1> DEFINE h == Hash(claim, state.epoch, state.required)
<1> HIDE DEF h
<1>3. h[word] \in Nat
  BY <1>2 DEF h
<1> QED BY <1>3 DEF h

\* The witnesses of an epoch are different ones.
LEMMA ListsHaveNoDoubles ==
  ASSUME NEW state \in EpochState
  PROVE  /\ state.witnesses \in Seq(Witness)
         /\ \A i, j \in 1 .. Len(state.witnesses) :
              state.witnesses[i] = state.witnesses[j] => i = j
         /\ state.required \in Nat
<1>1. state.witnesses \in Lists \cup {TrustedList} /\ state.required \in Required \cup {1}
  BY DEF EpochState
<1>2. state.witnesses \in Seq(Witness)
  BY <1>1, BeaconAssumption
<1>3. DOMAIN state.witnesses = 1 .. Len(state.witnesses)
  BY <1>2
<1>4. \A i, j \in DOMAIN state.witnesses : state.witnesses[i] = state.witnesses[j] => i = j
  BY <1>1, BeaconAssumption
<1>5. state.required \in Nat
  <2>1. CASE state.required \in Required
    BY <2>1, Bounds, Zenon
  <2>2. CASE state.required = 1
    BY <2>2
  <2> QED BY <1>1, <2>1, <2>2
<1> QED BY <1>2, <1>3, <1>4, <1>5

\* select begins with all witnesses left.
LEMMA SelectBegins ==
  ASSUME NEW x \in CallerState, NEW state \in EpochState, x.selected = <<>>
  PROVE  /\ select(x, state) \in CallerState
         /\ Selection(select(x, state))
<1> DEFINE y == select(x, state)
<1>1. /\ y.state = state /\ y.left = state.witnesses /\ y.selected = <<>>
  BY DEF select, CallerState
<1>2. y \in CallerState
  BY ListsHaveNoDoubles DEF select, CallerState
<1>3. Len(state.witnesses) \in Nat
  BY ListsHaveNoDoubles
<1> HIDE DEF y
<1>4. Selection(y)
  BY <1>1, <1>3, ListsHaveNoDoubles DEF Selection, SelectionOf
<1> QED BY <1>2, <1>4 DEF y

LEMMA TurnSelects ==
  ASSUME NEW x \in CallerState, Selection(x), Len(x.selected) < x.state.required
  PROVE  /\ afterTurn(x) \in CallerState
         /\ Selection(afterTurn(x))
<1> DEFINE all == x.state.witnesses
           n == Len(x.selected)
           y == afterTurn(x)
<1>1. /\ all \in Seq(Witness) /\ Len(all) \in Nat
      /\ x.selected \in Seq(Witness \cup {None}) /\ n \in Nat
      /\ x.left \in Seq(Witness) /\ Len(x.left) \in Nat
      /\ x.state \in EpochState /\ x.state.required \in Nat
      /\ x.word \in 1 .. HashWords
  BY ListsHaveNoDoubles DEF CallerState
<1>2. nextWord(x.word) \in 1 .. HashWords
  <2>1. HashWords \in Nat \ {0} /\ x.word \in Nat
    BY <1>1, Bounds
  <2>2. x.word % HashWords \in 0 .. HashWords - 1
    BY <2>1
  <2> QED BY <2>1, <2>2 DEF nextWord
<1>3. CASE x.left = <<>>
  <2> DEFINE s == Append(x.selected, None)
             w == nextWord(x.word)
  <2>1. y = [x EXCEPT !.selected = s, !.word = w]
    BY <1>3 DEF afterTurn
  <2>2. /\ s \in Seq(Witness \cup {None}) /\ Len(s) = n + 1 /\ s[n + 1] = None
        /\ \A i \in 1 .. n : s[i] = x.selected[i]
    BY <1>1, AppendProperties
  <2>3. n >= Len(all)
    BY <1>1, <1>3 DEF Selection, SelectionOf
  <2> HIDE DEF s, w
  <2>4. /\ y.selected = s /\ y.left = x.left /\ y.state = x.state
        /\ y \in CallerState
    BY <2>1, <2>2, <1>2 DEF CallerState, w
  <2>5. Len(y.left) = 0
    BY <2>4, <1>3
  <2>6. ASSUME NEW i \in 1 .. n + 1
        PROVE  /\ i <= Len(all) =>
                    /\ \E k \in 1 .. Len(all) : all[k] = s[i]
                    /\ \A j \in 1 .. i - 1 : s[j] # s[i]
               /\ i > Len(all) => s[i] = None
    <3>1. CASE i = n + 1
      BY <3>1, <2>2, <2>3, <1>1
    <3>2. CASE i # n + 1
      <4>1. i \in 1 .. n /\ s[i] = x.selected[i]
        BY <3>2, <2>2, <1>1
      <4>2. \A j \in 1 .. i - 1 : s[j] = x.selected[j]
        BY <4>1, <2>2, <1>1
      <4> QED BY <4>1, <4>2 DEF Selection, SelectionOf
    <3> QED BY <3>1, <3>2
  <2> HIDE DEF y
  <2>7. Selection(y)
    <3>1. Len(s) <= x.state.required
      BY <2>2, <1>1
    <3>2. ~(Len(s) < Len(all))
      BY <2>2, <2>3, <1>1
    <3>3. Len(x.left) = IF Len(s) < Len(all) THEN Len(all) - Len(s) ELSE 0
      BY <2>4, <2>5, <3>2
    <3>4. \A i \in 1 .. Len(x.left) : FALSE
      BY <2>4, <2>5
    <3>5. y.state.witnesses = all /\ y.state.required = x.state.required
      BY <2>4
    <3>6. \A i \in 1 .. Len(s) :
            /\ i <= Len(all) => /\ \E k \in 1 .. Len(all) : all[k] = s[i]
                               /\ \A j \in 1 .. i - 1 : s[j] # s[i]
            /\ i > Len(all) => s[i] = None
      BY <2>2, <2>6, Zenon
    <3>7. SelectionOf(all, s, x.left, x.state.required)
      BY <3>1, <3>3, <3>4, <3>6, Zenon DEF SelectionOf
    <3> QED BY <2>4, <3>5, <3>7 DEF Selection
  <2> QED BY <2>4, <2>7 DEF y
<1>4. CASE x.left # <<>>
  <2> DEFINE at == indexOf(x)
             l == without(x.left, at)
             s == Append(x.selected, x.left[at])
             w == nextWord(x.word)
             m == Len(x.left)
  <2>1. at \in 1 .. m
    <3>1. m \in Nat \ {0}
      BY <1>1, <1>4, EmptySeq
    <3>2. Hash(x.claim, x.state.epoch, x.state.required)[x.word] \in Nat
      BY <1>1, HashIsNat DEF CallerState
    <3>3. Hash(x.claim, x.state.epoch, x.state.required)[x.word] % m \in 0 .. m - 1
      BY <3>1, <3>2
    <3> QED BY <3>1, <3>3 DEF indexOf
  <2>2. y = [x EXCEPT !.selected = s, !.left = l, !.word = w]
    <3>1. at <= Len(x.left)
      BY <2>1, <1>1
    <3>2. (IF at <= Len(x.left) THEN x.left[at] ELSE None) = x.left[at]
      BY <3>1
    <3> HIDE DEF at
    <3>3. y = [x EXCEPT !.selected = Append(@, IF at <= Len(x.left) THEN x.left[at] ELSE None),
                        !.left = without(@, at), !.word = nextWord(@)]
      BY <1>4, Zenon DEF afterTurn, at
    <3> QED BY <3>2, <3>3 DEF at
  <2>3. x.left[at] \in Witness
    BY <1>1, <2>1
  <2>4. /\ s \in Seq(Witness \cup {None}) /\ Len(s) = n + 1 /\ s[n + 1] = x.left[at]
        /\ \A i \in 1 .. n : s[i] = x.selected[i]
    BY <1>1, <2>3, AppendProperties
  <2>5. /\ l \in Seq(Witness) /\ Len(l) = m - 1
        /\ \A i \in 1 .. m - 1 : l[i] = IF i = at THEN x.left[m] ELSE x.left[i]
    BY <1>1, <1>4, <2>1, WithoutDropsOne
  <2>6. n < Len(all) /\ m = Len(all) - n
    BY <1>1, <1>4, EmptySeq DEF Selection, SelectionOf
  <2> HIDE DEF s, l, w, at
  <2>7. /\ y.selected = s /\ y.left = l /\ y.state = x.state
        /\ y \in CallerState
    BY <2>2, <2>4, <2>5, <1>2 DEF CallerState, w
  <2>8. ASSUME NEW i \in 1 .. n + 1
        PROVE  /\ \E k \in 1 .. Len(all) : all[k] = s[i]
               /\ \A j \in 1 .. i - 1 : s[j] # s[i]
    <3>1. CASE i = n + 1
      <4>1. s[i] = x.left[at]
        BY <3>1, <2>4
      <4>2. \A j \in 1 .. i - 1 : s[j] = x.selected[j]
        BY <3>1, <2>4, <1>1
      <4>3. \A j \in 1 .. i - 1 : j \in 1 .. n
        BY <3>1, <1>1
      <4>4. \E k \in 1 .. Len(all) : all[k] = x.left[at]
        BY <2>1, Zenon DEF Selection, SelectionOf
      <4>5. \A j \in 1 .. n : x.selected[j] # x.left[at]
        BY <2>1, Zenon DEF Selection, SelectionOf
      <4> QED BY <4>1, <4>2, <4>3, <4>4, <4>5, Zenon
    <3>2. CASE i # n + 1
      <4>1. i \in 1 .. n /\ s[i] = x.selected[i] /\ i <= Len(all)
        BY <3>2, <2>4, <2>6, <1>1
      <4>2. \A j \in 1 .. i - 1 : s[j] = x.selected[j]
        BY <4>1, <2>4, <1>1
      <4>3. /\ \E k \in 1 .. Len(all) : all[k] = x.selected[i]
            /\ \A j \in 1 .. i - 1 : x.selected[j] # x.selected[i]
        BY <4>1, Zenon DEF Selection, SelectionOf
      <4> QED BY <4>1, <4>2, <4>3, Zenon
    <3> QED BY <3>1, <3>2
  <2>9. ASSUME NEW i \in 1 .. m - 1
        PROVE  \E k \in 1 .. m : k # at /\ l[i] = x.left[k] /\ (i = at => k = m)
                                        /\ (i # at => k = i)
    <3>1. i \in 1 .. m /\ m \in 1 .. m /\ i # m
      BY <1>1
    <3> QED BY <3>1, <2>5
  <2>10. ASSUME NEW i \in 1 .. m - 1
         PROVE  /\ \E k \in 1 .. Len(all) : all[k] = l[i]
                /\ \A j \in 1 .. m - 1 : l[i] = l[j] => i = j
                /\ \A j \in 1 .. n + 1 : s[j] # l[i]
    <3>1. PICK k \in 1 .. m : k # at /\ l[i] = x.left[k] /\ (i = at => k = m)
                                     /\ (i # at => k = i)
      BY <2>9
    <3>2. \E q \in 1 .. Len(all) : all[q] = l[i]
      <4>1. \E q \in 1 .. Len(all) : all[q] = x.left[k]
        BY Zenon DEF Selection, SelectionOf
      <4> QED BY <3>1, <4>1
    <3>3. ASSUME NEW j \in 1 .. m - 1, l[i] = l[j] PROVE i = j
      <4>1. PICK q \in 1 .. m : q # at /\ l[j] = x.left[q] /\ (j = at => q = m)
                                       /\ (j # at => q = j)
        BY <2>9
      <4>2. k = q
        BY <3>1, <3>3, <4>1 DEF Selection, SelectionOf
      <4> QED BY <3>1, <4>1, <4>2, <1>1
    <3>4. ASSUME NEW j \in 1 .. n + 1 PROVE s[j] # l[i]
      <4>1. CASE j = n + 1
        BY <4>1, <2>1, <2>4, <3>1 DEF Selection, SelectionOf
      <4>2. CASE j # n + 1
        <5>1. j \in 1 .. n /\ s[j] = x.selected[j]
          BY <4>2, <2>4, <1>1
        <5> QED BY <5>1, <3>1 DEF Selection, SelectionOf
      <4> QED BY <4>1, <4>2
    <3> QED BY <3>2, <3>3, <3>4
  <2>11. n + 1 <= x.state.required /\ n + 1 <= Len(all)
    BY <1>1, <2>6
  <2>12. m - 1 = IF n + 1 < Len(all) THEN Len(all) - (n + 1) ELSE 0
    <3> DEFINE a == Len(all)
    <3>1. a \in Nat /\ n \in Nat /\ n < a /\ m = a - n
      BY <1>1, <2>6
    <3> HIDE DEF a, n, m
    <3>2. m - 1 = IF n + 1 < a THEN a - (n + 1) ELSE 0
      BY <3>1
    <3> QED BY <3>2 DEF a, n, m
  <2> HIDE DEF y
  <2>13. Selection(y)
    <3>1. \A i \in 1 .. n + 1 : ~(i > Len(all))
      BY <2>11, <1>1
    <3>2. Len(s) <= x.state.required
      BY <2>4, <2>11
    <3>3. Len(l) = IF Len(s) < Len(all) THEN Len(all) - Len(s) ELSE 0
      BY <2>4, <2>5, <2>12, Zenon
    <3>4. y.state.witnesses = all /\ y.state.required = x.state.required
      BY <2>7
    <3>5. \A i \in 1 .. Len(s) :
            /\ i <= Len(all) => /\ \E k \in 1 .. Len(all) : all[k] = s[i]
                               /\ \A j \in 1 .. i - 1 : s[j] # s[i]
            /\ i > Len(all) => s[i] = None
      BY <2>4, <2>8, <3>1, Zenon
    <3>6. \A i \in 1 .. Len(l) :
            /\ \E k \in 1 .. Len(all) : all[k] = l[i]
            /\ \A j \in 1 .. Len(l) : l[i] = l[j] => i = j
            /\ \A j \in 1 .. Len(s) : s[j] # l[i]
      BY <2>4, <2>5, <2>10, Zenon
    <3>7. SelectionOf(all, s, l, x.state.required)
      BY <3>2, <3>3, <3>5, <3>6, Zenon DEF SelectionOf
    <3> QED BY <2>7, <3>4, <3>7 DEF Selection
  <2> QED BY <2>7, <2>13 DEF y
<1> QED BY <1>3, <1>4

-----------------------------------------------------------------------------
(* The invariant.                                                           *)

\* The epochs of the contract are numbered.
Numbered == \A e \in 1 .. Len(epochs) : epochs[e].epoch = e

\* The cache and the fetches name each other.
Cached ==
  /\ \A f \in 1 .. Len(fetches) :
       fetches[f].epochId # 0 => cache[fetches[f].epochId] = f
  /\ \A e \in 1 .. MaxEpoch : cache[e] # 0 => fetches[cache[e]].epochId = e

isEpoch(state) ==
  /\ state.epoch \in 1 .. Len(epochs)
  /\ epochs[state.epoch] = state

\* What was fetched is an epoch of the contract, the one asked for.
Fetched ==
  \A f \in 1 .. Len(fetches) : fetches[f].status = "resolved" =>
    /\ isEpoch(fetches[f].state)
    /\ fetches[f].epochId # 0 => fetches[f].state.epoch = fetches[f].epochId

\* A caller waits for a fetch of what it asked for, which answers with nothing
\* older than the asking.
Waiting ==
  \A c \in Caller : caller[c].pc = "awaiting" =>
    LET x == caller[c]
    IN  /\ x.fetch # 0
        /\ fetches[x.fetch].epochId = x.epochId
        /\ x.askedAt <= Len(epochs)
        /\ (x.epochId = 0 /\ fetches[x.fetch].status = "resolved") =>
             fetches[x.fetch].state.epoch >= x.askedAt

Unchosen ==
  \A c \in Caller :
    /\ caller[c].pc \in {"start", "awaiting"} => caller[c].selected = <<>>
    /\ caller[c].pc = "start" => caller[c].fetch = 0

Chosen ==
  \A c \in Caller :
    (caller[c].fetch # 0 /\ caller[c].pc \in {"selecting", "selected"}) =>
      /\ isEpoch(caller[c].state)
      /\ caller[c].epochId # 0 => caller[c].state.epoch = caller[c].epochId
      /\ caller[c].epochId = 0 => caller[c].state.epoch >= caller[c].askedAt

Choosing ==
  \A c \in Caller :
    /\ caller[c].pc \in {"selecting", "selected"} => Selection(caller[c])
    /\ caller[c].pc = "selected" => Len(caller[c].selected) = caller[c].state.required

Types ==
  /\ epochs \in Seq(EpochState) /\ Len(epochs) \in 1 .. MaxEpoch
  /\ made \subseteq {"contract", "trusted"}
  /\ cache \in [1 .. MaxEpoch -> 0 .. Len(fetches)]
  /\ fetches \in Seq(Fetch)
  /\ caller \in [Caller -> CallerState]

Inv == Types /\ Numbered /\ Cached /\ Fetched /\ Waiting /\ Unchosen /\ Chosen /\ Choosing

LEMMA TrustedIsAState == trusted \in EpochState
BY Bounds DEF trusted, State, EpochState

LEMMA TypesAreTypeOK == Types <=> TypeOK
BY DEF Types, TypeOK, Fetch, CallerState

LEMMA InitInv == Init => Inv
<1> SUFFICES ASSUME Init PROVE Inv
  OBVIOUS
<1>1. PICK witnesses \in Lists, required \in Required :
        epochs = <<State(1, witnesses, required)>>
  BY DEF Init
<1>2. State(1, witnesses, required) \in EpochState
  BY Bounds DEF State, EpochState
<1> DEFINE state == State(1, witnesses, required)
<1>3. epochs = <<state>> /\ state \in EpochState /\ state.epoch = 1
  BY <1>1, <1>2 DEF State
<1> HIDE DEF state
<1>4. epochs \in Seq(EpochState) /\ Len(epochs) = 1 /\ epochs[1] = state
  BY <1>3
<1>5. fetches = <<>> /\ fetches \in Seq(Fetch) /\ Len(fetches) = 0
  BY DEF Init
<1>6. PICK claims \in [Caller -> Claim] : caller = [c \in Caller |-> Idle(claims[c])]
  BY DEF Init
<1>7. \A claim \in Claim : Idle(claim) \in CallerState
  BY <1>5, TrustedIsAState, Bounds DEF Idle, CallerState
<1>8. Types
  BY <1>4, <1>5, <1>6, <1>7, Bounds DEF Types, Init
<1>9. \A c \in Caller :
        caller[c].pc = "start" /\ caller[c].fetch = 0 /\ caller[c].selected = <<>>
  BY <1>6 DEF Idle
<1>10. Waiting /\ Unchosen /\ Chosen /\ Choosing
  BY <1>9 DEF Waiting, Unchosen, Chosen, Choosing
<1>11. Numbered
  BY <1>3, <1>4 DEF Numbered
<1>12. Cached /\ Fetched
  BY <1>5 DEF Cached, Fetched, Init
<1> QED BY <1>8, <1>10, <1>11, <1>12 DEF Inv

\* A caller that changes alone: the rest is as it was.
LEMMA CallerStep ==
  ASSUME Inv, NEW c \in Caller, NEW x \in CallerState,
         caller' = [caller EXCEPT ![c] = x],
         UNCHANGED <<epochs, cache, fetches>>, made' \subseteq {"contract", "trusted"},
         x.pc \notin {"start", "awaiting"},
         x.pc \in {"selecting", "selected"} => Selection(x),
         x.pc = "selected" => Len(x.selected) = x.state.required,
         (x.fetch # 0 /\ x.pc \in {"selecting", "selected"}) =>
           /\ isEpoch(x.state)
           /\ x.epochId # 0 => x.state.epoch = x.epochId
           /\ x.epochId = 0 => x.state.epoch >= x.askedAt
  PROVE  Inv'
<1>1. /\ caller' \in [Caller -> CallerState] /\ CallerState' = CallerState
      /\ caller'[c] = x /\ \A d \in Caller : d # c => caller'[d] = caller[d]
  BY DEF Inv, Types, CallerState
<1>2. Types'
  BY <1>1 DEF Inv, Types
<1>3. Numbered' /\ Cached' /\ Fetched'
  BY DEF Inv, Numbered, Cached, Fetched, isEpoch
<1>4. Waiting' /\ Unchosen'
  BY <1>1 DEF Inv, Waiting, Unchosen
<1>5. Chosen'
  BY <1>1 DEF Inv, Chosen, isEpoch
<1>6. Choosing'
  <2> SUFFICES ASSUME NEW d \in Caller
               PROVE  /\ caller'[d].pc \in {"selecting", "selected"} => Selection(caller'[d])
                      /\ caller'[d].pc = "selected" =>
                           Len(caller'[d].selected) = caller'[d].state.required
    BY DEF Choosing
  <2>1. CASE d = c
    BY <1>1, <2>1
  <2>2. CASE d # c
    BY <1>1, <2>2 DEF Inv, Choosing
  <2> QED BY <2>1, <2>2
<1> QED BY <1>2, <1>3, <1>4, <1>5, <1>6 DEF Inv

\* getState of a beacon of the contract: the fetch that is kept, or another one.
LEMMA GetStateInv == ASSUME Inv, NEW c \in Caller, GetState(c) PROVE Inv'
<1>1. PICK epochId \in 0 .. MaxEpoch :
        LET f == Len(fetches) + 1
            asked == [caller[c] EXCEPT !.pc = "awaiting", !.epochId = epochId,
                                       !.askedAt = Len(epochs)]
        IN  IF isKept(epochId)
            THEN /\ Set(c, [asked EXCEPT !.fetch = cache[epochId]])
                 /\ UNCHANGED <<cache, fetches>>
            ELSE /\ fetches' = Append(fetches, [epochId |-> epochId, status |-> "pending",
                                                state |-> trusted])
                 /\ cache' = keep(epochId, f)
                 /\ Set(c, [asked EXCEPT !.fetch = f])
  BY DEF GetState
<1>2. /\ caller[c] \in CallerState /\ caller[c].pc = "start" /\ caller[c].selected = <<>>
      /\ UNCHANGED epochs /\ made' = made \cup {"contract"}
      /\ Len(epochs) \in 1 .. MaxEpoch /\ Len(fetches) \in Nat
  BY DEF GetState, Inv, Types, Unchosen
<1> DEFINE n == Len(fetches)
           f == IF isKept(epochId) THEN cache[epochId] ELSE n + 1
           new == [epochId |-> epochId, status |-> "pending", state |-> trusted]
           x == [caller[c] EXCEPT !.pc = "awaiting", !.epochId = epochId,
                                  !.askedAt = Len(epochs), !.fetch = f]
<1>3. /\ x.pc = "awaiting" /\ x.epochId = epochId /\ x.askedAt = Len(epochs)
      /\ x.fetch = f /\ x.selected = <<>>
  BY <1>2 DEF CallerState
<1>4. caller' = [caller EXCEPT ![c] = x]
  BY <1>1 DEF Set
<1>5. /\ fetches' \in Seq(Fetch) /\ Len(fetches') \in Nat /\ Len(fetches') >= n
      /\ \A g \in 1 .. n : fetches'[g] = fetches[g]
      /\ \A g \in 1 .. Len(fetches') : g \notin 1 .. n =>
           g = n + 1 /\ fetches'[g] = new /\ ~isKept(epochId)
      /\ f \in 1 .. Len(fetches') /\ fetches'[f].epochId = epochId
      /\ epochId = 0 => f = n + 1 /\ fetches'[f] = new
  <2>1. CASE isKept(epochId)
    <3>1. fetches' = fetches /\ fetches \in Seq(Fetch) /\ n \in Nat
      BY <1>1, <1>2, <2>1 DEF Inv, Types
    <3>2. epochId # 0 /\ epochId \in 1 .. MaxEpoch /\ cache[epochId] # 0 /\ f = cache[epochId]
      BY <2>1 DEF isKept
    <3>3. f \in 1 .. n
      BY <3>1, <3>2 DEF Inv, Types
    <3>4. fetches[f].epochId = epochId
      BY <3>2 DEF Inv, Cached
    <3> QED BY <3>1, <3>2, <3>3, <3>4
  <2>2. CASE ~isKept(epochId)
    <3>1. fetches' = Append(fetches, new) /\ f = n + 1
      BY <1>1, <2>2
    <3>2. new \in Fetch
      BY TrustedIsAState DEF Fetch
    <3>3. fetches \in Seq(Fetch)
      BY DEF Inv, Types
    <3> HIDE DEF f, new
    <3>4. /\ fetches' \in Seq(Fetch) /\ Len(fetches') = n + 1 /\ fetches'[n + 1] = new
          /\ \A g \in 1 .. n : fetches'[g] = fetches[g]
      BY <3>1, <3>2, <3>3, AppendProperties
    <3>5. new.epochId = epochId
      BY DEF new
    <3> QED BY <1>2, <2>2, <3>1, <3>4, <3>5
  <2> QED BY <2>1, <2>2
<1> HIDE DEF f, x
<1>6. /\ cache' \in [1 .. MaxEpoch -> 0 .. Len(fetches')]
      /\ \A e \in 1 .. MaxEpoch :
           cache'[e] = IF e = epochId /\ ~isKept(epochId) THEN n + 1 ELSE cache[e]
  <2>1. CASE isKept(epochId)
    BY <1>1, <2>1 DEF Inv, Types
  <2>2. CASE ~isKept(epochId)
    <3>1. cache' = keep(epochId, n + 1)
      BY <1>1, <2>2
    <3>2. cache \in [1 .. MaxEpoch -> 0 .. n]
      BY DEF Inv, Types
    <3>3. n + 1 <= Len(fetches')
      BY <1>2, <1>5, <1>1, <2>2, AppendProperties DEF f, Inv, Types
    <3>4. CASE epochId = 0
      BY <1>2, <1>5, <3>1, <3>2, <3>4 DEF keep
    <3>5. CASE epochId # 0
      BY <1>2, <1>5, <2>2, <3>1, <3>2, <3>3, <3>5 DEF keep
    <3> QED BY <3>4, <3>5
  <2> QED BY <2>1, <2>2
<1>7. caller' \in [Caller -> CallerState']
  <2>1. \A k \in 0 .. n : k \in 0 .. Len(fetches')
    BY <1>2, <1>5
  <2>2. f \in 0 .. Len(fetches') /\ Len(epochs) \in 0 .. MaxEpoch
    BY <1>2, <1>5, Bounds
  <2>3. ASSUME NEW y \in CallerState PROVE y \in CallerState'
    <3>1. y.fetch \in 0 .. Len(fetches')
      BY <2>1 DEF CallerState
    <3> QED BY <3>1 DEF CallerState
  <2>4. x \in CallerState'
    <3>1. caller[c] \in CallerState'
      BY <1>2, <2>3
    <3> QED BY <2>2, <3>1 DEF CallerState, x
  <2>5. \A d \in Caller : caller[d] \in CallerState'
    BY <2>3 DEF Inv, Types
  <2> QED BY <1>4, <2>4, <2>5 DEF Inv, Types
<1>8. Types' /\ Numbered'
  BY <1>2, <1>5, <1>6, <1>7 DEF Inv, Types, Numbered
<1>9. Cached'
  <2>1. ASSUME NEW g \in 1 .. Len(fetches'), fetches'[g].epochId # 0
        PROVE  cache'[fetches'[g].epochId] = g
    <3>1. CASE g \in 1 .. n
      <4>1. fetches[g].epochId # 0 /\ cache[fetches[g].epochId] = g /\ fetches'[g] = fetches[g]
        BY <1>5, <2>1, <3>1 DEF Inv, Cached
      <4>2. fetches[g].epochId \in 1 .. MaxEpoch
        <5>1. fetches[g] \in Fetch
          BY <3>1 DEF Inv, Types
        <5>2. fetches[g].epochId \in 0 .. MaxEpoch
          BY <5>1 DEF Fetch
        <5> QED BY <4>1, <5>2, Bounds
      <4>3. fetches[g].epochId = epochId => isKept(epochId)
        BY <4>1, <3>1 DEF isKept
      <4> QED BY <1>6, <4>1, <4>2, <4>3
    <3>2. CASE g \notin 1 .. n
      <4>1. g = n + 1 /\ fetches'[g].epochId = epochId /\ ~isKept(epochId)
        BY <1>5, <3>2
      <4> QED BY <1>6, <2>1, <4>1
    <3> QED BY <3>1, <3>2
  <2>2. ASSUME NEW e \in 1 .. MaxEpoch, cache'[e] # 0
        PROVE  fetches'[cache'[e]].epochId = e
    <3>1. CASE e = epochId /\ ~isKept(epochId)
      BY <1>5, <1>6, <3>1 DEF f
    <3>2. CASE ~(e = epochId /\ ~isKept(epochId))
      <4>1. cache'[e] = cache[e] /\ cache[e] # 0 /\ fetches[cache[e]].epochId = e
        BY <1>6, <2>2, <3>2 DEF Inv, Cached
      <4>2. cache[e] \in 1 .. n
        BY <4>1, <1>2 DEF Inv, Types
      <4> QED BY <1>5, <4>1, <4>2
    <3> QED BY <3>1, <3>2
  <2> QED BY <2>1, <2>2 DEF Cached
<1>10. Fetched'
  <2> SUFFICES ASSUME NEW g \in 1 .. Len(fetches'), fetches'[g].status = "resolved"
               PROVE  /\ fetches'[g].state.epoch \in 1 .. Len(epochs')
                      /\ epochs'[fetches'[g].state.epoch] = fetches'[g].state
                      /\ fetches'[g].epochId # 0 =>
                           fetches'[g].state.epoch = fetches'[g].epochId
    BY DEF Fetched, isEpoch
  <2>1. g \in 1 .. n
    BY <1>5
  <2> QED BY <1>2, <1>5, <2>1 DEF Inv, Fetched, isEpoch
<1>11. Waiting'
  <2> SUFFICES ASSUME NEW d \in Caller, caller'[d].pc = "awaiting"
               PROVE  /\ caller'[d].fetch # 0
                      /\ fetches'[caller'[d].fetch].epochId = caller'[d].epochId
                      /\ caller'[d].askedAt <= Len(epochs')
                      /\ (/\ caller'[d].epochId = 0
                          /\ fetches'[caller'[d].fetch].status = "resolved") =>
                           fetches'[caller'[d].fetch].state.epoch >= caller'[d].askedAt
    BY DEF Waiting
  <2>1. CASE d = c
    <3>1. caller'[d] = x
      BY <1>4, <2>1 DEF Inv, Types
    <3>2. Len(epochs) <= Len(epochs')
      BY <1>2
    <3>3. epochId = 0 => fetches'[f].status # "resolved"
      BY <1>5
    <3>4. f # 0
      BY <1>5
    <3> QED BY <1>3, <1>5, <3>1, <3>2, <3>3, <3>4
  <2>2. CASE d # c
    <3>1. caller'[d] = caller[d] /\ caller[d] \in CallerState
      BY <1>4, <2>2 DEF Inv, Types
    <3>2. caller[d].fetch # 0 /\ caller[d].fetch \in 1 .. n
      BY <3>1 DEF Inv, Waiting, CallerState
    <3>3. fetches'[caller[d].fetch] = fetches[caller[d].fetch]
      BY <1>5, <3>2
    <3> QED BY <1>2, <3>1, <3>2, <3>3 DEF Inv, Waiting
  <2> QED BY <2>1, <2>2
<1>12. /\ \A d \in Caller : d # c => caller'[d] = caller[d]
       /\ caller'[c].pc = "awaiting" /\ caller'[c].selected = <<>>
  BY <1>3, <1>4 DEF Inv, Types
<1>13. Unchosen'
  BY <1>12 DEF Inv, Unchosen
<1>14. Chosen'
  BY <1>2, <1>12 DEF Inv, Chosen, isEpoch
<1>15. Choosing'
  BY <1>12 DEF Inv, Choosing
<1> QED BY <1>8, <1>9, <1>10, <1>11, <1>13, <1>14, <1>15 DEF Inv

LEMMA NewEpochInv == ASSUME Inv, NewEpoch PROVE Inv'
<1>1. PICK witnesses \in Lists, required \in Required :
        epochs' = Append(epochs, State(Len(epochs) + 1, witnesses, required))
  BY DEF NewEpoch
<1> DEFINE n == Len(epochs)
           new == State(n + 1, witnesses, required)
<1>2. n \in 1 .. MaxEpoch /\ n + 1 \in 1 .. MaxEpoch /\ epochs \in Seq(EpochState)
  BY Bounds DEF NewEpoch, Inv, Types
<1>3. new \in EpochState /\ new.epoch = n + 1
  BY <1>2 DEF State, EpochState
<1> HIDE DEF new
<1>4. /\ epochs' \in Seq(EpochState) /\ Len(epochs') = n + 1 /\ epochs'[n + 1] = new
      /\ \A e \in 1 .. n : epochs'[e] = epochs[e]
  BY <1>1, <1>2, <1>3, AppendProperties DEF new
<1>5. /\ UNCHANGED <<made, cache, fetches, caller>>
      /\ \A e \in 1 .. n : e \in 1 .. Len(epochs') /\ epochs'[e] = epochs[e]
  BY <1>2, <1>4 DEF NewEpoch
<1>6. Types'
  BY <1>2, <1>4, <1>5 DEF Inv, Types, CallerState
<1>7. Numbered'
  BY <1>2, <1>3, <1>4 DEF Inv, Numbered
<1>8. Cached' /\ Unchosen' /\ Choosing'
  BY <1>5 DEF Inv, Cached, Unchosen, Choosing
<1>9. Fetched'
  BY <1>5 DEF Inv, Fetched, isEpoch
<1>10. Waiting'
  <2>1. \A d \in Caller : caller[d].askedAt \in Nat
    BY DEF Inv, Types, CallerState
  <2> QED BY <1>2, <1>4, <1>5, <2>1 DEF Inv, Waiting
<1>11. Chosen'
  BY <1>5 DEF Inv, Chosen, isEpoch
<1> QED BY <1>6, <1>7, <1>8, <1>9, <1>10, <1>11 DEF Inv

\* A call of the contract ends.
LEMMA ContractInv ==
  ASSUME Inv, NEW f \in 1 .. Len(fetches), Contract(f)
  PROVE  Inv'
<1>1. /\ fetches[f] \in Fetch /\ fetches \in Seq(Fetch) /\ Len(fetches) \in Nat
      /\ fetches[f].status = "pending" /\ UNCHANGED <<epochs, made, cache, caller>>
  BY DEF Inv, Types, Contract, Answered, NotAnswered
<1>2. \E g \in Fetch :
        /\ fetches' = [fetches EXCEPT ![f] = g]
        /\ g.epochId = fetches[f].epochId
        /\ g.status = "resolved" =>
             /\ isEpoch(g.state)
             /\ g.epochId # 0 => g.state.epoch = g.epochId
             /\ g.epochId = 0 => g.state.epoch = Len(epochs)
  <2>1. CASE fetches' = [fetches EXCEPT ![f].status = "rejected"]
    <3> DEFINE g == [fetches[f] EXCEPT !.status = "rejected"]
    <3>1. g \in Fetch /\ g.status = "rejected" /\ g.epochId = fetches[f].epochId
      BY <1>1 DEF Fetch
    <3>2. fetches' = [fetches EXCEPT ![f] = g]
      BY <2>1
    <3> HIDE DEF g
    <3> QED BY <3>1, <3>2
  <2>2. CASE fetches' # [fetches EXCEPT ![f].status = "rejected"]
    <3> DEFINE e == IF fetches[f].epochId = 0 THEN Len(epochs) ELSE fetches[f].epochId
               g == [fetches[f] EXCEPT !.status = "resolved", !.state = epochs[e]]
    <3>1. e \in DOMAIN epochs
          /\ fetches' = [fetches EXCEPT ![f].status = "resolved", ![f].state = epochs[e]]
      BY <2>2, Zenon DEF Contract, Answered, NotAnswered
    <3>2. e \in 1 .. Len(epochs) /\ epochs[e] \in EpochState /\ epochs[e].epoch = e
      BY <3>1 DEF Inv, Types, Numbered
    <3>3. fetches' = [fetches EXCEPT ![f] = g]
      BY <1>1, <3>1
    <3>4. /\ g \in Fetch /\ g.state = epochs[e] /\ g.epochId = fetches[f].epochId
      BY <1>1, <3>2 DEF Fetch
    <3>5. /\ g.epochId # 0 => e = g.epochId
          /\ g.epochId = 0 => e = Len(epochs)
      BY <3>4
    <3> HIDE DEF g, e
    <3> QED BY <3>2, <3>3, <3>4, <3>5 DEF isEpoch
  <2> QED BY <2>1, <2>2
<1>3. PICK g \in Fetch :
        /\ fetches' = [fetches EXCEPT ![f] = g]
        /\ g.epochId = fetches[f].epochId
        /\ g.status = "resolved" =>
             /\ isEpoch(g.state)
             /\ g.epochId # 0 => g.state.epoch = g.epochId
             /\ g.epochId = 0 => g.state.epoch = Len(epochs)
  BY <1>2
<1>4. /\ fetches' \in Seq(Fetch) /\ Len(fetches') = Len(fetches)
      /\ \A k \in 1 .. Len(fetches) : fetches'[k] = IF k = f THEN g ELSE fetches[k]
  BY <1>1, <1>3, ExceptSeq
<1>5. \A k \in 1 .. Len(fetches) : fetches'[k].epochId = fetches[k].epochId
  BY <1>3, <1>4
<1>6. Types'
  BY <1>1, <1>4 DEF Inv, Types, CallerState
<1>7. Numbered' /\ Unchosen' /\ Choosing'
  BY <1>1 DEF Inv, Numbered, Unchosen, Choosing
<1>8. Chosen'
  BY <1>1 DEF Inv, Chosen, isEpoch
<1>9. Cached'
  <2>1. \A e \in 1 .. MaxEpoch : cache[e] # 0 => cache[e] \in 1 .. Len(fetches)
    BY <1>1 DEF Inv, Types
  <2> QED BY <1>1, <1>4, <1>5, <2>1 DEF Inv, Cached
<1>10. Fetched'
  BY <1>1, <1>3, <1>4 DEF Inv, Fetched, isEpoch
<1>11. Waiting'
  <2>1. \A d \in Caller : caller[d].pc = "awaiting" => caller[d].fetch \in 1 .. Len(fetches)
    BY <1>1 DEF Inv, Types, Waiting, CallerState
  <2>2. \A d \in Caller : caller[d].pc = "awaiting" => caller[d].askedAt <= Len(epochs)
    BY DEF Inv, Waiting
  <2> QED BY <1>1, <1>3, <1>4, <1>5, <2>1, <2>2 DEF Inv, Waiting
<1> QED BY <1>6, <1>7, <1>8, <1>9, <1>10, <1>11 DEF Inv

\* What else a caller does.
LEMMA AskInv ==
  ASSUME Inv, NEW c \in Caller, GetTrustedState(c) \/ GetNoBeacon(c)
  PROVE  Inv'
<1>1. /\ caller[c] \in CallerState /\ caller[c].pc = "start" /\ caller[c].selected = <<>>
      /\ caller[c].fetch = 0 /\ UNCHANGED <<epochs, cache, fetches>>
      /\ made' \subseteq {"contract", "trusted"}
  BY DEF Inv, Types, Unchosen, GetTrustedState, GetNoBeacon
<1>2. CASE GetTrustedState(c)
  <2> DEFINE x == select(caller[c], trusted)
  <2>1. x \in CallerState /\ Selection(x)
    BY <1>1, TrustedIsAState, SelectBegins
  <2>2. x.pc = "selecting" /\ x.fetch = 0
    BY <1>1 DEF select, CallerState
  <2>3. caller' = [caller EXCEPT ![c] = x]
    BY <1>2 DEF GetTrustedState, Set
  <2> HIDE DEF x
  <2> QED BY <1>1, <2>1, <2>2, <2>3, CallerStep
<1>3. CASE GetNoBeacon(c)
  <2> DEFINE x == [caller[c] EXCEPT !.pc = "failed"]
  <2>1. x \in CallerState /\ x.pc = "failed"
    BY <1>1 DEF CallerState
  <2>2. caller' = [caller EXCEPT ![c] = x]
    BY <1>3 DEF GetNoBeacon, Set
  <2> HIDE DEF x
  <2> QED BY <1>1, <2>1, <2>2, CallerStep
<1> QED BY <1>2, <1>3

LEMMA SettledInv == ASSUME Inv, NEW c \in Caller, Settled(c) PROVE Inv'
<1> DEFINE fetch == fetches[caller[c].fetch]
<1>1. /\ caller[c] \in CallerState /\ caller[c].pc = "awaiting" /\ caller[c].selected = <<>>
      /\ UNCHANGED <<epochs, cache, fetches>> /\ made' \subseteq {"contract", "trusted"}
  BY DEF Inv, Types, Unchosen, Settled
<1>2. /\ caller[c].fetch \in 1 .. Len(fetches) /\ fetch.epochId = caller[c].epochId
      /\ (caller[c].epochId = 0 /\ fetch.status = "resolved") =>
           fetch.state.epoch >= caller[c].askedAt
  BY <1>1 DEF Inv, Waiting, CallerState
<1>3. fetch \in Fetch
  BY <1>2 DEF Inv, Types
<1>4. CASE fetch.status = "resolved"
  <2> DEFINE x == select(caller[c], fetch.state)
  <2>1. fetch.state \in EpochState
    BY <1>3 DEF Fetch
  <2>2. x \in CallerState /\ Selection(x)
    BY <1>1, <2>1, SelectBegins
  <2>3. /\ x.pc = "selecting" /\ x.state = fetch.state /\ x.epochId = caller[c].epochId
        /\ x.askedAt = caller[c].askedAt
    BY <1>1 DEF select, CallerState
  <2>4. isEpoch(fetch.state) /\ (fetch.epochId # 0 => fetch.state.epoch = fetch.epochId)
    BY <1>2, <1>4 DEF Inv, Fetched
  <2>5. caller' = [caller EXCEPT ![c] = x]
    BY <1>4 DEF Settled, Set
  <2> HIDE DEF x, fetch
  <2> QED BY <1>1, <1>2, <1>4, <2>2, <2>3, <2>4, <2>5, CallerStep
<1>5. CASE fetch.status # "resolved"
  <2> DEFINE x == [caller[c] EXCEPT !.pc = "failed"]
  <2>1. x \in CallerState /\ x.pc = "failed"
    BY <1>1 DEF CallerState
  <2>2. caller' = [caller EXCEPT ![c] = x]
    BY <1>5 DEF Settled, Set
  <2> HIDE DEF x
  <2> QED BY <1>1, <2>1, <2>2, CallerStep
<1> QED BY <1>4, <1>5

LEMMA SelectInv ==
  ASSUME Inv, NEW c \in Caller, Select(c) \/ Selected(c)
  PROVE  Inv'
<1>1. /\ caller[c] \in CallerState /\ caller[c].pc = "selecting" /\ Selection(caller[c])
      /\ UNCHANGED <<epochs, cache, fetches>> /\ made' \subseteq {"contract", "trusted"}
  BY DEF Inv, Types, Choosing, Select, Selected
<1>2. caller[c].fetch # 0 =>
        /\ isEpoch(caller[c].state)
        /\ caller[c].epochId # 0 => caller[c].state.epoch = caller[c].epochId
        /\ caller[c].epochId = 0 => caller[c].state.epoch >= caller[c].askedAt
  BY <1>1 DEF Inv, Chosen
<1>3. CASE Select(c)
  <2> DEFINE x == afterTurn(caller[c])
  <2>1. x \in CallerState /\ Selection(x)
    BY <1>1, <1>3, TurnSelects DEF Select
  <2>2. /\ x.pc = "selecting" /\ x.fetch = caller[c].fetch /\ x.state = caller[c].state
        /\ x.epochId = caller[c].epochId /\ x.askedAt = caller[c].askedAt
    BY <1>1 DEF afterTurn, CallerState
  <2>3. caller' = [caller EXCEPT ![c] = x]
    BY <1>3 DEF Select, Set
  <2> HIDE DEF x
  <2> QED BY <1>1, <1>2, <2>1, <2>2, <2>3, CallerStep
<1>4. CASE Selected(c)
  <2> DEFINE x == [caller[c] EXCEPT !.pc = "selected"]
  <2>1. /\ x \in CallerState /\ x.pc = "selected"
        /\ x.fetch = caller[c].fetch /\ x.state = caller[c].state
        /\ x.epochId = caller[c].epochId /\ x.askedAt = caller[c].askedAt
        /\ x.selected = caller[c].selected /\ x.left = caller[c].left
    BY <1>1 DEF CallerState
  <2>2. caller' = [caller EXCEPT ![c] = x]
    BY <1>4 DEF Selected, Set
  <2> HIDE DEF x
  <2>3. Selection(x)
    BY <1>1, <2>1 DEF Selection
  <2>4. Len(x.selected) = x.state.required
    <3>1. Len(caller[c].selected) >= caller[c].state.required
      BY <1>4 DEF Selected
    <3>2. Len(caller[c].selected) <= caller[c].state.required
      BY <1>1 DEF Selection, SelectionOf
    <3>3. caller[c].state.required \in Nat /\ Len(caller[c].selected) \in Nat
      BY <1>1, ListsHaveNoDoubles DEF CallerState
    <3> QED BY <2>1, <3>1, <3>2, <3>3
  <2> QED BY <1>1, <1>2, <2>1, <2>2, <2>3, <2>4, CallerStep
<1> QED BY <1>3, <1>4

LEMMA NextInv == Inv /\ [Next]_vars => Inv'
<1> SUFFICES ASSUME Inv, [Next]_vars PROVE Inv'
  OBVIOUS
<1>1. ASSUME NEW c \in Caller, Ask(c) PROVE Inv'
  BY <1>1, GetStateInv, AskInv DEF Ask
<1>2. ASSUME NEW c \in Caller, GoOn(c) PROVE Inv'
  BY <1>2, SettledInv, SelectInv DEF GoOn
<1>3. ASSUME NEW f \in DOMAIN fetches, Contract(f) PROVE Inv'
  BY <1>3, ContractInv DEF Inv, Types
<1>4. CASE UNCHANGED vars
  BY <1>4 DEF vars, Inv, Types, CallerState, Numbered, Cached, Fetched, Waiting,
              Unchosen, Chosen, Choosing, isEpoch
<1> QED BY <1>1, <1>2, <1>3, <1>4, NewEpochInv DEF Next

\* All of it holds in every reachable state.
THEOREM Invariance == Spec => []Inv
<1> QED BY InitInv, NextInv, PTL DEF Spec

-----------------------------------------------------------------------------
\* Every reachable state is well typed: no turn of fetchWitnessListForClaim reads
\* a word that the hash does not have, and no caller waits for a fetch that was
\* never begun.
THEOREM TypeCorrect == Spec => []TypeOK
<1>1. Inv => TypeOK
  BY TypesAreTypeOK DEF Inv
<1> QED BY <1>1, Invariance, PTL

\* An epoch that is named is fetched once, for any number of callers
\* (makeBeaconCacheable).
THEOREM EpochsAreFetchedOnce == Spec => []OneFetchPerEpoch
<1>1. Inv => OneFetchPerEpoch
  BY DEF Inv, Types, Cached, OneFetchPerEpoch
<1> QED BY <1>1, Invariance, PTL

\* A caller chooses from the epoch that it named, or one that was current after
\* it asked.
THEOREM StatesAreOfTheirEpoch == Spec => []StateIsOfEpoch
<1>1. Inv => StateIsOfEpoch
  BY DEF Inv, Chosen, isEpoch, StateIsOfEpoch
<1> QED BY <1>1, Invariance, PTL

\* fetchWitnessListForClaim chooses as many witnesses as are required, all of
\* them different, from any list and with any hash.
THEOREM SelectionsAreComplete == Spec => []SelectionIsComplete
<1>1. Inv => SelectionIsComplete
  <2> SUFFICES ASSUME Inv, NEW c \in Caller, caller[c].pc = "selected"
               PROVE  LET x == caller[c]
                      IN  /\ Len(x.selected) = x.state.required
                          /\ \A i \in DOMAIN x.selected :
                               IF i <= Len(x.state.witnesses)
                               THEN /\ \E k \in DOMAIN x.state.witnesses :
                                         x.state.witnesses[k] = x.selected[i]
                                    /\ \A j \in 1 .. i - 1 : x.selected[j] # x.selected[i]
                               ELSE x.selected[i] = None
    BY DEF SelectionIsComplete
  <2> DEFINE x == caller[c]
  <2>1. x \in CallerState /\ Selection(x) /\ Len(x.selected) = x.state.required
    BY DEF Inv, Types, Choosing
  <2>2. /\ DOMAIN x.selected = 1 .. Len(x.selected)
        /\ DOMAIN x.state.witnesses = 1 .. Len(x.state.witnesses)
    BY <2>1, ListsHaveNoDoubles DEF CallerState
  <2>3. /\ Len(x.state.witnesses) \in Nat
        /\ \A i \in 1 .. Len(x.selected) : i \in Nat
    BY <2>1, ListsHaveNoDoubles DEF CallerState
  <2>4. ASSUME NEW i \in 1 .. Len(x.selected)
        PROVE  IF i <= Len(x.state.witnesses)
               THEN /\ \E k \in 1 .. Len(x.state.witnesses) :
                         x.state.witnesses[k] = x.selected[i]
                    /\ \A j \in 1 .. i - 1 : x.selected[j] # x.selected[i]
               ELSE x.selected[i] = None
    <3>1. i <= Len(x.state.witnesses) \/ i > Len(x.state.witnesses)
      BY <2>3
    <3> QED BY <2>1, <3>1, Zenon DEF Selection, SelectionOf
  <2> QED BY <2>1, <2>2, <2>4, Zenon
<1> QED BY <1>1, Invariance, PTL
-----------------------------------------------------------------------------
(* The witnesses of a claim are the same for whoever asks: the turns of      *)
(* fetchWitnessListForClaim go along one path for each claim and state, which *)
(* no caller leaves.  The path is as long as the farthest caller has come; a *)
(* caller that is behind finds its next turn on it, and the farthest adds one. *)

Key == Claim \X EpochState

\* What a turn reads and writes.
Core(x) == [claim |-> x.claim, state |-> x.state, left |-> x.left,
            selected |-> x.selected, word |-> x.word]

Beginning(claim, state) ==
  [claim |-> claim, state |-> state, left |-> state.witnesses,
   selected |-> <<>>, word |-> 1]

\* path[p] has the turns of p, length[p] of them.
IsPath(path, length) ==
  /\ length \in [Key -> Nat]
  /\ \A claim \in Claim, state \in EpochState :
       /\ path[<<claim, state>>][0] = Beginning(claim, state)
       /\ \A i \in 0 .. length[<<claim, state>>] - 1 :
            path[<<claim, state>>][i + 1] = afterTurn(path[<<claim, state>>][i])

IsOn(path, length, x) ==
  /\ Len(x.selected) <= length[<<x.claim, x.state>>]
  /\ path[<<x.claim, x.state>>][Len(x.selected)] = Core(x)

Choice(x) == x.pc \in {"selecting", "selected"}

Paths ==
  \E path, length :
    /\ IsPath(path, length)
    /\ \A c \in Caller : Choice(caller[c]) => IsOn(path, length, caller[c])

\* The first word is the first.
FirstWord == \A c \in Caller : caller[c].pc \in {"start", "awaiting"} => caller[c].word = 1

PathInv == Inv /\ Paths /\ FirstWord

\* A turn does the same to two callers with the same claim and state.
LEMMA CoreOfTurn ==
  ASSUME NEW x \in CallerState
  PROVE  Core(afterTurn(x)) = afterTurn(Core(x))
<1>1. PICK y : y = Core(x)
  OBVIOUS
<1>2. /\ y.claim = x.claim /\ y.state = x.state /\ y.left = x.left
      /\ y.selected = x.selected /\ y.word = x.word
  BY <1>1 DEF Core
<1>3. indexOf(y) = indexOf(x)
  BY <1>2 DEF indexOf
<1>4. CASE x.left = <<>>
  <2> DEFINE s == Append(x.selected, None)
             w == nextWord(x.word)
  <2>1. afterTurn(x) = [x EXCEPT !.selected = s, !.word = w]
    BY <1>4 DEF afterTurn
  <2>2. afterTurn(y) = [y EXCEPT !.selected = s, !.word = w]
    BY <1>2, <1>4 DEF afterTurn
  <2> HIDE DEF s, w
  <2> QED  BY <1>1, <2>1, <2>2 DEF Core, CallerState
<1>5. CASE x.left # <<>>
  <2> DEFINE at == indexOf(x)
             s == Append(x.selected, IF at <= Len(x.left) THEN x.left[at] ELSE None)
             l == without(x.left, at)
             w == nextWord(x.word)
  <2>1. afterTurn(x) = [x EXCEPT !.selected = s, !.left = l, !.word = w]
    BY <1>5 DEF afterTurn
  <2>2. afterTurn(y) = [y EXCEPT !.selected = s, !.left = l, !.word = w]
    BY <1>2, <1>3, <1>5 DEF afterTurn
  <2> HIDE DEF s, l, w
  <2> QED  BY <1>1, <2>1, <2>2 DEF Core, CallerState
<1> QED  BY <1>1, <1>4, <1>5

\* It selects one more witness, of the same claim and state.
LEMMA TurnCounts ==
  ASSUME NEW x \in CallerState
  PROVE  LET y == afterTurn(x)
         IN  /\ y.claim = x.claim /\ y.state = x.state /\ y.pc = x.pc
             /\ Len(y.selected) = Len(x.selected) + 1
<1>1. \A v : Len(Append(x.selected, v)) = Len(x.selected) + 1
  BY DEF CallerState
<1>2. CASE x.left = <<>>
  <2> DEFINE s == Append(x.selected, None)
             w == nextWord(x.word)
  <2>1. afterTurn(x) = [x EXCEPT !.selected = s, !.word = w]
    BY <1>2 DEF afterTurn
  <2>2. Len(s) = Len(x.selected) + 1
    BY <1>1
  <2> HIDE DEF s, w
  <2> QED  BY <2>1, <2>2 DEF CallerState
<1>3. CASE x.left # <<>>
  <2> DEFINE at == indexOf(x)
             s == Append(x.selected, IF at <= Len(x.left) THEN x.left[at] ELSE None)
             l == without(x.left, at)
             w == nextWord(x.word)
  <2>1. afterTurn(x) = [x EXCEPT !.selected = s, !.left = l, !.word = w]
    BY <1>3 DEF afterTurn
  <2>2. Len(s) = Len(x.selected) + 1
    BY <1>1
  <2> HIDE DEF s, l, w
  <2> QED  BY <2>1, <2>2 DEF CallerState
<1> QED  BY <1>2, <1>3

LEMMA PathStart == Init => PathInv
<1> SUFFICES ASSUME Init PROVE PathInv
  OBVIOUS
<1>1. \A c \in Caller : caller[c].pc = "start" /\ caller[c].word = 1
  BY DEF Init, Idle
<1>2. PICK length : length = [p \in Key |-> 0]
  OBVIOUS
<1>3. PICK path : path = [p \in Key |-> [i \in {0} |-> Beginning(p[1], p[2])]]
  OBVIOUS
<1>4. IsPath(path, length)
  BY <1>2, <1>3 DEF IsPath, Key
<1>5. Paths
  BY <1>1, <1>4 DEF Paths, Choice
<1> QED  BY <1>1, <1>5, InitInv DEF PathInv, FirstWord

\* A path can be followed to its next turn, on itself or on a longer one.
LEMMA PathGrows ==
  ASSUME NEW path, NEW length, IsPath(path, length),
         NEW x \in CallerState, IsOn(path, length, x)
  PROVE  \E path2, length2 :
           /\ IsPath(path2, length2)
           /\ \A y \in CallerState : IsOn(path, length, y) => IsOn(path2, length2, y)
           /\ IsOn(path2, length2, afterTurn(x))
<1>1. /\ x.claim \in Claim /\ x.state \in EpochState
      /\ Len(x.selected) \in Nat
      /\ <<x.claim, x.state>> \in Key
  BY DEF CallerState, Key
<1>2. PICK p, n : p = <<x.claim, x.state>> /\ n = Len(x.selected)
  OBVIOUS
<1>3. /\ p \in Key /\ n \in Nat /\ length[p] \in Nat /\ n <= length[p]
      /\ path[p][n] = Core(x)
  BY <1>1, <1>2 DEF IsPath, IsOn
<1>4. PICK z : z = afterTurn(x)
  OBVIOUS
<1>5. /\ z.claim = x.claim /\ z.state = x.state /\ Len(z.selected) = n + 1
      /\ Core(z) = afterTurn(path[p][n])
  BY <1>2, <1>3, <1>4, CoreOfTurn, TurnCounts
<1>6. CASE n < length[p]
  <2>1. n \in 0 .. length[p] - 1
    BY <1>3, <1>6
  <2>2. path[p][n + 1] = afterTurn(path[p][n])
    BY <1>1, <1>2, <2>1 DEF IsPath
  <2>3. n + 1 <= length[p]
    BY <1>3, <1>6
  <2>4. IsOn(path, length, z)
    BY <1>2, <1>5, <2>2, <2>3 DEF IsOn
  <2> QED  BY <1>4, <2>4
<1>7. CASE n = length[p]
  <2>1. PICK length2 : length2 = [length EXCEPT ![p] = n + 1]
    OBVIOUS
  <2>2. PICK path2 :
          path2 = [q \in Key |->
                     IF q = p THEN [i \in 0 .. n + 1 |-> IF i <= n THEN path[p][i]
                                                         ELSE afterTurn(path[p][n])]
                              ELSE path[q]]
    OBVIOUS
  <2>3. /\ length2 \in [Key -> Nat] /\ length2[p] = n + 1
        /\ \A q \in Key : q # p => length2[q] = length[q] /\ path2[q] = path[q]
    BY <1>3, <2>1, <2>2 DEF IsPath
  <2>4. /\ \A i \in 0 .. n : path2[p][i] = path[p][i]
        /\ path2[p][n + 1] = afterTurn(path[p][n])
    <3>1. path2[p] = [i \in 0 .. n + 1 |-> IF i <= n THEN path[p][i]
                                           ELSE afterTurn(path[p][n])]
      BY <1>3, <2>2
    <3>2. n + 1 \in 0 .. n + 1 /\ ~(n + 1 <= n)
      BY <1>3
    <3>3. \A i \in 0 .. n : i \in 0 .. n + 1 /\ i <= n
      BY <1>3
    <3> QED  BY <3>1, <3>2, <3>3
  <2>5. IsPath(path2, length2)
    <3>1. ASSUME NEW claim \in Claim, NEW state \in EpochState
          PROVE  /\ path2[<<claim, state>>][0] = Beginning(claim, state)
                 /\ \A i \in 0 .. length2[<<claim, state>>] - 1 :
                      path2[<<claim, state>>][i + 1]
                        = afterTurn(path2[<<claim, state>>][i])
      <4>0. <<claim, state>> \in Key
        BY DEF Key
      <4>1. PICK q : q = <<claim, state>> /\ q \in Key
        BY <4>0
      <4>2. /\ path[q][0] = Beginning(claim, state)
            /\ \A i \in 0 .. length[q] - 1 : path[q][i + 1] = afterTurn(path[q][i])
        BY <4>1 DEF IsPath
      <4>3. CASE q # p
        <5>1. length2[q] = length[q] /\ path2[q] = path[q]
          BY <2>3, <4>1, <4>3
        <5> QED  BY <4>1, <4>2, <5>1
      <4>4. CASE q = p
        <5>1. 0 \in 0 .. n
          BY <1>3
        <5>2. ASSUME NEW i \in 0 .. n
              PROVE  path2[p][i + 1] = afterTurn(path2[p][i])
          <6>1. CASE i = n
            BY <1>3, <2>4, <6>1
          <6>2. CASE i # n
            <7>1. i \in 0 .. n - 1 /\ i \in 0 .. n /\ i + 1 \in 0 .. n
              BY <1>3, <6>2
            <7> QED  BY <1>7, <2>4, <4>2, <4>4, <7>1
          <6> QED  BY <6>1, <6>2
        <5>3. length2[q] - 1 = n
          BY <1>3, <2>3, <4>4
        <5> QED  BY <2>4, <4>1, <4>2, <4>4, <5>1, <5>2, <5>3
      <4> QED  BY <4>3, <4>4
    <3> QED  BY <2>3, <3>1 DEF IsPath
  <2>6. ASSUME NEW y \in CallerState, IsOn(path, length, y)
        PROVE  IsOn(path2, length2, y)
    <3>0. <<y.claim, y.state>> \in Key
      BY DEF CallerState, Key
    <3>1. PICK q : q = <<y.claim, y.state>> /\ q \in Key
      BY <3>0
    <3>2. PICK m : m = Len(y.selected) /\ m \in Nat
      BY SMTT(30) DEF CallerState
    <3>3. m <= length[q] /\ path[q][m] = Core(y)
      BY <2>6, <3>1, <3>2 DEF IsOn
    <3>4. CASE q # p
      <4>1. length2[q] = length[q] /\ path2[q] = path[q]
        BY <2>3, <3>1, <3>4
      <4> QED  BY <3>1, <3>2, <3>3, <4>1 DEF IsOn
    <3>5. CASE q = p
      <4>1. m \in 0 .. n /\ m <= n + 1
        BY <1>3, <1>7, <3>2, <3>3, <3>5
      <4>2. path2[q][m] = Core(y) /\ m <= length2[q]
        BY <2>3, <2>4, <3>3, <3>5, <4>1
      <4> QED  BY <3>1, <3>2, <4>2 DEF IsOn
    <3> QED  BY <3>4, <3>5
  <2>7. IsOn(path2, length2, z)
    <3>1. n + 1 <= length2[p]
      BY <1>3, <2>3
    <3> QED  BY <1>2, <1>5, <2>4, <3>1 DEF IsOn
  <2> QED  BY <1>4, <2>5, <2>6, <2>7
<1> QED  BY <1>3, <1>6, <1>7

\* Steps that choose no witness.
LEMMA PathKept ==
  ASSUME Paths,
         \A c \in Caller : Choice(caller'[c]) =>
           \/ Choice(caller[c]) /\ Core(caller'[c]) = Core(caller[c])
           \/ /\ caller'[c].claim \in Claim /\ caller'[c].state \in EpochState
              /\ Core(caller'[c]) = Beginning(caller'[c].claim, caller'[c].state)
  PROVE  Paths'
<1>1. PICK path, length :
        /\ IsPath(path, length)
        /\ \A c \in Caller : Choice(caller[c]) => IsOn(path, length, caller[c])
  BY DEF Paths
<1>2. ASSUME NEW c \in Caller, Choice(caller'[c])
      PROVE  IsOn(path, length, caller'[c])
  <2>1. PICK x, y : x = caller[c] /\ y = caller'[c]
    OBVIOUS
  <2>2. CASE Choice(x) /\ Core(y) = Core(x)
    <3>1. y.claim = x.claim /\ y.state = x.state /\ y.selected = x.selected
      BY <2>2 DEF Core
    <3> QED  BY <1>1, <2>1, <2>2, <3>1 DEF IsOn
  <2>3. CASE /\ y.claim \in Claim /\ y.state \in EpochState
             /\ Core(y) = Beginning(y.claim, y.state)
    <3>1. y.selected = <<>>
      BY <2>3 DEF Core, Beginning
    <3>2. <<y.claim, y.state>> \in Key
      BY <2>3 DEF Key
    <3>3. length[<<y.claim, y.state>>] \in Nat
      BY <1>1, <3>2 DEF IsPath
    <3>4. path[<<y.claim, y.state>>][0] = Core(y)
      BY <1>1, <2>3 DEF IsPath
    <3>5. Len(y.selected) = 0
      BY <3>1
    <3> QED  BY <2>1, <3>3, <3>4, <3>5 DEF IsOn
  <2> QED  BY <1>2, <2>1, <2>2, <2>3
<1> QED  BY <1>1, <1>2 DEF Paths

LEMMA PathTurn ==
  ASSUME PathInv, NEW c \in Caller, Select(c)
  PROVE  Paths'
<1>1. PICK path, length :
        /\ IsPath(path, length)
        /\ \A d \in Caller : Choice(caller[d]) => IsOn(path, length, caller[d])
  BY DEF PathInv, Paths
<1>2. caller \in [Caller -> CallerState]
  BY DEF PathInv, Inv, Types
<1>3. PICK x : x = caller[c] /\ x \in CallerState /\ Choice(x)
  BY <1>2 DEF Select, Choice
<1>4. PICK path2, length2 :
        /\ IsPath(path2, length2)
        /\ \A y \in CallerState : IsOn(path, length, y) => IsOn(path2, length2, y)
        /\ IsOn(path2, length2, afterTurn(x))
  BY <1>1, <1>3, PathGrows
<1>5. caller' = [caller EXCEPT ![c] = afterTurn(x)]
  BY <1>3 DEF Select, Set
<1>6. ASSUME NEW d \in Caller, Choice(caller'[d])
      PROVE  IsOn(path2, length2, caller'[d])
  <2>1. CASE d = c
    BY <1>2, <1>4, <1>5, <2>1
  <2>2. CASE d # c
    <3>1. caller'[d] = caller[d] /\ caller[d] \in CallerState
      BY <1>2, <1>5, <2>2
    <3> QED  BY <1>1, <1>4, <1>6, <3>1
  <2> QED  BY <2>1, <2>2
<1> QED  BY <1>4, <1>6 DEF Paths

LEMMA PathNext == PathInv /\ [Next]_vars => PathInv'
<1> SUFFICES ASSUME PathInv, [Next]_vars PROVE PathInv'
  OBVIOUS
<1>1. Inv /\ Inv' /\ Paths /\ FirstWord
  BY NextInv DEF PathInv
<1>2. caller \in [Caller -> CallerState]
  BY <1>1 DEF Inv, Types
<1>3. ASSUME UNCHANGED caller PROVE Paths' /\ FirstWord'
  BY <1>1, <1>3 DEF Paths, FirstWord
<1>4. ASSUME NEW c \in Caller, NEW y, caller' = [caller EXCEPT ![c] = y],
             y.pc \in {"start", "awaiting"} => y.word = 1,
             Choice(y) =>
               \/ Choice(caller[c]) /\ Core(y) = Core(caller[c])
               \/ /\ y.claim \in Claim /\ y.state \in EpochState
                  /\ Core(y) = Beginning(y.claim, y.state)
      PROVE  Paths' /\ FirstWord'
  <2>1. FirstWord'
    BY <1>1, <1>2, <1>4 DEF FirstWord
  <2>2. ASSUME NEW d \in Caller, Choice(caller'[d])
        PROVE  \/ Choice(caller[d]) /\ Core(caller'[d]) = Core(caller[d])
               \/ /\ caller'[d].claim \in Claim /\ caller'[d].state \in EpochState
                  /\ Core(caller'[d]) = Beginning(caller'[d].claim, caller'[d].state)
    <3>1. CASE d = c
      BY <1>2, <1>4, <2>2, <3>1
    <3>2. CASE d # c
      <4>1. caller'[d] = caller[d]
        BY <1>2, <1>4, <3>2
      <4> QED  BY <2>2, <4>1
    <3> QED  BY <3>1, <3>2
  <2>3. Paths'
    BY <1>1, <2>2, PathKept
  <2> QED  BY <2>1, <2>3
<1>5. ASSUME NEW c \in Caller, NEW state \in EpochState,
             caller[c].pc \in {"start", "awaiting"},
             Set(c, select(caller[c], state))
      PROVE  Paths' /\ FirstWord'
  <2>1. PICK x : /\ x = caller[c] /\ x \in CallerState /\ x.word = 1
                 /\ x.selected = <<>>
    BY <1>1, <1>2, <1>5 DEF FirstWord, Inv, Unchosen
  <2>2. PICK y : y = select(x, state)
    OBVIOUS
  <2>3. /\ y.pc = "selecting" /\ y.claim \in Claim /\ y.claim = x.claim
        /\ y.state = state /\ y.left = state.witnesses /\ y.selected = <<>>
        /\ y.word = 1
    BY <2>1, <2>2 DEF select, CallerState
  <2>4. Core(y) = Beginning(y.claim, y.state)
    BY <2>3 DEF Core, Beginning
  <2>5. caller' = [caller EXCEPT ![c] = y]
    BY <1>5, <2>1, <2>2 DEF Set
  <2> QED  BY <1>4, <2>3, <2>4, <2>5
<1>6. ASSUME NEW c \in Caller, GetState(c) PROVE Paths' /\ FirstWord'
  <2>1. PICK x : x = caller[c] /\ x \in CallerState /\ x.pc = "start" /\ x.word = 1
    BY <1>1, <1>2, <1>6 DEF FirstWord, GetState
  <2>2. PICK epochId, f :
          caller' = [caller EXCEPT ![c] =
                       [x EXCEPT !.pc = "awaiting", !.epochId = epochId,
                                 !.askedAt = Len(epochs), !.fetch = f]]
    <3>1. PICK epochId \in 0 .. MaxEpoch :
            LET asked == [x EXCEPT !.pc = "awaiting", !.epochId = epochId,
                                   !.askedAt = Len(epochs)]
            IN  \E f : Set(c, [asked EXCEPT !.fetch = f])
      BY <1>6, <2>1 DEF GetState
    <3>2. PICK f : Set(c, [x EXCEPT !.pc = "awaiting", !.epochId = epochId,
                                    !.askedAt = Len(epochs), !.fetch = f])
      BY <3>1
    <3> QED  BY <3>2 DEF Set
  <2>3. PICK y : y = [x EXCEPT !.pc = "awaiting", !.epochId = epochId,
                               !.askedAt = Len(epochs), !.fetch = f]
    OBVIOUS
  <2>4. y.pc = "awaiting" /\ y.word = 1
    BY <2>1, <2>3 DEF CallerState
  <2> QED  BY <1>4, <2>2, <2>3, <2>4 DEF Choice
<1>7. ASSUME NEW c \in Caller, GetTrustedState(c) PROVE Paths' /\ FirstWord'
  BY <1>5, <1>7, TrustedIsAState DEF GetTrustedState
<1>8. ASSUME NEW c \in Caller, Set(c, [caller[c] EXCEPT !.pc = "failed"])
      PROVE  Paths' /\ FirstWord'
  <2>1. PICK y : y = [caller[c] EXCEPT !.pc = "failed"]
    OBVIOUS
  <2>2. y.pc = "failed"
    BY <1>2, <2>1 DEF CallerState
  <2> QED  BY <1>4, <1>8, <2>1, <2>2 DEF Choice, Set
<1>9. ASSUME NEW c \in Caller, Settled(c) PROVE Paths' /\ FirstWord'
  <2>1. /\ caller[c].pc = "awaiting" /\ caller[c].fetch \in 1 .. Len(fetches)
    BY <1>1, <1>2, <1>9 DEF Settled, Inv, Waiting, CallerState
  <2>2. fetches[caller[c].fetch] \in Fetch
    BY <1>1, <2>1 DEF Inv, Types
  <2>3. PICK fetch : fetch = fetches[caller[c].fetch] /\ fetch.state \in EpochState
    BY <2>2 DEF Fetch
  <2>4. CASE fetch.status = "resolved"
    <3>1. Set(c, select(caller[c], fetch.state))
      BY <1>9, <2>3, <2>4 DEF Settled
    <3> QED  BY <1>5, <2>1, <2>3, <3>1
  <2>5. CASE fetch.status # "resolved"
    <3>1. Set(c, [caller[c] EXCEPT !.pc = "failed"])
      BY <1>9, <2>3, <2>5 DEF Settled
    <3> QED  BY <1>8, <3>1
  <2> QED  BY <2>4, <2>5
<1>10. ASSUME NEW c \in Caller, Select(c) PROVE Paths' /\ FirstWord'
  <2>1. caller[c] \in CallerState /\ caller[c].pc = "selecting"
    BY <1>2, <1>10 DEF Select
  <2>2. afterTurn(caller[c]).pc = "selecting"
    BY <2>1, TurnCounts
  <2>3. FirstWord'
    BY <1>1, <1>2, <1>10, <2>2 DEF FirstWord, Select, Set
  <2> QED  BY <1>10, <2>3, PathTurn
<1>11. ASSUME NEW c \in Caller, Selected(c) PROVE Paths' /\ FirstWord'
  <2>1. PICK x : x = caller[c] /\ x \in CallerState /\ x.pc = "selecting"
    BY <1>2, <1>11 DEF Selected
  <2>2. PICK y : y = [x EXCEPT !.pc = "selected"]
    OBVIOUS
  <2>3. y.pc = "selected" /\ Core(y) = Core(x)
    BY <2>1, <2>2 DEF CallerState, Core
  <2>4. caller' = [caller EXCEPT ![c] = y]
    BY <1>11, <2>1, <2>2 DEF Selected, Set
  <2> QED  BY <1>4, <2>1, <2>3, <2>4 DEF Choice
<1>12. Paths' /\ FirstWord'
  <2>1. ASSUME NEW c \in Caller, Ask(c) \/ GoOn(c) PROVE Paths' /\ FirstWord'
    <3>1. CASE GetNoBeacon(c)
      BY <1>8, <3>1 DEF GetNoBeacon
    <3> QED
      BY <1>6, <1>7, <1>9, <1>10, <1>11, <2>1, <3>1 DEF Ask, GoOn
  <2>2. CASE NewEpoch \/ \E f \in DOMAIN fetches : Contract(f)
    BY <1>3, <2>2 DEF NewEpoch, Contract, Answered, NotAnswered
  <2> QED  BY <1>3, <2>1, <2>2 DEF Next, vars
<1> QED  BY <1>1, <1>12 DEF PathInv

\* The witnesses of a claim in an epoch are the same for whoever asks, for any
\* number of callers that choose together, any hash and any lists of witnesses.
THEOREM SameWitnessesForAll == Spec => []SameClaimSameWitnesses
<1>1. ASSUME PathInv PROVE SameClaimSameWitnesses
  <2> SUFFICES ASSUME NEW c \in Caller, NEW d \in Caller,
                      caller[c].pc = "selected", caller[d].pc = "selected",
                      caller[c].fetch # 0, caller[d].fetch # 0,
                      caller[c].claim = caller[d].claim,
                      caller[c].state.epoch = caller[d].state.epoch
               PROVE  caller[c].selected = caller[d].selected
    BY DEF SameClaimSameWitnesses
  <2>1. PICK path, length :
          \A e \in Caller : Choice(caller[e]) => IsOn(path, length, caller[e])
    BY <1>1 DEF PathInv, Paths
  <2>2. caller[c].state = caller[d].state
    BY <1>1 DEF PathInv, Inv, Chosen, isEpoch
  <2>3. Len(caller[c].selected) = Len(caller[d].selected)
    BY <1>1, <2>2 DEF PathInv, Inv, Choosing
  <2>4. Core(caller[c]) = Core(caller[d])
    BY <2>1, <2>2, <2>3 DEF Choice, IsOn
  <2> QED  BY <2>4 DEF Core
<1> QED  BY <1>1, PathStart, PathNext, PTL DEF Spec
=============================================================================
