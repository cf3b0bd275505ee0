------------------------------- MODULE Beacon -------------------------------
(***************************************************************************)
(* Beacons and the choice of witnesses (beacon/, utils/beacon.js): callers *)
(* that run together ask a beacon for the state of an epoch, which it      *)
(* fetches from the contract and may keep, and choose the witnesses of     *)
(* their claim from it.                                                    *)
(*                                                                         *)
(* The contract is external: it has epochs 1, 2, ..., of which the last is *)
(* current, and may fail to answer.  A claim is known by what keccak256    *)
(* makes of it.                                                            *)
(***************************************************************************)
EXTENDS Integers, FiniteSets, Sequences

CONSTANTS
  Caller,
  Witness,
  Lists,          \* lists of witnesses that the contract may have
  Required,       \* values of witnessesRequiredForClaim
  Claim,
  Hash(_, _, _),  \* of a claim, an epoch and witnessesRequiredForClaim: words of 32 bits
  HashWords,      \* words of a hash, 8 of keccak256
  TrustedList,    \* the only witness of the trusted beacon
  MaxEpoch,       \* bound: epochs
  None            \* undefined

State(epoch, witnesses, required) ==
  [epoch |-> epoch, witnesses |-> witnesses, required |-> required]

trusted == State(1, TrustedList, 1)

ASSUME BeaconAssumption ==
  /\ None \notin Witness
  /\ Lists \cup {TrustedList} \subseteq Seq(Witness)
  /\ \A list \in Lists \cup {TrustedList} :
       \A i, j \in DOMAIN list : list[i] = list[j] => i = j
  /\ Required \subseteq Nat
  /\ HashWords \in Nat \ {0}
  /\ MaxEpoch \in Nat \ {0}
  /\ \A claim \in Claim, epoch \in 1 .. MaxEpoch, required \in Required \cup {1} :
       Hash(claim, epoch, required) \in [1 .. HashWords -> Nat]

VARIABLES
  epochs,   \* the epochs of the contract
  made,     \* BEACON_MAP
  cache,    \* the fetch that makeBeaconCacheable keeps of each epoch
  fetches,  \* the calls of the contract
  caller

vars == <<epochs, made, cache, fetches, caller>>

EpochState == [epoch : 1 .. MaxEpoch, witnesses : Lists \cup {TrustedList},
               required : Required \cup {1}]

Idle(claim) ==
  [pc |-> "start", claim |-> claim, epochId |-> 0, askedAt |-> 0, fetch |-> 0,
   state |-> trusted, left |-> <<>>, selected |-> <<>>, word |-> 1]

Init ==
  /\ \E witnesses \in Lists, required \in Required :
       epochs = <<State(1, witnesses, required)>>
  /\ made = {}
  /\ cache = [e \in 1 .. MaxEpoch |-> 0]
  /\ fetches = <<>>
  /\ \E claims \in [Caller -> Claim] : caller = [c \in Caller |-> Idle(claims[c])]

-----------------------------------------------------------------------------
(* The beacons.                                                             *)

Set(c, x) == caller' = [caller EXCEPT ![c] = x]

\* Mutant: an epoch is kept when its fetch is over.
isKeptWhenOver(epochId) ==
  epochId # 0 /\ cache[epochId] # 0 /\ fetches[cache[epochId]].status # "pending"

isKept(epochId) == epochId # 0 /\ cache[epochId] # 0

\* Mutant: the state of the current epoch is kept with that of the first one.
kept(epochId, f) == [cache EXCEPT ![IF epochId = 0 THEN 1 ELSE epochId] = f]

keep(epochId, f) == IF epochId = 0 THEN cache ELSE [cache EXCEPT ![epochId] = f]

\* getBeacon, and getState of a beacon of the contract; epochId 0 is absent.
GetState(c) ==
  /\ caller[c].pc = "start"
  /\ made' = made \cup {"contract"}
  /\ \E epochId \in 0 .. MaxEpoch :
       LET f == Len(fetches) + 1
           asked == [caller[c] EXCEPT !.pc = "awaiting", !.epochId = epochId,
                                      !.askedAt = Len(epochs)]
       IN  IF isKept(epochId)
           THEN /\ Set(c, [asked EXCEPT !.fetch = cache[epochId]])
                /\ UNCHANGED <<cache, fetches>>
           ELSE /\ fetches' = Append(fetches, [epochId |-> epochId, status |-> "pending",
                                               state |-> trusted])
                /\ cache' = keep(epochId, f)
                /\ Set(c, [asked EXCEPT !.fetch = f])
  /\ UNCHANGED epochs

select(x, state) == [x EXCEPT !.pc = "selecting", !.state = state, !.left = state.witnesses]

\* The trusted beacon has one state, whatever the epoch asked for.
GetTrustedState(c) ==
  /\ caller[c].pc = "start"
  /\ made' = made \cup {"trusted"}
  /\ Set(c, select(caller[c], trusted))
  /\ UNCHANGED <<epochs, cache, fetches>>

\* getBeacon and getContract throw: an unknown type, identifier or chain.
GetNoBeacon(c) ==
  /\ caller[c].pc = "start"
  /\ Set(c, [caller[c] EXCEPT !.pc = "failed"])
  /\ UNCHANGED <<epochs, made, cache, fetches>>

-----------------------------------------------------------------------------
(* The contract.                                                            *)

NewEpoch ==
  /\ Len(epochs) < MaxEpoch
  /\ \E witnesses \in Lists, required \in Required :
       epochs' = Append(epochs, State(Len(epochs) + 1, witnesses, required))
  /\ UNCHANGED <<made, cache, fetches, caller>>

\* fetchEpoch answers: an epoch that is not there yet has no identifier, which
\* getState makes an error.
Answered(f) ==
  /\ fetches[f].status = "pending"
  /\ LET epochId == IF fetches[f].epochId = 0 THEN Len(epochs) ELSE fetches[f].epochId
     IN  fetches' = IF epochId \in DOMAIN epochs
                    THEN [fetches EXCEPT ![f].status = "resolved", ![f].state = epochs[epochId]]
                    ELSE [fetches EXCEPT ![f].status = "rejected"]
  /\ UNCHANGED <<epochs, made, cache, caller>>

\* The network fails.
NotAnswered(f) ==
  /\ fetches[f].status = "pending"
  /\ fetches' = [fetches EXCEPT ![f].status = "rejected"]
  /\ UNCHANGED <<epochs, made, cache, caller>>

\* The promise of a caller.
Settled(c) ==
  /\ caller[c].pc = "awaiting"
  /\ LET fetch == fetches[caller[c].fetch]
     IN  CASE fetch.status = "resolved" -> Set(c, select(caller[c], fetch.state))
           [] fetch.status = "rejected" -> Set(c, [caller[c] EXCEPT !.pc = "failed"])
           [] OTHER -> FALSE
  /\ UNCHANGED <<epochs, made, cache, fetches>>

-----------------------------------------------------------------------------
(* fetchWitnessListForClaim.                                                *)

\* Mutant: the last witness is dropped, and not put where the selected one was.
withoutLast(left, at) == SubSeq(left, 1, Len(left) - 1)

\* The last witness takes the place of the one selected.
without(left, at) ==
  [i \in 1 .. Len(left) - 1 |-> IF i = at THEN left[Len(left)] ELSE left[i]]

nextWord(word) == (word % HashWords) + 1

indexOf(x) ==
  (Hash(x.claim, x.state.epoch, x.state.required)[x.word] % Len(x.left)) + 1

\* One turn of the loop: without witnesses left the index is NaN, and undefined
\* is selected.
afterTurn(x) ==
  IF x.left = <<>>
  THEN [x EXCEPT !.selected = Append(@, None), !.word = nextWord(@)]
  ELSE LET at == indexOf(x)
       IN  [x EXCEPT !.selected = Append(@, IF at <= Len(x.left) THEN x.left[at] ELSE None),
                     !.left = without(@, at),
                     !.word = nextWord(@)]

\* Mutant: the witnesses are taken from the state that the cache keeps.
SelectInPlace(c) ==
  /\ caller[c].pc = "selecting"
  /\ Len(caller[c].selected) < caller[c].state.required
  /\ Set(c, afterTurn(caller[c]))
  /\ fetches' = IF caller[c].fetch = 0 THEN fetches
                ELSE [fetches EXCEPT ![caller[c].fetch].state.witnesses = afterTurn(caller[c]).left]
  /\ UNCHANGED <<epochs, made, cache>>

Select(c) ==
  /\ caller[c].pc = "selecting"
  /\ Len(caller[c].selected) < caller[c].state.required
  /\ Set(c, afterTurn(caller[c]))
  /\ UNCHANGED <<epochs, made, cache, fetches>>

Selected(c) ==
  /\ caller[c].pc = "selecting"
  /\ Len(caller[c].selected) >= caller[c].state.required
  /\ Set(c, [caller[c] EXCEPT !.pc = "selected"])
  /\ UNCHANGED <<epochs, made, cache, fetches>>

-----------------------------------------------------------------------------
Ask(c) == GetState(c) \/ GetTrustedState(c) \/ GetNoBeacon(c)

GoOn(c) == Settled(c) \/ Select(c) \/ Selected(c)

Contract(f) == Answered(f) \/ NotAnswered(f)

Next ==
  \/ \E c \in Caller : Ask(c) \/ GoOn(c)
  \/ NewEpoch
  \/ \E f \in DOMAIN fetches : Contract(f)

Spec == Init /\ [][Next]_vars

\* Promise jobs run, and a call of the contract ends.
FairSpec ==
  /\ Spec
  /\ \A c \in Caller : WF_vars(GoOn(c))
  /\ \A f \in 1 .. Cardinality(Caller) : WF_vars(f \in DOMAIN fetches /\ Contract(f))

-----------------------------------------------------------------------------
TypeOK ==
  /\ epochs \in Seq(EpochState) /\ Len(epochs) \in 1 .. MaxEpoch
  /\ made \subseteq {"contract", "trusted"}
  /\ cache \in [1 .. MaxEpoch -> 0 .. Len(fetches)]
  /\ fetches \in Seq([epochId : 0 .. MaxEpoch, state : EpochState,
                      status : {"pending", "resolved", "rejected"}])
  /\ caller \in [Caller ->
       [pc : {"start", "awaiting", "selecting", "selected", "failed"},
        claim : Claim, epochId : 0 .. MaxEpoch, askedAt : 0 .. MaxEpoch,
        fetch : 0 .. Len(fetches), state : EpochState, left : Seq(Witness),
        selected : Seq(Witness \cup {None}), word : 1 .. HashWords]]

\* A claim gets as many witnesses of the epoch as it requires, none of them
\* twice, though the words of the hash may lead to the same index, are used again
\* after the last one, and the list shrinks under the index; and undefined only
\* for those that the epoch does not have.
SelectionIsComplete ==
  \A c \in Caller : caller[c].pc = "selected" =>
    LET x == caller[c]
    IN  /\ Len(x.selected) = x.state.required
        /\ \A i \in DOMAIN x.selected :
             IF i <= Len(x.state.witnesses)
             THEN /\ \E k \in DOMAIN x.state.witnesses : x.state.witnesses[k] = x.selected[i]
                  /\ \A j \in 1 .. i - 1 : x.selected[j] # x.selected[i]
             ELSE x.selected[i] = None

\* An epoch that is named is fetched once, by however many callers and in
\* whatever order they ask.
OneFetchPerEpoch ==
  \A f, g \in DOMAIN fetches :
    fetches[f].epochId # 0 /\ fetches[f].epochId = fetches[g].epochId => f = g

\* A caller chooses from the epoch that it named, or from one that was current
\* after it asked: nothing older is kept.
StateIsOfEpoch ==
  \A c \in Caller :
    (caller[c].fetch # 0 /\ caller[c].pc \in {"selecting", "selected"}) =>
      LET x == caller[c]
      IN  /\ x.state = epochs[x.state.epoch]
          /\ IF x.epochId # 0 THEN x.state.epoch = x.epochId
                              ELSE x.state.epoch >= x.askedAt

\* The witnesses of a claim in an epoch are the same for whoever asks, in any
\* order, together or later: the choice leaves the state that is kept as it was.
SameClaimSameWitnesses ==
  \A c, d \in Caller :
    (/\ caller[c].pc = "selected" /\ caller[d].pc = "selected"
     /\ caller[c].fetch # 0 /\ caller[d].fetch # 0
     /\ caller[c].claim = caller[d].claim
     /\ caller[c].state.epoch = caller[d].state.epoch)
    => caller[c].selected = caller[d].selected

\* Who waits for a state or chooses witnesses comes to an end.
CallersSettle ==
  \A c \in Caller :
    caller[c].pc \in {"awaiting", "selecting"} ~> caller[c].pc \in {"selected", "failed"}
=============================================================================
