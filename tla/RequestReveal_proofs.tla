------------------------ MODULE RequestReveal_proofs ------------------------
(***************************************************************************)
(* Proofs about RequestReveal, for any requests: no key that is exported   *)
(* protects a section that is hidden, createRequest hides the secrets and  *)
(* nothing else, and so nothing that is revealed shows a secret; and the   *)
(* packets, as the witness reads them, are the request with its secrets    *)
(* redacted.  So what the witness claims of a body was sent, and it        *)
(* accepts what a client sent that told it all.  A template matches the    *)
(* strings that have the parts of its body, and no other.                  *)
(***************************************************************************)
EXTENDS RequestReveal, SequenceTheorems, FiniteSetTheorems, WellFoundedInduction, TLAPS

-----------------------------------------------------------------------------
(* The packets and their keys.                                              *)

PacketRecord ==
  [type : {"handshake", "data"}, section : Nat, key : Nat,
   reveal : {"none", "complete", "zk"}]

Sent == 1 .. Len(transcript)

isData(i) == transcript[i].type = "data"
shown(i) == sections[transcript[i].section].reveal

Types ==
  /\ transcript \in Seq(PacketRecord) /\ Len(transcript) \in Nat
  /\ key \in Nat /\ next \in Nat
  /\ redactionMode \in {"zk", "key-update"}
  /\ redactionMode = "key-update" => tlsVersion = "TLS1_3"

\* Keys grow, and each packet of the handshake is the last one under its key:
\* an update of the keys is sent under the old key.
KeysGrow ==
  redactionMode = "key-update" =>
    /\ \A i \in Sent :
         /\ transcript[i].key <= key
         /\ ~isData(i) => transcript[i].key < key
    /\ \A i, j \in Sent : i < j =>
         /\ transcript[i].key <= transcript[j].key
         /\ ~isData(i) => transcript[i].key < transcript[j].key

\* What the key in use has protected is revealed or hidden as the last section.
KeyInUse ==
  redactionMode = "key-update" =>
    \A i \in Sent : isData(i) /\ transcript[i].key = key =>
      /\ pc = "writing" => shown(i) = lastMsgRevealed
      /\ pc = "marking" => shown(i) = sections[next].reveal
      /\ pc # "updated"

\* A key protects only sections that are revealed, or only hidden ones.
OneKindPerKey ==
  redactionMode = "key-update" =>
    \A i, j \in Sent :
      isData(i) /\ isData(j) /\ transcript[i].key = transcript[j].key =>
        shown(i) = shown(j)

\* The packets that are revealed by their key are sections to reveal, and the
\* handshake before the first section.
Marks ==
  \A i \in Sent : transcript[i].reveal = "complete" =>
    /\ redactionMode = "key-update"
    /\ isData(i) => shown(i)
    /\ ~isData(i) => \A k \in 1 .. i : ~isData(k)

LastSent ==
  pc = "marking" =>
    /\ Len(transcript) \in Sent
    /\ isData(Len(transcript))
    /\ transcript[Len(transcript)].section = next

Inv == Types /\ KeysGrow /\ KeyInUse /\ OneKindPerKey /\ Marks /\ LastSent

LEMMA InvHides == Inv => HiddenKeysStaySecret
<1> SUFFICES ASSUME Inv, NEW i \in DOMAIN transcript, NEW j \in DOMAIN transcript,
                    transcript[i].reveal = "complete", transcript[j].type = "data",
                    transcript[i].key = transcript[j].key
             PROVE  sections[transcript[j].section].reveal
  BY DEF HiddenKeysStaySecret
<1>1. i \in Sent /\ j \in Sent /\ redactionMode = "key-update"
  BY DEF Inv, Types, Sent, Marks
<1>2. /\ transcript[i] \in PacketRecord /\ transcript[j] \in PacketRecord
      /\ Sent \subseteq Nat /\ Len(transcript) \in Nat
  BY <1>1 DEF Inv, Types, Sent
<1>3. CASE isData(i)
  <2>1. shown(i) = shown(j)
    BY <1>1, <1>3 DEF Inv, OneKindPerKey, isData
  <2>2. shown(i)
    BY <1>1, <1>3 DEF Inv, Marks
  <2> QED BY <2>1, <2>2 DEF shown
<1>4. CASE ~isData(i)
  <2>1. \A k \in 1 .. i : ~isData(k)
    BY <1>1, <1>4 DEF Inv, Marks
  <2>2. i < j
    BY <1>1, <1>2, <2>1 DEF Sent, isData
  <2>3. transcript[i].key < transcript[j].key
    BY <1>1, <1>4, <2>2 DEF Inv, KeysGrow
  <2>4. transcript[i].key \in Nat
    BY <1>2 DEF PacketRecord
  <2> QED BY <2>3, <2>4
<1> QED BY <1>3, <1>4

LEMMA InitInv == Init => Inv
<1> SUFFICES ASSUME Init PROVE Inv
  OBVIOUS
<1> DEFINE p == [type |-> "handshake", section |-> 0, key |-> 0, reveal |-> "none"]
<1>1. p \in PacketRecord
  BY DEF PacketRecord
<1>2. transcript = <<p>>
  BY DEF Init
<1>3. p.type = "handshake" /\ p.key = 0 /\ p.reveal = "none"
  OBVIOUS
<1> HIDE DEF p
<1>4. transcript \in Seq(PacketRecord) /\ Len(transcript) = 1 /\ transcript[1] = p
  BY <1>1, <1>2
<1>5. PICK mode \in {"zk", "key-update"} : redactionMode = modeOf(tlsVersion, mode)
  BY DEF Init
<1>6. Types
  BY <1>4, <1>5 DEF Init, Types, modeOf
<1>7. \A i \in Sent :
        i = 1 /\ ~isData(i) /\ transcript[i].key = 0 /\ transcript[i].reveal # "complete"
  BY <1>3, <1>4 DEF Sent, isData
<1>8. redactionMode = "key-update" => key = 1
  BY <1>6 DEF Types, Init
<1> QED BY <1>6, <1>7, <1>8 DEF Inv, KeysGrow, KeyInUse, OneKindPerKey, Marks, LastSent, Init

\* A packet that is sent and is not marked yet: an update of the keys, or a
\* section.
LEMMA SendStep ==
  ASSUME Inv, NEW p \in PacketRecord, p.reveal = "none", p.key = key,
         transcript' = Append(transcript, p),
         UNCHANGED <<sections, redactionMode, tlsVersion, next>>,
         \/ /\ p.type = "handshake" /\ pc' = "updated" /\ key' = key + 1
         \/ /\ p.type = "data" /\ pc' = "marking" /\ key' = key /\ p.section = next
            /\ redactionMode = "key-update" =>
                 \A i \in Sent : isData(i) /\ transcript[i].key = key =>
                   shown(i) = sections[next].reveal
  PROVE  Inv'
<1> DEFINE n == Len(transcript)
           isSection == p.type = "data"
<1>1. /\ transcript' \in Seq(PacketRecord) /\ n \in Nat /\ Len(transcript') = n + 1
      /\ transcript'[n + 1] = p /\ \A i \in 1 .. n : transcript'[i] = transcript[i]
      /\ key \in Nat /\ next \in Nat /\ key' \in Nat
  BY AppendProperties DEF Inv, Types
<1>2. /\ Sent = 1 .. n /\ Sent' = 1 .. n + 1 /\ n + 1 \in Sent'
      /\ \A i \in Sent' : i = n + 1 \/ i \in Sent
      /\ \A i \in Sent : i \in Nat /\ i < n + 1 /\ transcript[i].key \in Nat
  <2>1. \A i \in 1 .. n : transcript[i] \in PacketRecord
    BY DEF Inv, Types
  <2> QED BY <1>1, <2>1 DEF Sent, PacketRecord
<1>3. \A i \in Sent :
        /\ transcript'[i] = transcript[i]
        /\ sections'[transcript'[i].section].reveal = shown(i)
  BY <1>1, <1>2 DEF shown
<1>4. /\ transcript'[n + 1].key = key /\ transcript'[n + 1].reveal = "none"
      /\ transcript'[n + 1].type = p.type
      /\ isSection => sections'[transcript'[n + 1].section].reveal = sections[next].reveal
  BY <1>1
<1>5. Types'
  BY <1>1 DEF Inv, Types
<1>6. KeysGrow'
  <2> SUFFICES ASSUME redactionMode = "key-update" PROVE KeysGrow'
    BY DEF KeysGrow
  <2>1. \A i \in Sent :
          /\ transcript[i].key <= key
          /\ transcript[i].type # "data" => transcript[i].key < key
    BY DEF Inv, KeysGrow, isData
  <2>2. \A i, j \in Sent : i < j =>
          /\ transcript[i].key <= transcript[j].key
          /\ transcript[i].type # "data" => transcript[i].key < transcript[j].key
    BY DEF Inv, KeysGrow, isData
  <2>3. /\ key' = key \/ key' = key + 1
        /\ p.type # "data" => key' = key + 1
    OBVIOUS
  <2> HIDE DEF n
  <2>4. ASSUME NEW i \in Sent'
        PROVE  /\ transcript'[i].key <= key'
               /\ transcript'[i].type # "data" => transcript'[i].key < key'
    <3>1. CASE i \in Sent
      <4>1. transcript'[i] = transcript[i] /\ transcript[i].key \in Nat
        BY <1>2, <1>3, <3>1
      <4>2. /\ transcript[i].key <= key
            /\ transcript[i].type # "data" => transcript[i].key < key
        BY <2>1, <3>1
      <4> QED BY <1>1, <2>3, <4>1, <4>2
    <3>2. CASE i = n + 1
      BY <1>1, <1>4, <2>3, <3>2
    <3> QED BY <1>2, <3>1, <3>2
  <2>5. ASSUME NEW i \in Sent', NEW j \in Sent', i < j
        PROVE  /\ transcript'[i].key <= transcript'[j].key
               /\ transcript'[i].type # "data" => transcript'[i].key < transcript'[j].key
    <3>1. i \in Sent /\ transcript'[i] = transcript[i]
      BY <1>1, <1>2, <1>3, <2>5
    <3>2. CASE j \in Sent
      <4>1. transcript'[j] = transcript[j]
        BY <1>3, <3>2
      <4> QED BY <2>2, <2>5, <3>1, <3>2, <4>1
    <3>3. CASE j = n + 1
      <4>1. transcript'[j].key = key
        BY <1>4, <3>3
      <4> QED BY <2>1, <3>1, <4>1
    <3> QED BY <1>2, <3>2, <3>3
  <2> QED BY <2>4, <2>5 DEF KeysGrow, isData
<1>7. KeyInUse'
  <2> SUFFICES ASSUME redactionMode = "key-update", NEW i \in Sent',
                      transcript'[i].type = "data", transcript'[i].key = key'
               PROVE  /\ pc' = "marking" =>
                           sections'[transcript'[i].section].reveal = sections[next].reveal
                      /\ pc' = "marking"
    BY DEF KeyInUse, isData, shown
  <2>1. CASE i \in Sent
    <3>1. isData(i) /\ transcript[i].key = key' /\ transcript[i].key <= key
      BY <1>3, <2>1 DEF Inv, KeysGrow, isData
    <3>2. key' = key /\ isSection /\ pc' = "marking"
      BY <1>1, <1>2, <2>1, <3>1
    <3> QED BY <1>3, <2>1, <3>1, <3>2
  <2>2. CASE i = n + 1
    BY <1>4, <2>2
  <2> QED BY <1>2, <2>1, <2>2
<1>8. OneKindPerKey'
  <2> SUFFICES ASSUME redactionMode = "key-update", NEW i \in Sent', NEW j \in Sent',
                      transcript'[i].type = "data", transcript'[j].type = "data",
                      transcript'[i].key = transcript'[j].key
               PROVE  sections'[transcript'[i].section].reveal
                        = sections'[transcript'[j].section].reveal
    BY DEF OneKindPerKey, isData, shown
  <2>1. CASE i \in Sent /\ j \in Sent
    <3>1. /\ isData(i) /\ isData(j) /\ transcript[i].key = transcript[j].key
      BY <1>3, <2>1 DEF isData
    <3>2. shown(i) = shown(j)
      BY <2>1, <3>1 DEF Inv, OneKindPerKey
    <3>3. sections'[transcript'[i].section].reveal = shown(i)
      BY <1>3, <2>1
    <3>4. sections'[transcript'[j].section].reveal = shown(j)
      BY <1>3, <2>1
    <3> QED BY <3>2, <3>3, <3>4, Zenon
  <2>2. CASE i \in Sent /\ j = n + 1
    BY <1>3, <1>4, <2>2 DEF isData
  <2>3. CASE i = n + 1 /\ j \in Sent
    BY <1>3, <1>4, <2>3 DEF isData
  <2> QED BY <1>2, <2>1, <2>2, <2>3
<1>9. Marks'
  <2> SUFFICES ASSUME NEW i \in Sent', transcript'[i].reveal = "complete"
               PROVE  /\ redactionMode = "key-update"
                      /\ transcript'[i].type = "data" =>
                           sections'[transcript'[i].section].reveal
                      /\ transcript'[i].type # "data" =>
                           \A k \in 1 .. i : transcript'[k].type # "data"
    BY DEF Marks, isData, shown
  <2>1. i \in Sent
    BY <1>2, <1>4
  <2>2. \A k \in 1 .. i : k \in Sent
    BY <1>1, <1>2, <2>1
  <2> QED BY <1>3, <2>1, <2>2 DEF Inv, Marks, isData
<1>10. LastSent'
  BY <1>1, <1>2, <1>4 DEF LastSent, isData
<1> QED BY <1>5, <1>6, <1>7, <1>8, <1>9, <1>10 DEF Inv

LEMMA WriteInv == Inv /\ (Write \/ WriteUpdated) => Inv'
<1> SUFFICES ASSUME Inv, Write \/ WriteUpdated PROVE Inv'
  OBVIOUS
<1>1. key \in Nat /\ next \in Nat
  BY DEF Inv, Types
<1>2. CASE Write /\ pc' = "updated"
  <2>1. Packet("handshake", 0) \in PacketRecord
    BY <1>1 DEF Packet, PacketRecord
  <2> QED BY <1>2, <2>1, SendStep DEF Write, Packet
<1>3. CASE WriteUpdated \/ (Write /\ pc' # "updated")
  <2>1. Packet("data", next) \in PacketRecord
    BY <1>1 DEF Packet, PacketRecord
  <2>2. ASSUME redactionMode = "key-update", NEW i \in Sent, isData(i), transcript[i].key = key
        PROVE  shown(i) = sections[next].reveal
    <3>1. CASE WriteUpdated
      BY <2>2, <3>1 DEF WriteUpdated, Inv, KeyInUse
    <3>2. CASE Write /\ pc' # "updated"
      <4>1. pc = "writing" /\ ~updatesKeys(sections[next])
        BY <2>2, <3>2 DEF Write, Inv, Types
      <4>2. shown(i) = lastMsgRevealed
        BY <2>2, <4>1 DEF Inv, KeyInUse
      <4> QED BY <2>2, <4>1, <4>2 DEF updatesKeys
    <3> QED BY <1>3, <3>1, <3>2
  <2>3. /\ transcript' = Append(transcript, Packet("data", next))
        /\ UNCHANGED <<sections, redactionMode, tlsVersion, next>>
        /\ pc' = "marking" /\ key' = key
    BY <1>3 DEF Write, WriteUpdated
  <2>4. /\ Packet("data", next).type = "data" /\ Packet("data", next).section = next
        /\ Packet("data", next).key = key /\ Packet("data", next).reveal = "none"
    BY DEF Packet
  <2> DEFINE p == Packet("data", next)
  <2> HIDE DEF p
  <2> QED BY <2>1, <2>2, <2>3, <2>4, SendStep DEF p
<1> QED BY <1>2, <1>3

\* A step that sends nothing and marks what is to be revealed only.
LEMMA StillInv ==
  ASSUME Inv, Types', UNCHANGED <<sections, redactionMode, key>>,
         Len(transcript') = Len(transcript),
         \A i \in Sent :
           /\ transcript'[i].type = transcript[i].type
           /\ transcript'[i].section = transcript[i].section
           /\ transcript'[i].key = transcript[i].key,
         Marks', KeyInUse', pc' # "marking"
  PROVE  Inv'
<1>1. Sent' = Sent
  BY DEF Sent
<1>2. \A i \in Sent : (isData(i)' <=> isData(i)) /\ shown(i)' = shown(i)
  BY DEF isData, shown
<1>3. KeysGrow'
  BY <1>1, <1>2 DEF Inv, KeysGrow
<1>4. OneKindPerKey'
  BY <1>1, <1>2 DEF Inv, OneKindPerKey
<1>5. LastSent'
  BY DEF LastSent
<1> QED BY <1>3, <1>4, <1>5 DEF Inv

LEMMA MarkInv == Inv /\ Mark => Inv'
<1> SUFFICES ASSUME Inv, Mark PROVE Inv'
  OBVIOUS
<1> DEFINE n == Len(transcript)
           mark == setReveal(sections[next])
           marked == [transcript[n] EXCEPT !.reveal = mark]
<1>1. /\ transcript \in Seq(PacketRecord) /\ n \in Nat /\ n \in 1 .. n
      /\ redactionMode \in {"zk", "key-update"}
      /\ transcript[n] \in PacketRecord
      /\ isData(n) /\ transcript[n].section = next
  BY DEF Inv, Types, LastSent, Mark, Sent
<1>2. mark \in {"none", "complete", "zk"}
  BY DEF setReveal
<1>3. mark = "complete" => redactionMode = "key-update" /\ sections[next].reveal
  BY <1>1 DEF setReveal
<1> HIDE DEF mark
<1>4. /\ marked \in PacketRecord
      /\ marked.type = transcript[n].type /\ marked.section = transcript[n].section
      /\ marked.key = transcript[n].key /\ marked.reveal = mark
  BY <1>1, <1>2 DEF PacketRecord
<1>5. transcript' = [transcript EXCEPT ![n] = marked]
  BY <1>1 DEF Mark, mark
<1> HIDE DEF marked
<1>6. /\ transcript' \in Seq(PacketRecord) /\ Len(transcript') = n
      /\ \A i \in 1 .. n : transcript'[i] = IF i = n THEN marked ELSE transcript[i]
  BY <1>1, <1>4, <1>5, ExceptSeq
<1>7. UNCHANGED <<sections, redactionMode, key, tlsVersion>> /\ next' = next + 1
  BY DEF Mark
<1>8. Types'
  BY <1>6, <1>7 DEF Inv, Types
<1>9. Sent = 1 .. n /\ Sent' = 1 .. n
  BY <1>6 DEF Sent
<1>10. \A i \in Sent :
         /\ transcript'[i].type = transcript[i].type
         /\ transcript'[i].section = transcript[i].section
         /\ transcript'[i].key = transcript[i].key
         /\ transcript'[i].reveal # transcript[i].reveal => i = n /\ transcript'[i].reveal = mark
  BY <1>4, <1>6, <1>9
<1>11. \A i \in Sent : (isData(i)' <=> isData(i)) /\ shown(i)' = shown(i)
  BY <1>7, <1>10 DEF isData, shown
<1>12. Marks'
  <2> SUFFICES ASSUME NEW i \in Sent, transcript'[i].reveal = "complete"
               PROVE  /\ redactionMode = "key-update"
                      /\ isData(i) => shown(i)
                      /\ ~isData(i) => \A k \in 1 .. i : ~isData(k)
    <3>1. \A i \in Sent : \A k \in 1 .. i : k \in Sent
      BY <1>1, <1>9
    <3> QED BY <1>7, <1>9, <1>11, <3>1 DEF Marks
  <2>1. CASE transcript[i].reveal = "complete"
    BY <2>1 DEF Inv, Marks
  <2>2. CASE transcript[i].reveal # "complete"
    <3>1. i = n /\ mark = "complete"
      BY <1>10, <2>2
    <3> QED BY <1>1, <1>3, <3>1 DEF shown
  <2> QED BY <2>1, <2>2
<1>13. KeyInUse'
  <2>1. \A i \in Sent : redactionMode = "key-update" /\ isData(i) /\ transcript[i].key = key
                          => shown(i) = sections[next].reveal
    BY DEF Inv, KeyInUse, Mark
  <2>2. pc' = "writing" /\ lastMsgRevealed' = sections[next].reveal
    BY DEF Mark
  <2> QED BY <1>7, <1>9, <1>10, <1>11, <2>1, <2>2 DEF KeyInUse
<1>14. pc' # "marking"
  BY DEF Mark
<1> QED BY <1>6, <1>7, <1>8, <1>10, <1>12, <1>13, <1>14, StillInv

LEMMA AddRevealsInv == Inv /\ AddReveals => Inv'
<1> SUFFICES ASSUME Inv, AddReveals PROVE Inv'
  OBVIOUS
<1> DEFINE n == Len(transcript)
           mark == IF redactionMode = "zk" THEN "zk" ELSE "complete"
           shownAll == [i \in 1 .. n |->
                          IF isHandshake(i) THEN [transcript[i] EXCEPT !.reveal = mark]
                                            ELSE transcript[i]]
<1>1. /\ transcript \in Seq(PacketRecord) /\ n \in Nat
      /\ \A i \in 1 .. n : transcript[i] \in PacketRecord
      /\ redactionMode \in {"zk", "key-update"}
  BY DEF Inv, Types
<1>2. /\ transcript' = shownAll \/ transcript' = transcript
      /\ pc' \in {"claiming", "failed"}
      /\ UNCHANGED <<sections, redactionMode, key, tlsVersion, next>>
  BY DEF AddReveals
<1>3. mark \in {"none", "complete", "zk"} /\ (mark = "complete" => redactionMode = "key-update")
  BY <1>1
<1> HIDE DEF mark
<1>4. ASSUME NEW p \in PacketRecord
      PROVE  LET q == [p EXCEPT !.reveal = mark]
             IN  q \in PacketRecord /\ q.type = p.type /\ q.section = p.section
                   /\ q.key = p.key /\ q.reveal = mark
  BY <1>3 DEF PacketRecord
<1>5. \A i \in 1 .. n : shownAll[i] \in PacketRecord
  BY <1>1, <1>4
<1>6. shownAll \in Seq(PacketRecord) /\ Len(shownAll) = n
  BY <1>1, <1>5
<1>7. \A i \in 1 .. n :
        /\ shownAll[i].type = transcript[i].type
        /\ shownAll[i].section = transcript[i].section
        /\ shownAll[i].key = transcript[i].key
        /\ shownAll[i].reveal # transcript[i].reveal =>
             isHandshake(i) /\ shownAll[i].reveal = mark
  BY <1>1, <1>4
<1> HIDE DEF shownAll
<1>8. /\ transcript' \in Seq(PacketRecord) /\ Len(transcript') = n
      /\ \A i \in 1 .. n :
           /\ transcript'[i].type = transcript[i].type
           /\ transcript'[i].section = transcript[i].section
           /\ transcript'[i].key = transcript[i].key
           /\ transcript'[i].reveal # transcript[i].reveal =>
                isHandshake(i) /\ transcript'[i].reveal = mark
  BY <1>1, <1>2, <1>6, <1>7
<1>9. Types'
  BY <1>2, <1>8 DEF Inv, Types
<1>10. Sent = 1 .. n /\ Sent' = 1 .. n
  BY <1>8 DEF Sent
<1>11. \A i \in Sent : (isData(i)' <=> isData(i)) /\ shown(i)' = shown(i)
  BY <1>2, <1>8, <1>10 DEF isData, shown
<1>12. Marks'
  <2> SUFFICES ASSUME NEW i \in Sent, transcript'[i].reveal = "complete"
               PROVE  /\ redactionMode = "key-update"
                      /\ isData(i) => shown(i)
                      /\ ~isData(i) => \A k \in 1 .. i : ~isData(k)
    <3>1. \A i \in Sent : \A k \in 1 .. i : k \in Sent
      BY <1>1, <1>10
    <3> QED BY <1>2, <1>10, <1>11, <3>1 DEF Marks
  <2>1. CASE transcript[i].reveal = "complete"
    BY <2>1 DEF Inv, Marks
  <2>2. CASE transcript[i].reveal # "complete"
    <3>1. isHandshake(i) /\ mark = "complete"
      BY <1>8, <1>10, <2>2
    <3>2. i \in 1 .. i /\ \A k \in 1 .. i : ~isData(k)
      BY <1>1, <1>10, <3>1 DEF isHandshake, isApplicationData, isData
    <3> QED BY <1>3, <3>1, <3>2
  <2> QED BY <2>1, <2>2
<1>13. KeyInUse'
  BY <1>2 DEF KeyInUse
<1> QED BY <1>2, <1>8, <1>9, <1>10, <1>12, <1>13, StillInv

\* The write stops, the witness answers, or nothing happens.
LEMMA QuietInv ==
  ASSUME Inv, UNCHANGED <<sections, redactionMode, tlsVersion, key, next, transcript>>,
         \/ pc' \in {"written", "claimed"}
         \/ UNCHANGED <<pc, lastMsgRevealed>>
  PROVE  Inv'
<1>1. Types' /\ KeysGrow' /\ OneKindPerKey' /\ Marks'
  BY DEF Inv, Types, KeysGrow, OneKindPerKey, Marks, Sent, isData, shown
<1>2. KeyInUse' /\ LastSent'
  BY DEF Inv, KeyInUse, LastSent, Sent, isData, shown
<1> QED BY <1>1, <1>2 DEF Inv

LEMMA NextInv == Inv /\ [Next]_vars => Inv'
<1> SUFFICES ASSUME Inv, [Next]_vars PROVE Inv'
  OBVIOUS
<1>1. CASE Write \/ WriteUpdated
  BY <1>1, WriteInv
<1>2. CASE Mark
  BY <1>2, MarkInv
<1>3. CASE WriteFails \/ Written
  BY <1>3, QuietInv DEF WriteFails, Written
<1>4. CASE AddReveals
  BY <1>4, AddRevealsInv
<1>5. CASE Claim
  BY <1>5, QuietInv DEF Claim
<1>6. CASE UNCHANGED vars
  BY <1>6, QuietInv DEF vars
<1> QED BY <1>1, <1>2, <1>3, <1>4, <1>5, <1>6 DEF Next

\* Inv is an invariant of createClaimOnWitness, from the handshake to the claim.
THEOREM Invariance == Spec => []Inv
BY InitInv, NextInv, PTL DEF Spec

\* No key that the client exports to reveal a packet protects a section that is
\* hidden, for any requests and wherever the write stops.
THEOREM HiddenStaysHidden == Spec => []HiddenKeysStaySecret
BY Invariance, InvHides, PTL

-----------------------------------------------------------------------------
(* Loops: a recursive function is what its turns compute.                   *)

\* Induction, over a set instead of a predicate.
LEMMA InductionOverNat ==
  ASSUME NEW P, 0 \in P, \A n \in Nat : n \in P => n + 1 \in P
  PROVE  Nat \subseteq P
<1> SUFFICES ASSUME Nat \ P # {} PROVE FALSE
  OBVIOUS
<1> DEFINE R == {ss \in Nat \X Nat : ss[1] < ss[2]}
           T == Nat \ P
<1>1. IsWellFoundedOn(R, Nat)
  BY NatLessThanWellFounded DEF OpToRel
<1> HIDE DEF R
<1>2. T \subseteq Nat /\ T # {}
  OBVIOUS
<1> HIDE DEF T
<1>3. PICK x \in T : \A y \in T : ~ (<<y, x>> \in R)
  <2>1. \E x \in T : \A y \in T : ~ (<<y, x>> \in R)
    BY <1>1, <1>2, WFMin
  <2> QED BY <2>1
<1> USE DEF T
<1>4. x \in Nat /\ x \notin P /\ x # 0
  OBVIOUS
<1>5. x - 1 \in Nat /\ x - 1 < x /\ (x - 1) + 1 = x
  BY <1>4
<1>6. x - 1 \notin P
  BY <1>4, <1>5
<1>7. <<x - 1, x>> \in R
  BY <1>4, <1>5 DEF R
<1> QED BY <1>3, <1>5, <1>6, <1>7

\* f[n] is what a loop computes in n turns, step[<<n, x>>] being turn n.
IsLoop(f, X, step, start, turns) ==
  /\ f \in [0 .. turns -> X] /\ f[0] = start
  /\ \A n \in 1 .. turns : f[n] = step[<<n, f[n - 1]>>]

\* A loop of a step that is a function computes something in each turn.
LEMMA LoopExists ==
  ASSUME NEW X, NEW step \in [Nat \X X -> X], NEW start \in X, NEW turns \in Nat
  PROVE  \E f : IsLoop(f, X, step, start, turns)
<1> DEFINE P == {m \in Nat : \E f : IsLoop(f, X, step, start, m)}
<1>1. 0 \in P
  <2> DEFINE f == [n \in 0 .. 0 |-> start]
  <2>1. IsLoop(f, X, step, start, 0)
    BY DEF IsLoop
  <2> QED BY <2>1
<1>2. ASSUME NEW m \in Nat, m \in P
      PROVE  m + 1 \in P
  <2>1. PICK f : IsLoop(f, X, step, start, m)
    BY <1>2
  <2> DEFINE last == step[<<m + 1, f[m]>>]
             g == [n \in 0 .. m + 1 |-> IF n = m + 1 THEN last ELSE f[n]]
  <2>2. f[m] \in X /\ last \in X
    BY <2>1 DEF IsLoop
  <2> HIDE DEF last
  <2>3. g \in [0 .. m + 1 -> X] /\ g[m + 1] = last /\ \A n \in 0 .. m : g[n] = f[n]
    BY <2>1, <2>2 DEF IsLoop
  <2> HIDE DEF g
  <2>4. ASSUME NEW n \in 1 .. m + 1
        PROVE  g[n] = step[<<n, g[n - 1]>>]
    <3>1. CASE n = m + 1
      BY <2>3, <3>1 DEF last
    <3>2. CASE n \in 1 .. m
      BY <2>1, <2>3, <3>2 DEF IsLoop
    <3> QED BY <3>1, <3>2
  <2>5. IsLoop(g, X, step, start, m + 1)
    BY <2>1, <2>3, <2>4 DEF IsLoop
  <2> QED BY <2>5
<1> HIDE DEF P
<1>3. turns \in P
  BY <1>1, <1>2, InductionOverNat
<1> QED BY <1>3 DEF P

\* FlattenSeq, as a loop from the empty sequence.
LEMMA Flattened ==
  ASSUME NEW X, NEW seqs \in Seq(Seq(X))
  PROVE  \E f \in [0 .. Len(seqs) -> Seq(X)] :
           /\ f[0] = <<>>
           /\ \A n \in 1 .. Len(seqs) : f[n] = f[n - 1] \o seqs[n]
           /\ FlattenSeq(seqs) = f[Len(seqs)]
<1> DEFINE length == Len(seqs)
           Step(n, x) == IF n \in 1 .. length THEN x \o seqs[n] ELSE <<>>
           step == [a \in Nat \X Seq(X) |-> Step(a[1], a[2])]
           flatten[i \in 1 .. length] ==
             IF i = 1 THEN seqs[i] ELSE flatten[i - 1] \o seqs[i]
<1>1. /\ length \in Nat /\ DOMAIN seqs = 1 .. length
      /\ \A n \in 1 .. length : seqs[n] \in Seq(X)
  OBVIOUS
<1>2. step \in [Nat \X Seq(X) -> Seq(X)]
  <2>1. ASSUME NEW n \in Nat, NEW x \in Seq(X)
        PROVE  Step(n, x) \in Seq(X)
    BY <1>1
  <2> QED BY <2>1
<1>3. PICK f \in [0 .. length -> Seq(X)] :
        f[0] = <<>> /\ \A n \in 1 .. length : f[n] = step[<<n, f[n - 1]>>]
  <2> DEFINE T == Seq(X)
  <2>1. step \in [Nat \X T -> T] /\ <<>> \in T /\ length \in Nat
    BY <1>1, <1>2
  <2> HIDE DEF step, T, length
  <2>2. \E f : IsLoop(f, T, step, <<>>, length)
    BY <2>1, LoopExists
  <2> QED BY <2>2 DEF T, IsLoop
<1>4. ASSUME NEW n \in 1 .. length
      PROVE  f[n - 1] \in Seq(X) /\ f[n] = f[n - 1] \o seqs[n]
  <2>1. n - 1 \in 0 .. length /\ n \in Nat
    BY <1>1
  <2>2. f[n - 1] \in Seq(X)
    BY SMTT(40), <1>3, <2>1
  <2>3. step[<<n, f[n - 1]>>] = f[n - 1] \o seqs[n]
    BY <2>1, <2>2
  <2> QED BY <1>3, <2>2, <2>3
<1> HIDE DEF step, length
<1>5. length > 0 => f[1] = seqs[1]
  <2> SUFFICES ASSUME length > 0 PROVE f[1] = seqs[1]
    OBVIOUS
  <2>1. 1 \in 1 .. length /\ 1 - 1 = 0
    BY <1>1
  <2>2. f[1] = f[0] \o seqs[1] /\ seqs[1] \in Seq(X)
    BY <1>1, <1>4, <2>1
  <2> QED BY <1>3, <2>2
<1>6. CASE length = 0
  <2>1. FlattenSeq(seqs) = <<>> /\ length \in 0 .. length
    BY <1>1, <1>6 DEF FlattenSeq, length
  <2> QED BY <1>3, <1>4, <1>6, <2>1 DEF length
<1>7. CASE length > 0
  <2>1. FlattenSeq(seqs) = flatten[length]
    BY <1>7 DEF FlattenSeq, length
  <2> DEFINE g == [i \in 1 .. length |-> f[i]]
  <2>2. ASSUME NEW i \in 1 .. length
        PROVE  g[i] = IF i = 1 THEN seqs[i] ELSE g[i - 1] \o seqs[i]
    <3>1. CASE i = 1
      BY <1>5, <1>7, <3>1
    <3>2. CASE i # 1
      <4>1. i - 1 \in 1 .. length
        BY <1>1, <3>2
      <4> QED BY <1>4, <3>2, <4>1
    <3> QED BY <3>1, <3>2
  <2>3. g = [i \in 1 .. length |-> IF i = 1 THEN seqs[i] ELSE g[i - 1] \o seqs[i]]
    BY <2>2
  <2>4. flatten = [i \in 1 .. length |->
                     IF i = 1 THEN seqs[i] ELSE flatten[i - 1] \o seqs[i]]
    <3> HIDE DEF g
    <3> QED BY <2>3
  <2> HIDE DEF flatten
  <2> DEFINE P == {n \in Nat : n + 1 \in 1 .. length => flatten[n + 1] = f[n + 1]}
  <2>5. 0 \in P
    <3>1. f[1] = seqs[1] /\ 1 \in 1 .. length
      BY <1>5, <1>1, <1>7
    <3> QED BY <2>4, <3>1
  <2>6. ASSUME NEW n \in Nat, n \in P
        PROVE  n + 1 \in P
    <3> SUFFICES ASSUME n + 2 \in 1 .. length PROVE flatten[n + 2] = f[n + 2]
      OBVIOUS
    <3>1. flatten[n + 1] = f[n + 1] /\ (n + 2) - 1 = n + 1 /\ n + 2 # 1
      BY <1>1, <2>6
    <3>2. f[n + 2] = f[n + 1] \o seqs[n + 2]
      BY <1>4, <3>1
    <3>3. flatten[n + 2] = flatten[n + 1] \o seqs[n + 2]
      BY <2>4, <3>1
    <3> QED BY <3>1, <3>2, <3>3
  <2> HIDE DEF P
  <2>7. Nat \subseteq P
    BY <2>5, <2>6, InductionOverNat
  <2>8. flatten[length] = f[length]
    <3>1. length - 1 \in Nat /\ (length - 1) + 1 = length /\ length \in 1 .. length
      BY <1>1, <1>7
    <3>2. length - 1 \in P
      BY <2>7, <3>1
    <3> QED BY <3>1, <3>2 DEF P
  <2> QED BY <1>3, <1>4, <2>1, <2>8 DEF length
<1>8. length = 0 \/ length > 0
  BY <1>1
<1> QED BY <1>6, <1>7, <1>8

-----------------------------------------------------------------------------
(* Templates: what is noted of the body covers its secrets.                 *)

BodyPart ==
  {part \in [kind : {"text", "param", "secret"}, value : Seq(STRING), length : Nat] :
     part.length <= Len(part.value)}
\* The body of a request is made of them.
LEMMA RequestParts ==
  ASSUME NEW r \in Requests
  PROVE  r.body \in Seq(BodyPart)
<1>1. PICK X, body :
        /\ X = [kind : {"text", "param", "secret"}, value : Seq(STRING), length : Nat]
        /\ body = r.body
  OBVIOUS
<1>2. body \in Seq(X) /\ \A i \in DOMAIN body : body[i].length <= Len(body[i].value)
  BY <1>1, RequestAssumption
<1>3. Len(body) \in Nat /\ DOMAIN body = 1 .. Len(body) /\ \A i \in DOMAIN body : body[i] \in X
  BY <1>2
<1>4. \A i \in DOMAIN body : body[i] \in BodyPart
  BY <1>1, <1>2, <1>3 DEF BodyPart
<1>5. body \in [1 .. Len(body) -> BodyPart]
  BY <1>2, <1>3, <1>4
<1>6. PICK Y : Y = BodyPart
  OBVIOUS
<1>7. body \in Seq(Y)
  BY <1>3, <1>5, <1>6
<1> QED BY <1>1, <1>6, <1>7

HiddenPart == [index : Nat, length : Nat]
Replaced == [newParam : Seq(STRING), hiddenParts : Seq(HiddenPart),
             offset : Nat, totalOffset : Int]

\* One turn of the loop over the templates.
Replace(acc, part) ==
  IF part.kind = "text"
  THEN [acc EXCEPT !.newParam = @ \o part.value, !.offset = @ + part.length]
  ELSE [acc EXCEPT
          !.newParam = @ \o part.value,
          !.hiddenParts = IF part.kind = "param" THEN @
                          ELSE Append(@, [index |-> acc.offset + acc.totalOffset,
                                          length |-> part.length]),
          !.totalOffset = @ + part.length - Len(Braces),
          !.offset = @ + Len(Braces)]

\* Where the next secret would be noted.
placeOf(acc) == acc.offset + acc.totalOffset

\* That is not behind the bytes that there are.
InPlace(acc) == placeOf(acc) \in Nat /\ placeOf(acc) <= Len(acc.newParam)

\* A turn keeps its record whole, and moves the place by the length of its part.
LEMMA ReplaceFields ==
  ASSUME NEW acc \in Replaced, NEW part \in BodyPart, InPlace(acc)
  PROVE  /\ Replace(acc, part) \in Replaced /\ InPlace(Replace(acc, part))
         /\ placeOf(Replace(acc, part)) = placeOf(acc) + part.length
         /\ Replace(acc, part).newParam = acc.newParam \o part.value
         /\ Replace(acc, part).hiddenParts =
              IF part.kind # "secret" THEN acc.hiddenParts
              ELSE Append(acc.hiddenParts, [index |-> placeOf(acc), length |-> part.length])
<1> DEFINE new == acc.newParam \o part.value
           length == part.length
           at == acc.offset + acc.totalOffset
           here == [index |-> at, length |-> length]
           hidden == IF part.kind = "param" THEN acc.hiddenParts
                     ELSE Append(acc.hiddenParts, here)
           later == acc.offset + length
           offset == acc.offset + 5
           totalOffset == acc.totalOffset + length - 5
<1>1. /\ acc.newParam \in Seq(STRING) /\ acc.hiddenParts \in Seq(HiddenPart)
      /\ acc.offset \in Nat /\ acc.totalOffset \in Int
      /\ part.value \in Seq(STRING) /\ part.kind \in {"text", "param", "secret"}
      /\ part.length \in Nat /\ part.length <= Len(part.value)
  BY DEF Replaced, BodyPart
<1>2. Len(Braces) = 5
  BY DEF Braces
<1>3. /\ new \in Seq(STRING) /\ Len(new) >= Len(acc.newParam) + length /\ Len(new) \in Nat
      /\ length \in Nat /\ at = placeOf(acc) /\ at \in Nat /\ at <= Len(acc.newParam)
      /\ Len(acc.newParam) \in Nat
  <2>1. acc.newParam \in Seq(STRING) /\ part.value \in Seq(STRING)
    BY <1>1
  <2>2. /\ new \in Seq(STRING) /\ Len(new) = Len(acc.newParam) + Len(part.value)
        /\ Len(acc.newParam) \in Nat /\ Len(part.value) \in Nat
    BY <2>1
  <2>3. length \in Nat /\ length <= Len(part.value)
    BY <1>1
  <2>4. at = placeOf(acc) /\ at \in Nat /\ at <= Len(acc.newParam)
    BY DEF InPlace, placeOf
  <2> HIDE DEF new, length, at
  <2>5. PICK n, v, l, m : /\ n = Len(acc.newParam) /\ v = Len(part.value)
                          /\ l = length /\ m = Len(new)
    OBVIOUS
  <2>6. n \in Nat /\ v \in Nat /\ l \in Nat /\ l <= v /\ m = n + v
    BY <2>2, <2>3, <2>5
  <2>7. m >= n + l /\ m \in Nat
    BY ONLY <2>6
  <2> QED BY <2>2, <2>3, <2>4, <2>5, <2>6, <2>7
<1>4. here \in HiddenPart
  BY <1>3 DEF HiddenPart
<1>5. hidden \in Seq(HiddenPart)
  BY <1>1, <1>4
<1>6. /\ later \in Nat /\ offset \in Nat /\ totalOffset \in Int
      /\ later + acc.totalOffset = at + length /\ offset + totalOffset = at + length
      /\ at + length \in Nat /\ at + length <= Len(new)
  <2> HIDE DEF length, new
  <2>1. PICK o, t, n, l : /\ o = acc.offset /\ t = acc.totalOffset
                          /\ n = at /\ l = length
    OBVIOUS
  <2>2. o \in Nat /\ t \in Int /\ n \in Nat /\ l \in Nat /\ o + t = n
    BY <1>1, <1>3, <2>1
  <2>3. /\ o + l \in Nat /\ o + 5 \in Nat /\ t + l - 5 \in Int
        /\ (o + l) + t = n + l /\ (o + 5) + (t + l - 5) = n + l
    BY <2>2
  <2>4. later = o + l /\ offset = o + 5 /\ totalOffset = t + l - 5
    BY <2>1
  <2> HIDE DEF later, offset, totalOffset, at
  <2>5. at + length \in Nat /\ at + length <= Len(new)
    BY <1>3
  <2> QED BY <2>1, <2>3, <2>4, <2>5
<1>7. CASE part.kind = "text"
  <2>1. PICK x : x = Replace(acc, part) /\ x = [acc EXCEPT !.newParam = new, !.offset = later]
    BY <1>7 DEF Replace
  <2> HIDE DEF new, length, later
  <2>2. /\ x \in Replaced
        /\ x.newParam = new /\ x.hiddenParts = acc.hiddenParts
        /\ x.offset = later /\ x.totalOffset = acc.totalOffset
    BY <1>3, <1>6, <2>1 DEF Replaced
  <2>3. placeOf(x) = placeOf(acc) + length /\ InPlace(x)
    <3>1. placeOf(x) = at + length
      BY <1>6, <2>2 DEF placeOf
    <3> QED BY <1>3, <1>6, <2>2, <3>1 DEF InPlace
  <2> QED BY <1>7, <2>1, <2>2, <2>3 DEF new, length
<1>8. CASE part.kind # "text"
  <2>1. PICK x : /\ x = Replace(acc, part)
                 /\ x = [acc EXCEPT !.newParam = new, !.hiddenParts = hidden,
                                    !.totalOffset = totalOffset, !.offset = offset]
    BY <1>2, <1>8 DEF Replace
  <2>2. hidden = IF part.kind # "secret" THEN acc.hiddenParts
                 ELSE Append(acc.hiddenParts, [index |-> placeOf(acc),
                                               length |-> part.length])
    BY <1>1, <1>3, <1>8
  <2> HIDE DEF new, length, at, here, hidden, offset, totalOffset
  <2>3. /\ x \in Replaced
        /\ x.newParam = new /\ x.hiddenParts = hidden
        /\ x.offset = offset /\ x.totalOffset = totalOffset
    BY <1>3, <1>5, <1>6, <2>1 DEF Replaced
  <2>4. placeOf(x) = placeOf(acc) + length /\ InPlace(x)
    <3>1. placeOf(x) = at + length
      BY <1>6, <2>3 DEF placeOf
    <3> QED BY <1>3, <1>6, <2>3, <3>1 DEF InPlace
  <2> QED BY <2>1, <2>2, <2>3, <2>4 DEF new, length
<1> QED BY <1>7, <1>8

\* What a body hides, byte by byte.
Mask(parts) ==
  [i \in 1 .. Len(parts) |->
     [k \in DOMAIN parts[i].value |-> parts[i].kind = "secret"]]

\* A part of the mask has the length of its part of the body.
LEMMA MaskType ==
  ASSUME NEW parts \in Seq(BodyPart)
  PROVE  /\ Mask(parts) \in Seq(Seq(BOOLEAN)) /\ Len(Mask(parts)) = Len(parts)
         /\ \A i \in 1 .. Len(parts) :
              /\ Mask(parts)[i] \in Seq(BOOLEAN)
              /\ Len(Mask(parts)[i]) = Len(parts[i].value)
              /\ \A k \in 1 .. Len(parts[i].value) :
                   Mask(parts)[i][k] = TRUE <=> parts[i].kind = "secret"
<1>1. ASSUME NEW i \in 1 .. Len(parts)
      PROVE  LET t == [k \in DOMAIN parts[i].value |-> parts[i].kind = "secret"]
             IN  /\ t \in Seq(BOOLEAN) /\ Len(t) = Len(parts[i].value)
                 /\ \A k \in 1 .. Len(parts[i].value) : t[k] = TRUE <=> parts[i].kind = "secret"
  <2>1. PICK secret \in BOOLEAN : secret = (parts[i].kind = "secret")
    BY Zenon
  <2>2. parts[i].value \in Seq(STRING)
    <3>1. parts[i] \in BodyPart
      OBVIOUS
    <3> QED BY <3>1 DEF BodyPart
  <2>3. PICK n \in Nat : n = Len(parts[i].value) /\ DOMAIN parts[i].value = 1 .. n
    BY <2>2
  <2>4. PICK t : t = [k \in 1 .. n |-> secret]
    OBVIOUS
  <2>5. t \in Seq(BOOLEAN) /\ Len(t) = n /\ \A k \in 1 .. n : t[k] = secret
    BY <2>4
  <2> QED BY <2>1, <2>3, <2>4, <2>5, Zenon
<1>2. Len(parts) \in Nat
  OBVIOUS
<1>3. \A i \in 1 .. Len(parts) :
        Mask(parts)[i] = [k \in DOMAIN parts[i].value |-> parts[i].kind = "secret"]
  BY DEF Mask
<1>4. \A i \in 1 .. Len(parts) : Mask(parts)[i] \in Seq(BOOLEAN)
  BY <1>1, <1>3, Zenon
<1>5. Mask(parts) \in Seq(Seq(BOOLEAN)) /\ Len(Mask(parts)) = Len(parts)
  <2>1. PICK T : T = Seq(BOOLEAN)
    OBVIOUS
  <2>2. Mask(parts) \in [1 .. Len(parts) -> T]
    BY <1>4, <2>1 DEF Mask
  <2>3. Mask(parts) \in Seq(T) /\ Len(Mask(parts)) = Len(parts)
    BY <1>2, <2>2
  <2> QED BY <2>1, <2>3
<1> QED BY <1>1, <1>3, <1>5, Zenon

Within(part, k) == part.index < k /\ k <= part.index + part.length

\* The parts are in order, within the mask, and are what it hides.
Covers(parts, mask) ==
  /\ \A j \in 1 .. Len(parts) : parts[j].index + parts[j].length <= Len(mask)
  /\ \A i, j \in 1 .. Len(parts) :
       i < j => parts[i].index + parts[i].length <= parts[j].index
  /\ \A k \in 1 .. Len(mask) :
       mask[k] = TRUE <=> \E j \in 1 .. Len(parts) : Within(parts[j], k)

\* The parts are in order, within so many bytes.
LieWithin(parts, size) ==
  /\ \A j \in 1 .. Len(parts) : parts[j].index + parts[j].length <= size
  /\ \A i, j \in 1 .. Len(parts) :
       i < j => parts[i].index + parts[i].length <= parts[j].index

\* What a concatenation holds.
LEMMA Concatenation ==
  ASSUME NEW X, NEW s \in Seq(X), NEW t \in Seq(X), NEW u, u = s \o t
  PROVE  /\ u \in Seq(X) /\ Len(u) = Len(s) + Len(t)
         /\ Len(s) \in Nat /\ Len(t) \in Nat
         /\ \A k \in 1 .. Len(s) : u[k] = s[k]
         /\ \A k \in Len(s) + 1 .. Len(u) : k - Len(s) \in 1 .. Len(t) /\ u[k] = t[k - Len(s)]
OBVIOUS

\* The places and the lengths of hidden parts are numbers.
LEMMA PartFields ==
  ASSUME NEW parts \in Seq(HiddenPart)
  PROVE  /\ Len(parts) \in Nat
         /\ \A j \in 1 .. Len(parts) : parts[j].index \in Nat /\ parts[j].length \in Nat
<1>1. Len(parts) \in Nat /\ \A j \in 1 .. Len(parts) : parts[j] \in HiddenPart
  OBVIOUS
<1> QED BY <1>1 DEF HiddenPart

\* Parts fit in more bytes.
LEMMA FitsMore ==
  ASSUME NEW parts \in Seq(HiddenPart), NEW size \in Nat, LieWithin(parts, size),
         NEW more \in Nat, size <= more
  PROVE  LieWithin(parts, more)
<1>1. \A j \in 1 .. Len(parts) : parts[j].index \in Nat /\ parts[j].length \in Nat
  BY PartFields
<1>2. ASSUME NEW j \in 1 .. Len(parts) PROVE parts[j].index + parts[j].length <= more
  <2>1. PICK end \in Nat : end = parts[j].index + parts[j].length
    BY <1>1
  <2>2. end <= size
    BY <2>1 DEF LieWithin
  <2> QED BY <2>1, <2>2
<1> QED BY <1>2 DEF LieWithin

\* A part at the end fits with the others.
LEMMA FitsAnother ==
  ASSUME NEW parts \in Seq(HiddenPart), NEW size \in Nat, LieWithin(parts, size),
         NEW length \in Nat,
         NEW more, more = Append(parts, [index |-> size, length |-> length])
  PROVE  more \in Seq(HiddenPart) /\ LieWithin(more, size + length)
<1>1. /\ Len(parts) \in Nat
      /\ \A j \in 1 .. Len(parts) : parts[j].index \in Nat /\ parts[j].length \in Nat
  BY PartFields
<1> DEFINE n == Len(parts)
<1>2. PICK last : last = [index |-> size, length |-> length]
  OBVIOUS
<1>3. last \in HiddenPart /\ last.index = size /\ last.length = length
  BY <1>2 DEF HiddenPart
<1>4. /\ more \in Seq(HiddenPart) /\ Len(more) = n + 1 /\ more[n + 1] = last
      /\ \A j \in 1 .. n : more[j] = parts[j]
  BY <1>2, <1>3
<1> HIDE DEF n
<1>5. \A j \in 1 .. n : parts[j].index + parts[j].length <= size
  BY DEF LieWithin, n
<1>6. ASSUME NEW j \in 1 .. Len(more)
      PROVE  more[j].index + more[j].length <= size + length
  <2>1. CASE j \in 1 .. n
    <3>1. PICK end \in Nat : end = parts[j].index + parts[j].length
      BY <1>1, <2>1 DEF n
    <3>2. end <= size
      BY <1>5, <2>1, <3>1
    <3> QED BY <1>4, <2>1, <3>1, <3>2
  <2>2. CASE j = n + 1
    BY <1>3, <1>4, <2>2
  <2> QED BY <1>1, <1>4, <2>1, <2>2 DEF n
<1>7. ASSUME NEW i \in 1 .. Len(more), NEW j \in 1 .. Len(more), i < j
      PROVE  more[i].index + more[i].length <= more[j].index
  <2>1. i \in 1 .. n
    BY <1>1, <1>4, <1>7 DEF n
  <2>2. CASE j \in 1 .. n
    BY <1>4, <1>7, <2>1, <2>2 DEF LieWithin, n
  <2>3. CASE j = n + 1
    BY <1>3, <1>4, <1>5, <2>1, <2>3
  <2> QED BY <1>1, <1>4, <2>2, <2>3 DEF n
<1> QED BY <1>4, <1>6, <1>7 DEF LieWithin

\* Text and public parameters leave what is covered as it was.
LEMMA CoversText ==
  ASSUME NEW parts \in Seq(HiddenPart), NEW mask \in Seq(BOOLEAN), Covers(parts, mask),
         NEW t \in Seq(BOOLEAN), \A k \in 1 .. Len(t) : t[k] # TRUE,
         NEW u, u = mask \o t
  PROVE  Covers(parts, u)
<1>1. /\ Len(u) = Len(mask) + Len(t) /\ Len(mask) \in Nat /\ Len(t) \in Nat
      /\ \A k \in 1 .. Len(mask) : u[k] = mask[k]
      /\ \A k \in Len(mask) + 1 .. Len(u) :
           k - Len(mask) \in 1 .. Len(t) /\ u[k] = t[k - Len(mask)]
  BY Concatenation
<1>2. /\ Len(parts) \in Nat
      /\ \A j \in 1 .. Len(parts) : parts[j].index \in Nat /\ parts[j].length \in Nat
  BY PartFields
<1>3. \A j \in 1 .. Len(parts) : parts[j].index + parts[j].length <= Len(mask)
  BY DEF Covers
<1>4. ASSUME NEW j \in 1 .. Len(parts)
      PROVE  parts[j].index + parts[j].length <= Len(u)
  <2>1. /\ parts[j].index \in Nat /\ parts[j].length \in Nat
        /\ parts[j].index + parts[j].length <= Len(mask)
    BY <1>2, <1>3
  <2>2. Len(u) \in Nat /\ Len(mask) <= Len(u)
    BY <1>1
  <2> QED BY <1>1, <2>1, <2>2
<1>5. ASSUME NEW k \in 1 .. Len(u)
      PROVE  u[k] = TRUE <=> \E j \in 1 .. Len(parts) : Within(parts[j], k)
  <2>1. CASE k \in 1 .. Len(mask)
    BY <1>1, <2>1 DEF Covers
  <2>2. CASE k \in Len(mask) + 1 .. Len(u)
    <3>1. u[k] # TRUE
      BY <1>1, <2>2
    <3>2. \A j \in 1 .. Len(parts) : ~ Within(parts[j], k)
      BY <1>1, <1>2, <1>3, <2>2 DEF Within
    <3> QED BY <3>1, <3>2
  <2>3. k \in 1 .. Len(mask) \/ k \in Len(mask) + 1 .. Len(u)
    BY <1>1
  <2> QED BY <2>1, <2>2, <2>3
<1> QED BY <1>4, <1>5 DEF Covers

\* A secret at the end is covered by one part more.
LEMMA CoversSecret ==
  ASSUME NEW parts \in Seq(HiddenPart), NEW mask \in Seq(BOOLEAN), Covers(parts, mask),
         NEW t \in Seq(BOOLEAN), \A k \in 1 .. Len(t) : t[k] = TRUE,
         NEW u, u = mask \o t,
         NEW more, more = Append(parts, [index |-> Len(mask), length |-> Len(t)])
  PROVE  more \in Seq(HiddenPart) /\ Covers(more, u)
<1>1. /\ Len(u) = Len(mask) + Len(t) /\ Len(mask) \in Nat /\ Len(t) \in Nat
      /\ \A k \in 1 .. Len(mask) : u[k] = mask[k]
      /\ \A k \in Len(mask) + 1 .. Len(u) :
           k - Len(mask) \in 1 .. Len(t) /\ u[k] = t[k - Len(mask)]
  BY Concatenation
<1>2. /\ Len(parts) \in Nat
      /\ \A j \in 1 .. Len(parts) : parts[j].index \in Nat /\ parts[j].length \in Nat
  BY PartFields
<1> DEFINE n == Len(parts)
<1>3. PICK last : last = [index |-> Len(mask), length |-> Len(t)]
  OBVIOUS
<1>4. last \in HiddenPart /\ last.index = Len(mask) /\ last.length = Len(t)
  BY <1>1, <1>3 DEF HiddenPart
<1>5. /\ more \in Seq(HiddenPart) /\ Len(more) = n + 1 /\ more[n + 1] = last
      /\ \A j \in 1 .. n : more[j] = parts[j]
  BY <1>3, <1>4
<1> HIDE DEF n
<1>6. \A j \in 1 .. n : parts[j].index + parts[j].length <= Len(mask)
  BY DEF Covers, n
<1>7. ASSUME NEW j \in 1 .. Len(more)
      PROVE  more[j].index + more[j].length <= Len(u)
  <2>1. CASE j \in 1 .. n
    BY <1>1, <1>2, <1>5, <1>6, <2>1 DEF n
  <2>2. CASE j = n + 1
    BY <1>1, <1>4, <1>5, <2>2
  <2> QED BY <1>2, <1>5, <2>1, <2>2 DEF n
<1>8. ASSUME NEW i \in 1 .. Len(more), NEW j \in 1 .. Len(more), i < j
      PROVE  more[i].index + more[i].length <= more[j].index
  <2>1. i \in 1 .. n
    BY <1>2, <1>5, <1>8 DEF n
  <2>2. CASE j \in 1 .. n
    BY <1>5, <1>8, <2>1, <2>2 DEF Covers, n
  <2>3. CASE j = n + 1
    BY <1>4, <1>5, <1>6, <2>1, <2>3
  <2> QED BY <1>2, <1>5, <2>2, <2>3 DEF n
<1>9. ASSUME NEW k \in 1 .. Len(u)
      PROVE  u[k] = TRUE <=> \E j \in 1 .. Len(more) : Within(more[j], k)
  <2>1. /\ n + 1 \in 1 .. Len(more)
        /\ \A j \in 1 .. n : j \in 1 .. Len(more)
        /\ \A j \in 1 .. Len(more) : j \in 1 .. n \/ j = n + 1
    BY <1>2, <1>5 DEF n
  <2>2. CASE k \in 1 .. Len(mask)
    <3>1. ~ Within(last, k)
      BY <1>1, <1>4, <2>2 DEF Within
    <3>2. mask[k] = TRUE <=> \E j \in 1 .. n : Within(parts[j], k)
      BY <2>2 DEF Covers, n
    <3>3. u[k] = mask[k]
      BY <1>1, <2>2
    <3>4. ASSUME NEW j \in 1 .. n
          PROVE  j \in 1 .. Len(more) /\ (Within(more[j], k) <=> Within(parts[j], k))
      BY <1>5, <2>1
    <3>5. ASSUME NEW j \in 1 .. Len(more), Within(more[j], k) PROVE j \in 1 .. n
      <4>1. more[j] # last
        BY <3>1, <3>5
      <4> QED BY <1>5, <2>1, <4>1
    <3> QED BY <3>2, <3>3, <3>4, <3>5, Zenon
  <2>3. CASE k \in Len(mask) + 1 .. Len(u)
    <3>1. u[k] = TRUE
      BY <1>1, <2>3
    <3>2. Within(more[n + 1], k)
      BY <1>1, <1>4, <1>5, <2>3 DEF Within
    <3> QED BY <2>1, <3>1, <3>2
  <2>4. k \in 1 .. Len(mask) \/ k \in Len(mask) + 1 .. Len(u)
    BY <1>1
  <2> QED BY <2>2, <2>3, <2>4
<1> QED BY <1>5, <1>7, <1>8, <1>9 DEF Covers

NoneReplaced == [newParam |-> <<>>, hiddenParts |-> <<>>, offset |-> 0, totalOffset |-> 0]

\* The loop of extractAndReplaceTemplateValues.
LEMMA TemplateLoop ==
  ASSUME NEW parts \in Seq(BodyPart)
  PROVE  \E f : f = [n \in 0 .. Len(parts) |->
                       IF n = 0 THEN NoneReplaced ELSE Replace(f[n - 1], parts[n])]
<1> DEFINE T == {acc \in Replaced : InPlace(acc)}
           Step(n, acc) == IF n \in 1 .. Len(parts) THEN Replace(acc, parts[n]) ELSE acc
           step == [a \in Nat \X T |-> Step(a[1], a[2])]
<1>1. Len(parts) \in Nat /\ \A n \in 1 .. Len(parts) : parts[n] \in BodyPart
  OBVIOUS
<1>2. NoneReplaced \in T
  <2>1. NoneReplaced \in Replaced
    BY DEF NoneReplaced, Replaced
  <2>2. InPlace(NoneReplaced)
    BY DEF NoneReplaced, InPlace, placeOf
  <2> QED BY <2>1, <2>2
<1>3. ASSUME NEW n \in Nat, NEW acc \in T
      PROVE  Step(n, acc) \in T
  <2>1. CASE n \in 1 .. Len(parts)
    <3>1. acc \in Replaced /\ InPlace(acc) /\ parts[n] \in BodyPart
      BY <1>1, <2>1
    <3>2. Replace(acc, parts[n]) \in Replaced /\ InPlace(Replace(acc, parts[n]))
      BY <3>1, ReplaceFields
    <3> QED BY <2>1, <3>2
  <2>2. CASE n \notin 1 .. Len(parts)
    BY <2>2
  <2> QED BY <2>1, <2>2
<1> HIDE DEF T, Step
<1>4. step \in [Nat \X T -> T]
  BY <1>3
<1>5. PICK f : IsLoop(f, T, step, NoneReplaced, Len(parts))
  <2> HIDE DEF step
  <2> QED BY <1>1, <1>2, <1>4, LoopExists
<1>6. f \in [0 .. Len(parts) -> T] /\ f[0] = NoneReplaced
  BY <1>5 DEF IsLoop
<1>7. ASSUME NEW n \in 1 .. Len(parts)
      PROVE  f[n] = Replace(f[n - 1], parts[n])
  <2>1. f[n] = step[<<n, f[n - 1]>>]
    BY <1>5 DEF IsLoop
  <2>2. n \in Nat /\ n - 1 \in 0 .. Len(parts)
    BY <1>1
  <2>3. f[n - 1] \in T
    BY <1>6, <2>2
  <2>4. step[<<n, f[n - 1]>>] = Step(n, f[n - 1])
    BY <2>2, <2>3
  <2> QED BY <2>1, <2>4 DEF Step
<1>8. ASSUME NEW n \in 0 .. Len(parts)
      PROVE  f[n] = IF n = 0 THEN NoneReplaced ELSE Replace(f[n - 1], parts[n])
  <2>1. n # 0 => n \in 1 .. Len(parts)
    BY <1>1
  <2> QED BY <1>6, <1>7, <2>1
<1> QED BY <1>6, <1>8

\* Strings as long as their bytes.
IsExact(parts) == \A i \in 1 .. Len(parts) : parts[i].length = Len(parts[i].value)

\* What extractAndReplaceTemplateValues notes is in order and within the body, and
\* what is hidden of it if its strings are as long as their bytes.
LEMMA TemplateHides ==
  ASSUME NEW parts \in Seq(BodyPart),
         NEW body, body = extractAndReplaceTemplateValues(parts),
         NEW mask, mask = FlattenSeq(Mask(parts))
  PROVE  /\ body.newParam \in Seq(STRING) /\ body.hiddenParts \in Seq(HiddenPart)
         /\ mask \in Seq(BOOLEAN) /\ Len(mask) = Len(body.newParam)
         /\ LieWithin(body.hiddenParts, Len(mask))
         /\ IsExact(parts) => Covers(body.hiddenParts, mask)
<1> DEFINE upTo[n \in 0 .. Len(parts)] ==
             IF n = 0 THEN NoneReplaced ELSE Replace(upTo[n - 1], parts[n])
<1>1. body = upTo[Len(parts)]
  BY DEF extractAndReplaceTemplateValues, Replace, NoneReplaced
<1>2. upTo = [n \in 0 .. Len(parts) |->
                IF n = 0 THEN NoneReplaced ELSE Replace(upTo[n - 1], parts[n])]
  BY TemplateLoop
<1> HIDE DEF upTo
<1>3. PICK f \in [0 .. Len(parts) -> Seq(BOOLEAN)] :
        /\ f[0] = <<>>
        /\ \A n \in 1 .. Len(parts) : f[n] = f[n - 1] \o Mask(parts)[n]
        /\ mask = f[Len(parts)]
  <2>1. PICK seqs : seqs = Mask(parts) /\ seqs \in Seq(Seq(BOOLEAN)) /\ Len(seqs) = Len(parts)
    BY MaskType
  <2>2. PICK f \in [0 .. Len(seqs) -> Seq(BOOLEAN)] :
          /\ f[0] = <<>>
          /\ \A n \in 1 .. Len(seqs) : f[n] = f[n - 1] \o seqs[n]
          /\ FlattenSeq(seqs) = f[Len(seqs)]
    BY <2>1, Flattened
  <2> QED BY <2>1, <2>2
<1> DEFINE Made(acc, m) == /\ acc \in Replaced /\ InPlace(acc)
                           /\ m \in Seq(BOOLEAN) /\ Len(m) = Len(acc.newParam)
                           /\ LieWithin(acc.hiddenParts, placeOf(acc))
                           /\ IsExact(parts) => /\ placeOf(acc) = Len(m)
                                                /\ Covers(acc.hiddenParts, m)
           P == {n \in Nat : n <= Len(parts) => Made(upTo[n], f[n])}
<1>4. Len(parts) \in Nat /\ \A n \in 1 .. Len(parts) : parts[n] \in BodyPart
  OBVIOUS
<1>5. 0 \in P
  <2>1. upTo[0] = NoneReplaced /\ f[0] = <<>>
    BY <1>2, <1>3, <1>4
  <2>2. NoneReplaced \in Replaced /\ InPlace(NoneReplaced)
    BY DEF NoneReplaced, Replaced, InPlace, placeOf
  <2>3. /\ NoneReplaced.newParam = <<>> /\ NoneReplaced.hiddenParts = <<>>
        /\ <<>> \in Seq(BOOLEAN) /\ placeOf(NoneReplaced) = 0
    BY DEF NoneReplaced, placeOf
  <2>4. Covers(<<>>, <<>>) /\ LieWithin(<<>>, 0)
    BY DEF Covers, LieWithin
  <2> QED BY <2>1, <2>2, <2>3, <2>4
<1>6. ASSUME NEW n \in Nat, n \in P
      PROVE  n + 1 \in P
  <2> SUFFICES ASSUME n + 1 <= Len(parts) PROVE Made(upTo[n + 1], f[n + 1])
    OBVIOUS
  <2>1. n + 1 \in 1 .. Len(parts) /\ n <= Len(parts) /\ (n + 1) - 1 = n
    BY <1>4
  <2>2. PICK acc, m : acc = upTo[n] /\ m = f[n]
    OBVIOUS
  <2>3. /\ acc \in Replaced /\ InPlace(acc) /\ m \in Seq(BOOLEAN)
        /\ Len(m) = Len(acc.newParam) /\ LieWithin(acc.hiddenParts, placeOf(acc))
        /\ IsExact(parts) => placeOf(acc) = Len(m) /\ Covers(acc.hiddenParts, m)
    BY <1>6, <2>1, <2>2
  <2>4. PICK part : /\ part = parts[n + 1] /\ part \in BodyPart
                    /\ part.length \in Nat
                    /\ IsExact(parts) => part.length = Len(part.value)
    <3>1. parts[n + 1] \in BodyPart
      BY <1>4, <2>1
    <3>2. parts[n + 1].length \in Nat
      BY <3>1 DEF BodyPart
    <3> QED BY <2>1, <3>1, <3>2 DEF IsExact
  <2>5. PICK t : /\ t = Mask(parts)[n + 1] /\ t \in Seq(BOOLEAN)
                 /\ Len(t) = Len(part.value)
                 /\ \A k \in 1 .. Len(t) : t[k] = TRUE <=> part.kind = "secret"
    <3>1. PICK t : t = Mask(parts)[n + 1]
      OBVIOUS
    <3>2. /\ t \in Seq(BOOLEAN) /\ Len(t) = Len(part.value)
          /\ \A k \in 1 .. Len(part.value) : t[k] = TRUE <=> part.kind = "secret"
      BY <2>1, <2>4, <3>1, MaskType
    <3> QED BY <3>1, <3>2
  <2>6. PICK new, u : new = Replace(acc, part) /\ u = m \o t
    OBVIOUS
  <2>7. upTo[n + 1] = new /\ f[n + 1] = u
    <3>1. n + 1 \in 0 .. Len(parts) /\ n + 1 # 0
      BY <2>1
    <3>2. upTo[n + 1] = Replace(upTo[n], parts[n + 1])
      BY <1>2, <2>1, <3>1
    <3>3. f[n + 1] = f[n] \o Mask(parts)[n + 1]
      BY <1>3, <2>1
    <3> QED BY <2>2, <2>4, <2>5, <2>6, <3>2, <3>3
  <2>8. /\ new \in Replaced /\ InPlace(new)
        /\ placeOf(new) = placeOf(acc) + part.length
        /\ new.newParam = acc.newParam \o part.value
        /\ new.hiddenParts =
             IF part.kind # "secret" THEN acc.hiddenParts
             ELSE Append(acc.hiddenParts, [index |-> placeOf(acc), length |-> part.length])
    BY <2>3, <2>4, <2>6, ReplaceFields
  <2>9. u \in Seq(BOOLEAN) /\ Len(u) = Len(new.newParam) /\ Len(u) = Len(m) + Len(t)
    <3>1. acc.newParam \in Seq(STRING) /\ part.value \in Seq(STRING)
      BY <2>3, <2>4 DEF Replaced, BodyPart
    <3>2. Len(new.newParam) = Len(acc.newParam) + Len(part.value)
      BY <2>8, <3>1
    <3>3. u = m \o t /\ m \in Seq(BOOLEAN) /\ t \in Seq(BOOLEAN)
      BY <2>3, <2>5, <2>6
    <3>4. u \in Seq(BOOLEAN) /\ Len(u) = Len(m) + Len(t)
      BY <3>3, Concatenation
    <3> QED BY <2>3, <2>5, <3>2, <3>4
  <2>10. acc.hiddenParts \in Seq(HiddenPart)
    BY <2>3 DEF Replaced
  <2>11. IsExact(parts) => placeOf(new) = Len(u)
    BY <2>3, <2>4, <2>5, <2>8, <2>9
  <2>12. placeOf(acc) \in Nat /\ placeOf(new) \in Nat /\ placeOf(acc) <= placeOf(new)
    <3>1. placeOf(acc) \in Nat
      BY <2>3 DEF InPlace
    <3> QED BY <2>4, <2>8, <3>1
  <2>13. CASE part.kind # "secret"
    <3>1. \A k \in 1 .. Len(t) : t[k] # TRUE
      BY <2>5, <2>13
    <3>2. IsExact(parts) => Covers(acc.hiddenParts, u)
      BY <2>3, <2>5, <2>6, <2>10, <3>1, CoversText
    <3>3. LieWithin(acc.hiddenParts, placeOf(new))
      BY <2>3, <2>10, <2>12, FitsMore
    <3> QED BY <2>7, <2>8, <2>9, <2>11, <2>13, <3>2, <3>3
  <2>14. CASE part.kind = "secret"
    <3>1. \A k \in 1 .. Len(t) : t[k] = TRUE
      BY <2>5, <2>14
    <3>2. IsExact(parts) =>
            new.hiddenParts = Append(acc.hiddenParts, [index |-> Len(m), length |-> Len(t)])
      BY <2>3, <2>4, <2>5, <2>8, <2>14
    <3>3. IsExact(parts) => Covers(new.hiddenParts, u)
      BY <2>3, <2>5, <2>6, <2>10, <3>1, <3>2, CoversSecret
    <3>4. LieWithin(new.hiddenParts, placeOf(new))
      <4>1. new.hiddenParts =
              Append(acc.hiddenParts, [index |-> placeOf(acc), length |-> part.length])
        BY <2>8, <2>14
      <4> QED BY <2>3, <2>4, <2>8, <2>10, <2>12, <4>1, FitsAnother
    <3> QED BY <2>7, <2>8, <2>9, <2>11, <3>3, <3>4
  <2> QED BY <2>13, <2>14
<1> HIDE DEF P
<1>7. Nat \subseteq P
  BY <1>5, <1>6, InductionOverNat
<1>8. Made(body, mask)
  BY <1>1, <1>3, <1>4, <1>7 DEF P
<1>9. LieWithin(body.hiddenParts, Len(mask))
  <2>1. /\ body.hiddenParts \in Seq(HiddenPart) /\ mask \in Seq(BOOLEAN)
        /\ placeOf(body) \in Nat /\ placeOf(body) <= Len(mask)
    BY <1>8 DEF Replaced, InPlace
  <2>2. Len(mask) \in Nat
    BY <2>1
  <2> QED BY <1>8, <2>1, <2>2, FitsMore
<1> QED BY <1>8, <1>9 DEF Replaced

-----------------------------------------------------------------------------
(* Redactions: the slices are in order, and hide the secrets.               *)

SliceRecord == [fromIndex : Nat, toIndex : Nat]

\* The bounds of slices are numbers.
LEMMA SliceFields ==
  ASSUME NEW s \in Seq(SliceRecord)
  PROVE  /\ Len(s) \in Nat
         /\ \A i \in 1 .. Len(s) : s[i].fromIndex \in Nat /\ s[i].toIndex \in Nat
<1>1. Len(s) \in Nat /\ \A i \in 1 .. Len(s) : s[i] \in SliceRecord
  OBVIOUS
<1> QED BY <1>1 DEF SliceRecord

isIn(slice, k) == slice.fromIndex < k /\ k <= slice.toIndex

isHidden(slices, k) == \E i \in 1 .. Len(slices) : isIn(slices[i], k)

\* What an appended sequence holds.
LEMMA Appended ==
  ASSUME NEW X, NEW s \in Seq(X), NEW x \in X, NEW t, t = Append(s, x)
  PROVE  /\ t \in Seq(X) /\ Len(t) = Len(s) + 1 /\ t[Len(s) + 1] = x
         /\ \A i \in 1 .. Len(s) : t[i] = s[i]
OBVIOUS

\* One turn of the loop over the hidden parts of the body.
Redact(slices, part, at) ==
  IF part.length = 0 THEN slices
  ELSE Append(slices, Slice(at + part.index, at + part.index + part.length))

\* The loop of createRequest computes something in each turn.
LEMMA RedactionLoop ==
  ASSUME NEW parts \in Seq(HiddenPart), NEW at \in Nat, NEW first \in SliceRecord
  PROVE  \E f : f = [n \in 0 .. Len(parts) |->
                       IF n = 0 THEN <<first>> ELSE Redact(f[n - 1], parts[n], at)]
<1> DEFINE T == Seq(SliceRecord)
           Step(n, s) == IF n \in 1 .. Len(parts) THEN Redact(s, parts[n], at) ELSE s
           step == [a \in Nat \X T |-> Step(a[1], a[2])]
<1>1. /\ Len(parts) \in Nat
      /\ \A j \in 1 .. Len(parts) : parts[j].index \in Nat /\ parts[j].length \in Nat
  BY PartFields
<1>2. <<first>> \in T
  OBVIOUS
<1>3. ASSUME NEW n \in Nat, NEW s \in T
      PROVE  Step(n, s) \in T
  <2>1. CASE n \in 1 .. Len(parts)
    <3>1. PICK a, b : a = at + parts[n].index /\ b = at + parts[n].index + parts[n].length
      OBVIOUS
    <3>2. a \in Nat /\ b \in Nat
      BY <1>1, <2>1, <3>1
    <3>3. Slice(a, b) \in SliceRecord
      BY <3>2 DEF Slice, SliceRecord
    <3>4. Append(s, Slice(a, b)) \in T
      BY <3>3
    <3>5. Redact(s, parts[n], at) \in T
      BY <3>1, <3>4 DEF Redact
    <3> QED BY <2>1, <3>5
  <2>2. CASE n \notin 1 .. Len(parts)
    BY <2>2
  <2> QED BY <2>1, <2>2
<1> HIDE DEF T, Step
<1>4. step \in [Nat \X T -> T]
  BY <1>3
<1>5. PICK f : IsLoop(f, T, step, <<first>>, Len(parts))
  <2> HIDE DEF step
  <2>1. PICK start : start = <<first>>
    OBVIOUS
  <2>2. \E f : IsLoop(f, T, step, start, Len(parts))
    BY <1>1, <1>2, <1>4, <2>1, LoopExists
  <2> QED BY <2>1, <2>2
<1>6. f \in [0 .. Len(parts) -> T] /\ f[0] = <<first>>
  BY <1>5 DEF IsLoop
<1>7. ASSUME NEW n \in 1 .. Len(parts)
      PROVE  f[n] = Redact(f[n - 1], parts[n], at)
  <2>1. f[n] = step[<<n, f[n - 1]>>]
    BY <1>5 DEF IsLoop
  <2>2. n \in Nat /\ n - 1 \in 0 .. Len(parts)
    BY <1>1
  <2>3. f[n - 1] \in T
    BY <1>6, <2>2
  <2>4. step[<<n, f[n - 1]>>] = Step(n, f[n - 1])
    BY <2>2, <2>3
  <2> QED BY <2>1, <2>4 DEF Step
<1>8. ASSUME NEW n \in 0 .. Len(parts)
      PROVE  f[n] = IF n = 0 THEN <<first>> ELSE Redact(f[n - 1], parts[n], at)
  <2>1. n # 0 => n \in 1 .. Len(parts)
    BY <1>1
  <2> QED BY <1>6, <1>7, <2>1
<1> QED BY <1>6, <1>8

\* The slices are in order, within the data, and hide so many of the secret headers
\* and the first n parts, none of which is behind them.
Redacts(slices, parts, n, secrets, units, length) ==
  /\ \A i \in 1 .. Len(slices) :
       /\ 1 <= slices[i].fromIndex /\ slices[i].fromIndex < slices[i].toIndex
       /\ slices[i].toIndex <= length
       /\ \A j \in n + 1 .. Len(parts) : slices[i].toIndex <= secrets + 2 + parts[j].index
  /\ \A i, j \in 1 .. Len(slices) :
       i < j => slices[i].toIndex <= slices[j].fromIndex
  /\ \A k \in Int :
       isHidden(slices, k) <=>
         \/ 1 < k /\ k <= units + 1
         \/ \E j \in 1 .. n : Within(parts[j], k - (secrets + 2))

\* A turn hides its part, and keeps the slices in order.
LEMMA RedactStep ==
  ASSUME NEW secrets \in Nat, NEW units, NEW parts \in Seq(HiddenPart), NEW bytes \in Nat,
         LieWithin(parts, bytes), NEW n \in 1 .. Len(parts),
         NEW length, length = secrets + 2 + bytes,
         NEW s \in Seq(SliceRecord), Redacts(s, parts, n - 1, secrets, units, length),
         NEW t, t = Redact(s, parts[n], secrets + 2)
  PROVE  t \in Seq(SliceRecord) /\ Redacts(t, parts, n, secrets, units, length)
<1>1. /\ Len(parts) \in Nat /\ n \in Nat /\ n - 1 \in Nat
      /\ \A j \in 1 .. Len(parts) : parts[j].index \in Nat /\ parts[j].length \in Nat
  BY PartFields
<1>2. /\ Len(s) \in Nat
      /\ \A i \in 1 .. Len(s) : s[i].fromIndex \in Nat /\ s[i].toIndex \in Nat
  BY SliceFields
<1>3. bytes \in Nat /\ length \in Nat
  OBVIOUS
<1>4. PICK at : at = secrets + 2 /\ at \in Nat
  OBVIOUS
<1>5. PICK index, size : index = parts[n].index /\ size = parts[n].length
                         /\ index \in Nat /\ size \in Nat
  BY <1>1
<1>6. index + size <= bytes
  BY <1>5 DEF LieWithin
<1>7. \A j \in n + 1 .. Len(parts) : j \in 1 .. Len(parts) /\ index + size <= parts[j].index
  <2> SUFFICES ASSUME NEW j \in n + 1 .. Len(parts)
               PROVE  j \in 1 .. Len(parts) /\ index + size <= parts[j].index
    OBVIOUS
  <2>1. j \in 1 .. Len(parts) /\ n < j
    BY <1>1
  <2> QED BY <1>5, <2>1 DEF LieWithin
<1>8. \A i \in 1 .. Len(s) :
        /\ 1 <= s[i].fromIndex /\ s[i].fromIndex < s[i].toIndex
        /\ s[i].toIndex <= length
        /\ \A j \in n .. Len(parts) : s[i].toIndex <= at + parts[j].index
  BY <1>1, <1>4 DEF Redacts
<1>9. \A j \in 1 .. n : j \in 1 .. n - 1 \/ j = n
  BY <1>1
<1>10. ASSUME NEW k \in Int
       PROVE  (\E j \in 1 .. n : Within(parts[j], k - at)) <=>
                \/ \E j \in 1 .. n - 1 : Within(parts[j], k - at)
                \/ Within(parts[n], k - at)
  <2>1. n \in 1 .. n /\ \A j \in 1 .. n - 1 : j \in 1 .. n
    BY <1>1
  <2> QED BY <1>9, <2>1
<1>11. ASSUME NEW k \in Int
       PROVE  Within(parts[n], k - at) <=> at + index < k /\ k <= at + index + size
  <2>1. Within(parts[n], k - at) <=> index < k - at /\ k - at <= index + size
    BY <1>5 DEF Within
  <2>2. index < k - at /\ k - at <= index + size <=> at + index < k /\ k <= at + index + size
    <3>1. at \in Nat /\ index \in Nat /\ size \in Nat
      BY <1>4, <1>5
    <3> QED BY <3>1
  <2> QED BY <2>1, <2>2
<1>12. \A k \in Int :
         isHidden(s, k) <=>
           \/ 1 < k /\ k <= units + 1
           \/ \E j \in 1 .. n - 1 : Within(parts[j], k - at)
  BY <1>4 DEF Redacts
<1>13. \A i, j \in 1 .. Len(s) : i < j => s[i].toIndex <= s[j].fromIndex
  BY DEF Redacts
<1>14. CASE size = 0
  <2>1. t = s
    BY <1>5, <1>14 DEF Redact
  <2>2. ASSUME NEW k \in Int
        PROVE  ~ Within(parts[n], k - at)
    <3>1. at + index < k /\ k <= at + index + size => FALSE
      BY <1>4, <1>5, <1>14
    <3> QED BY <1>11, <3>1
  <2>3. \A j \in n + 1 .. Len(parts) : j \in n .. Len(parts)
    BY <1>1
  <2>4. ASSUME NEW k \in Int
        PROVE  isHidden(t, k) <=> \/ 1 < k /\ k <= units + 1
                                  \/ \E j \in 1 .. n : Within(parts[j], k - at)
    BY <1>10, <1>12, <2>1, <2>2
  <2> QED BY <1>4, <1>8, <1>13, <2>1, <2>3, <2>4 DEF Redacts
<1>15. CASE size # 0
  <2> DEFINE m == Len(s)
  <2>1. PICK from, to : from = at + index /\ to = at + index + size
    OBVIOUS
  <2>2. from \in Nat /\ to \in Nat /\ from < to /\ 1 <= from /\ to <= length
    <3>1. size > 0 /\ length = at + bytes
      BY <1>4, <1>5, <1>15, SMTT(30)
    <3>2. at >= 2 /\ at \in Nat /\ index \in Nat /\ size \in Nat /\ bytes \in Nat
      BY <1>3, <1>4, <1>5
    <3> QED BY ONLY <1>6, <2>1, <3>1, <3>2
  <2>3. PICK last : last = Slice(from, to)
    OBVIOUS
  <2>4. last \in SliceRecord /\ last.fromIndex = from /\ last.toIndex = to
    BY <2>2, <2>3 DEF Slice, SliceRecord
  <2>5. t = Append(s, last)
    <3>1. t = Redact(s, parts[n], at) /\ size = parts[n].length /\ index = parts[n].index
      BY <1>4, <1>5
    <3> QED BY <1>15, <2>1, <2>3, <3>1 DEF Redact
  <2>6. /\ t \in Seq(SliceRecord) /\ Len(t) = m + 1 /\ t[m + 1] = last
        /\ \A i \in 1 .. m : t[i] = s[i]
    <3>1. PICK X : X = SliceRecord
      OBVIOUS
    <3>2. s \in Seq(X) /\ last \in X
      BY <2>4, <3>1
    <3>3. /\ t \in Seq(X) /\ Len(t) = Len(s) + 1 /\ t[Len(s) + 1] = last
          /\ \A i \in 1 .. Len(s) : t[i] = s[i]
      BY ONLY <2>5, <3>2, Appended
    <3> QED BY <3>1, <3>3
  <2> HIDE DEF m
  <2>7. m \in Nat
    BY <1>2 DEF m
  <2>8. \A i \in 1 .. Len(t) : i \in 1 .. m \/ i = m + 1
    BY <2>6, <2>7
  <2>9. n \in n .. Len(parts) /\ \A j \in n + 1 .. Len(parts) : j \in n .. Len(parts)
    BY <1>1
  <2>10. \A i \in 1 .. m : s[i].toIndex <= from
    BY <1>5, <1>8, <2>1, <2>9 DEF m
  <2>11. ASSUME NEW i \in 1 .. Len(t)
         PROVE  /\ 1 <= t[i].fromIndex /\ t[i].fromIndex < t[i].toIndex
                /\ t[i].toIndex <= length
                /\ \A j \in n + 1 .. Len(parts) : t[i].toIndex <= at + parts[j].index
    <3>1. CASE i \in 1 .. m
      BY <1>8, <2>6, <2>9, <3>1 DEF m
    <3>2. CASE i = m + 1
      <4>1. ASSUME NEW j \in n + 1 .. Len(parts) PROVE to <= at + parts[j].index
        <5>1. PICK p \in Nat : p = parts[j].index /\ index + size <= p
          BY <1>1, <1>7
        <5>2. at + index + size <= at + p
          <6>1. at \in Nat /\ index \in Nat /\ size \in Nat /\ p \in Nat
            BY <1>4, <1>5
          <6> QED BY ONLY <5>1, <6>1
        <5> QED BY <2>1, <5>1, <5>2
      <4> QED BY <2>2, <2>4, <2>6, <3>2, <4>1
    <3> QED BY <2>8, <3>1, <3>2
  <2>12. ASSUME NEW i \in 1 .. Len(t), NEW j \in 1 .. Len(t), i < j
         PROVE  t[i].toIndex <= t[j].fromIndex
    <3>1. i \in 1 .. m
      BY <2>6, <2>7, <2>12
    <3>2. CASE j \in 1 .. m
      BY <1>13, <2>6, <2>12, <3>1, <3>2 DEF m
    <3>3. CASE j = m + 1
      BY <2>4, <2>6, <2>10, <3>1, <3>3
    <3> QED BY <2>8, <3>2, <3>3
  <2>13. ASSUME NEW k \in Int
         PROVE  isHidden(t, k) <=> \/ 1 < k /\ k <= units + 1
                                   \/ \E j \in 1 .. n : Within(parts[j], k - at)
    <3>1. isIn(last, k) <=> Within(parts[n], k - at)
      BY <1>11, <2>1, <2>4 DEF isIn
    <3>2. isHidden(t, k) <=> isHidden(s, k) \/ isIn(last, k)
      <4>1. m + 1 \in 1 .. Len(t) /\ \A i \in 1 .. m : i \in 1 .. Len(t)
        BY <2>6, <2>7
      <4> QED BY <2>6, <2>8, <4>1 DEF isHidden, m
    <3> QED BY <1>10, <1>12, <3>1, <3>2
  <2> QED BY <1>4, <2>6, <2>11, <2>12, <2>13 DEF Redacts
<1> QED BY <1>5, <1>14, <1>15

\* A sequence of one element.
LEMMA OneElement ==
  ASSUME NEW X, NEW x \in X, NEW s, s = <<x>>
  PROVE  s \in Seq(X) /\ Len(s) = 1 /\ s[1] = x
OBVIOUS

\* The loop of createRequest over the hidden parts of the body.
LEMMA BodyRedactions ==
  ASSUME NEW secrets \in Nat \ {0}, NEW units \in 1 .. secrets,
         NEW parts \in Seq(HiddenPart), NEW bytes \in Nat, LieWithin(parts, bytes),
         NEW length, length = secrets + 2 + bytes,
         NEW f, f = [n \in 0 .. Len(parts) |->
                       IF n = 0 THEN <<Slice(1, 1 + units)>>
                       ELSE Redact(f[n - 1], parts[n], secrets + 2)]
  PROVE  /\ f[Len(parts)] \in Seq(SliceRecord)
         /\ Redacts(f[Len(parts)], parts, Len(parts), secrets, units, length)
<1> DEFINE Made(n) == f[n] \in Seq(SliceRecord) /\ Redacts(f[n], parts, n, secrets, units, length)
           P == {n \in Nat : n <= Len(parts) => Made(n)}
<1>1. /\ Len(parts) \in Nat
      /\ \A j \in 1 .. Len(parts) : parts[j].index \in Nat /\ parts[j].length \in Nat
  BY PartFields
<1>2. 0 \in P
  <2>1. PICK first : first = Slice(1, 1 + units)
    OBVIOUS
  <2>2. first \in SliceRecord /\ first.fromIndex = 1 /\ first.toIndex = 1 + units
    BY <2>1 DEF Slice, SliceRecord
  <2>3. PICK s : s = <<first>>
    OBVIOUS
  <2>4. f[0] = s
    BY <1>1, <2>1, <2>3
  <2>5. s \in Seq(SliceRecord) /\ Len(s) = 1 /\ s[1] = first
    BY <2>2, <2>3
  <2>6. bytes \in Nat /\ length \in Nat /\ secrets \in Nat /\ secrets >= 1
        /\ units \in Nat /\ units >= 1 /\ units <= secrets
    OBVIOUS
  <2>7. ASSUME NEW j \in 1 .. Len(parts)
        PROVE  1 + units <= secrets + 2 + parts[j].index
    BY <1>1, <2>6
  <2>8. 1 <= 1 /\ 1 < 1 + units /\ 1 + units <= length
    BY <2>6
  <2>9. ASSUME NEW i \in 1 .. Len(s)
        PROVE  /\ 1 <= s[i].fromIndex /\ s[i].fromIndex < s[i].toIndex
               /\ s[i].toIndex <= length
               /\ \A j \in 0 + 1 .. Len(parts) : s[i].toIndex <= secrets + 2 + parts[j].index
    <3>1. i = 1
      BY <2>5
    <3> QED BY <2>2, <2>5, <2>7, <2>8, <3>1
  <2>10. \A i, j \in 1 .. Len(s) : ~ i < j
    BY <2>5
  <2>11. ASSUME NEW k \in Int
         PROVE  isHidden(s, k) <=> \/ 1 < k /\ k <= units + 1
                                   \/ \E j \in 1 .. 0 : Within(parts[j], k - (secrets + 2))
    <3>1. isHidden(s, k) <=> isIn(first, k)
      <4>1. 1 \in 1 .. Len(s) /\ \A i \in 1 .. Len(s) : i = 1
        BY <2>5
      <4> QED BY <2>5, <4>1 DEF isHidden
    <3>2. isIn(first, k) <=> 1 < k /\ k <= 1 + units
      BY <2>2 DEF isIn
    <3>3. 1 + units = units + 1 /\ 1 .. 0 = {}
      BY <2>6
    <3> QED BY <3>1, <3>2, <3>3
  <2>12. Redacts(s, parts, 0, secrets, units, length)
    <3>1. \A i \in 1 .. Len(s) :
             /\ 1 <= s[i].fromIndex /\ s[i].fromIndex < s[i].toIndex
             /\ s[i].toIndex <= length
             /\ \A j \in 0 + 1 .. Len(parts) : s[i].toIndex <= secrets + 2 + parts[j].index
      BY <2>9
    <3>2. \A i, j \in 1 .. Len(s) : i < j => s[i].toIndex <= s[j].fromIndex
      BY <2>10
    <3>3. \A k \in Int :
             isHidden(s, k) <=> \/ 1 < k /\ k <= units + 1
                               \/ \E j \in 1 .. 0 : Within(parts[j], k - (secrets + 2))
      BY <2>11
    <3> QED BY ONLY <3>1, <3>2, <3>3 DEF Redacts
  <2>13. Made(0)
    BY <2>4, <2>5, <2>12
  <2> HIDE DEF Made
  <2> QED BY <2>13
<1>3. ASSUME NEW n \in Nat, n \in P
      PROVE  n + 1 \in P
  <2> SUFFICES ASSUME n + 1 <= Len(parts) PROVE Made(n + 1)
    OBVIOUS
  <2>1. PICK m : m = n + 1
    OBVIOUS
  <2>2. m = n + 1 /\ m \in 1 .. Len(parts) /\ m - 1 = n
    BY <1>1, <2>1
  <2>3. PICK s : s = f[n]
    OBVIOUS
  <2>4. n <= Len(parts)
    BY <1>1
  <2>5. s = f[n] /\ s \in Seq(SliceRecord) /\ Redacts(s, parts, m - 1, secrets, units, length)
    BY <1>3, <2>2, <2>3, <2>4
  <2>6. PICK t : t = Redact(s, parts[m], secrets + 2)
    OBVIOUS
  <2>7. f[m] = t
    <3>1. m \in 0 .. Len(parts) /\ m # 0
      BY <2>2
    <3>2. f[m] = Redact(f[m - 1], parts[m], secrets + 2)
      BY <3>1
    <3> QED BY <2>2, <2>5, <2>6, <3>2
  <2>8. secrets \in Nat
    OBVIOUS
  <2>9. t \in Seq(SliceRecord) /\ Redacts(t, parts, m, secrets, units, length)
    BY <2>2, <2>5, <2>6, <2>8, RedactStep
  <2> QED BY <2>2, <2>7, <2>9
<1> HIDE DEF P
<1>4. Len(parts) \in P
  BY <1>1, <1>2, <1>3, InductionOverNat
<1> QED BY <1>1, <1>4 DEF P

\* The strings, with those of the headers.
Byte == STRING \cup {Top, Blank, Secret}

IsRequest(r) ==
  r.secrets \in Nat \ {0} /\ r.secretsLength \in 1 .. r.secrets /\ r.body \in Seq(BodyPart)

\* The slices of createRequest are in order and within the data, and hide the
\* secrets and nothing else of a request of ASCII.
RedactsSecrets(r, req, secret) ==
  /\ req.data \in Seq(Byte) /\ secret \in Seq(BOOLEAN) /\ Len(secret) = Len(req.data)
  /\ Len(req.data) \in Nat \ {0}
  /\ req.redactions \in Seq(SliceRecord)
  /\ \A i \in 1 .. Len(req.redactions) :
       /\ 1 <= req.redactions[i].fromIndex
       /\ req.redactions[i].fromIndex < req.redactions[i].toIndex
       /\ req.redactions[i].toIndex <= Len(req.data)
  /\ \A i, j \in 1 .. Len(req.redactions) :
       i < j => req.redactions[i].toIndex <= req.redactions[j].fromIndex
  /\ isAscii(r) =>
       \A k \in 1 .. Len(req.data) : secret[k] = TRUE <=> isHidden(req.redactions, k)

\* The headers are one byte, the secret ones and one byte more.
LEMMA HeaderLength ==
  ASSUME NEW r, NEW secrets \in Nat, secrets = r.secrets
  PROVE  /\ headerStr(r) \in Seq(Byte) /\ Len(headerStr(r)) = secrets + 2
         /\ Len(secHeadersStr(r)) = secrets
<1>1. PICK bytes, top, blank, byte :
        bytes = Byte /\ top = Top /\ blank = Blank /\ byte = Secret
  OBVIOUS
<1>2. top \in bytes /\ blank \in bytes /\ byte \in bytes
  BY ONLY <1>1 DEF Byte
<1>3. PICK h, a, b : h = [i \in 1 .. secrets |-> byte] /\ a = <<top>> /\ b = <<blank>>
  OBVIOUS
<1>4. h \in Seq(bytes) /\ Len(h) = secrets
  BY <1>2, <1>3
<1>5. a \in Seq(bytes) /\ b \in Seq(bytes) /\ Len(a) = 1 /\ Len(b) = 1
  BY <1>2, <1>3, OneElement
<1>6. PICK c : c = a \o h
  OBVIOUS
<1>7. c \in Seq(bytes) /\ Len(c) = 1 + secrets
  <2>1. a \in Seq(bytes) /\ h \in Seq(bytes)
    BY <1>4, <1>5
  <2>2. c \in Seq(bytes) /\ Len(c) = Len(a) + Len(h)
    BY ONLY <1>6, <2>1, Concatenation
  <2> QED BY <1>4, <1>5, <2>2
<1>8. PICK d : d = c \o b
  OBVIOUS
<1>9. d \in Seq(bytes) /\ Len(d) = 1 + secrets + 1
  <2>1. c \in Seq(bytes) /\ b \in Seq(bytes)
    BY <1>5, <1>7
  <2>2. d \in Seq(bytes) /\ Len(d) = Len(c) + Len(b)
    BY ONLY <1>8, <2>1, Concatenation
  <2> QED BY <1>5, <1>7, <2>2
<1>10. secHeadersStr(r) = h
  BY <1>1, <1>3 DEF secHeadersStr
<1>11. headerStr(r) = d
  BY <1>1, <1>3, <1>6, <1>8, <1>10 DEF headerStr
<1>12. 1 + secrets + 1 = secrets + 2
  OBVIOUS
<1> QED BY <1>1, <1>4, <1>9, <1>10, <1>11, <1>12

\* Sequences over a set are sequences over a larger one.
LEMMA SubsetOfSequences ==
  ASSUME NEW X, NEW Y, X \subseteq Y, NEW s \in Seq(X)
  PROVE  s \in Seq(Y)
OBVIOUS

\* The secret headers, in isSecret.
LEMMA SecretHeaders ==
  ASSUME NEW n \in Nat, NEW h, h = [i \in 1 .. n |-> TRUE]
  PROVE  h \in Seq(BOOLEAN) /\ Len(h) = n
OBVIOUS

\* What isSecret says of a request whose body has the secrets of the mask.
SecretsAt(r, secrets, mask, length) ==
  /\ isSecret(r) \in Seq(BOOLEAN) /\ Len(isSecret(r)) = length
  /\ \A k \in 1 .. length :
       isSecret(r)[k] = TRUE <=> \/ 1 < k /\ k <= secrets + 1
                                \/ /\ k - (secrets + 2) \in 1 .. Len(mask)
                                   /\ mask[k - (secrets + 2)] = TRUE

\* isSecret is true of the secret headers and of the secrets of the body.
LEMMA SecretBytes ==
  ASSUME NEW r, NEW secrets \in Nat, secrets = r.secrets,
         NEW mask \in Seq(BOOLEAN), mask = FlattenSeq(Mask(r.body)),
         NEW length, length = secrets + 2 + Len(mask)
  PROVE  SecretsAt(r, secrets, mask, length)
<1>1. PICK no : no = FALSE /\ no \in BOOLEAN /\ no # TRUE
  OBVIOUS
<1>2. PICK h : h = [i \in 1 .. secrets |-> TRUE]
  OBVIOUS
<1>3. PICK a : a = <<no>>
  OBVIOUS
<1>4. a \in Seq(BOOLEAN) /\ Len(a) = 1 /\ a[1] = no
  BY <1>1, <1>3, OneElement
<1>5. h \in Seq(BOOLEAN) /\ Len(h) = secrets /\ \A i \in 1 .. secrets : h[i] = TRUE
  <2>1. secrets \in Nat
    OBVIOUS
  <2>2. h \in Seq(BOOLEAN) /\ Len(h) = secrets
    BY ONLY <1>2, <2>1, SecretHeaders
  <2>3. \A i \in 1 .. secrets : h[i] = TRUE
    BY Zenon, <1>2
  <2> QED BY <2>2, <2>3
<1>6. PICK c : c = a \o h
  OBVIOUS
<1>7. PICK truth : truth = BOOLEAN
  OBVIOUS
<1>8. /\ c \in Seq(BOOLEAN) /\ Len(c) = 1 + secrets
      /\ \A k \in 1 .. 1 : c[k] = a[k]
      /\ \A k \in 1 + 1 .. 1 + secrets : k - 1 \in 1 .. secrets /\ c[k] = h[k - 1]
  <2>1. a \in Seq(truth) /\ h \in Seq(truth)
    BY <1>4, <1>5, <1>7
  <2>2. /\ c \in Seq(truth) /\ Len(c) = Len(a) + Len(h)
        /\ \A k \in 1 .. Len(a) : c[k] = a[k]
        /\ \A k \in Len(a) + 1 .. Len(c) : k - Len(a) \in 1 .. Len(h) /\ c[k] = h[k - Len(a)]
    BY ONLY <1>6, <2>1, Concatenation
  <2>3. Len(a) = 1 /\ Len(h) = secrets
    BY <1>4, <1>5
  <2>4. Len(c) = Len(a) + Len(h)
    BY <2>2
  <2>5. Len(a) = 1 /\ Len(h) = secrets /\ Len(c) = 1 + secrets
    BY ONLY <2>3, <2>4
  <2> QED BY ONLY <1>7, <2>2, <2>5
<1>9. PICK d : d = c \o a
  OBVIOUS
<1>10. /\ d \in Seq(BOOLEAN) /\ Len(d) = 1 + secrets + 1
       /\ \A k \in 1 .. 1 + secrets : d[k] = c[k]
       /\ \A k \in 1 + secrets + 1 .. 1 + secrets + 1 :
            k - (1 + secrets) \in 1 .. 1 /\ d[k] = a[k - (1 + secrets)]
  <2>1. a \in Seq(truth) /\ c \in Seq(truth)
    BY <1>4, <1>8, <1>7
  <2>2. /\ d \in Seq(truth) /\ Len(d) = Len(c) + Len(a)
        /\ \A k \in 1 .. Len(c) : d[k] = c[k]
        /\ \A k \in Len(c) + 1 .. Len(d) : k - Len(c) \in 1 .. Len(a) /\ d[k] = a[k - Len(c)]
    BY ONLY <1>9, <2>1, Concatenation
  <2>3. Len(a) = 1 /\ Len(c) = 1 + secrets /\ Len(d) = 1 + secrets + 1
    BY <1>4, <1>8, <2>2
  <2> QED BY ONLY <1>7, <2>2, <2>3
<1>11. PICK e : e = d \o mask
  OBVIOUS
<1>12. /\ 1 + secrets + 1 = secrets + 2 /\ 1 + secrets = secrets + 1
       /\ Len(mask) \in Nat /\ length \in Nat
  OBVIOUS
<1>13. /\ e \in Seq(BOOLEAN) /\ Len(e) = secrets + 2 + Len(mask)
       /\ \A k \in 1 .. secrets + 2 : e[k] = d[k]
       /\ \A k \in secrets + 2 + 1 .. length :
            k - (secrets + 2) \in 1 .. Len(mask) /\ e[k] = mask[k - (secrets + 2)]
  <2>1. Len(d) = secrets + 2
    BY <1>10, <1>12
  <2>2. d \in Seq(truth) /\ mask \in Seq(truth)
    BY <1>10, <1>7
  <2>3. /\ e \in Seq(truth) /\ Len(e) = Len(d) + Len(mask)
        /\ \A k \in 1 .. Len(d) : e[k] = d[k]
        /\ \A k \in Len(d) + 1 .. Len(e) :
             k - Len(d) \in 1 .. Len(mask) /\ e[k] = mask[k - Len(d)]
    BY ONLY <1>11, <2>2, Concatenation
  <2>4. Len(e) = secrets + 2 + Len(mask) /\ Len(e) = length
    BY <2>1, <2>3
  <2> QED BY ONLY <1>7, <2>1, <2>3, <2>4
<1>14. isSecret(r) = e
  BY <1>1, <1>3, <1>6, <1>9, <1>11, <1>2 DEF isSecret, Mask
<1>15. ASSUME NEW k \in 1 .. length
       PROVE  e[k] = TRUE <=> \/ 1 < k /\ k <= secrets + 1
                              \/ /\ k - (secrets + 2) \in 1 .. Len(mask)
                                 /\ mask[k - (secrets + 2)] = TRUE
  <2>1. k \in Nat /\ k >= 1
    BY <1>12
  <2>2. k = 1 \/ k \in 2 .. secrets + 1 \/ k = secrets + 2 \/ k \in secrets + 2 + 1 .. length
    BY <1>12, <2>1
  <2>3. CASE k = 1
    <3>1. ~ (1 < k) /\ k - (secrets + 2) \notin 1 .. Len(mask)
      BY <1>12, <2>3
    <3>2. 1 \in 1 .. secrets + 2 /\ 1 \in 1 .. 1 + secrets /\ 1 \in 1 .. 1
      OBVIOUS
    <3>3. e[k] = no
      BY <1>4, <1>8, <1>10, <1>13, <2>3, <3>2
    <3> QED BY <1>1, <3>1, <3>3
  <2>4. CASE k \in 2 .. secrets + 1
    <3>1. 1 < k /\ k <= secrets + 1
      BY <2>1, <2>4
    <3>2. k \in 1 .. secrets + 2 /\ k \in 1 .. 1 + secrets /\ k \in 1 + 1 .. 1 + secrets
      BY <2>1, <2>4
    <3>3. e[k] = h[k - 1] /\ k - 1 \in 1 .. secrets
      BY <1>8, <1>10, <1>13, <3>2
    <3> QED BY <1>5, <3>1, <3>3
  <2>5. CASE k = secrets + 2
    <3>1. secrets \in Nat /\ Len(mask) \in Nat
      BY <1>12
    <3>2. ~ (k <= secrets + 1) /\ k - (secrets + 2) \notin 1 .. Len(mask)
      BY ONLY <2>5, <3>1
    <3>3. /\ k \in 1 .. secrets + 2 /\ k - (1 + secrets) = 1
          /\ k \in 1 + secrets + 1 .. 1 + secrets + 1
      BY ONLY <2>5, <3>1
    <3>4. e[k] = no
      BY <1>4, <1>10, <1>13, <3>3
    <3> QED BY <1>1, <3>2, <3>4
  <2>6. CASE k \in secrets + 2 + 1 .. length
    <3>1. ~ (k <= secrets + 1)
      BY <1>12, <2>6
    <3>2. k - (secrets + 2) \in 1 .. Len(mask) /\ e[k] = mask[k - (secrets + 2)]
      BY <1>13, <2>6
    <3> QED BY <3>1, <3>2
  <2> QED BY <2>2, <2>3, <2>4, <2>5, <2>6
<1> QED BY <1>13, <1>14, <1>15 DEF SecretsAt

\* The slices of createRequest, and what they hide.
LEMMA RequestHides ==
  ASSUME NEW r, IsRequest(r)
  PROVE  RedactsSecrets(r, createRequest(r), isSecret(r))
<1>1. PICK secrets \in Nat \ {0}, units \in Nat, parts \in Seq(BodyPart) :
        /\ secrets = r.secrets /\ units = r.secretsLength /\ parts = r.body
        /\ units \in 1 .. secrets
  BY DEF IsRequest
<1>2. PICK body, mask :
        body = extractAndReplaceTemplateValues(parts) /\ mask = FlattenSeq(Mask(parts))
  OBVIOUS
<1>3. /\ body.newParam \in Seq(STRING) /\ body.hiddenParts \in Seq(HiddenPart)
      /\ mask \in Seq(BOOLEAN) /\ Len(mask) = Len(body.newParam)
      /\ LieWithin(body.hiddenParts, Len(mask))
      /\ IsExact(parts) => Covers(body.hiddenParts, mask)
  BY <1>2, TemplateHides
<1>4. PICK hidden, new : hidden = body.hiddenParts /\ new = body.newParam
  OBVIOUS
<1>5. PICK header : header = headerStr(r) /\ header \in Seq(Byte) /\ Len(header) = secrets + 2
  BY <1>1, HeaderLength
<1>6. PICK length : length = secrets + 2 + Len(mask)
  OBVIOUS
<1>7. length = secrets + 2 + Len(mask) /\ length \in Nat /\ Len(mask) \in Nat
  <2>1. mask \in Seq(BOOLEAN)
    BY <1>3
  <2>2. Len(mask) \in Nat
    BY <2>1
  <2> QED BY <1>6, <2>2
<1>8. PICK slices : /\ slices = createRequest(r).redactions
                    /\ slices \in Seq(SliceRecord)
                    /\ Redacts(slices, hidden, Len(hidden), secrets, units, length)
  <2> DEFINE upTo[n \in 0 .. Len(hidden)] ==
               IF n = 0 THEN <<Slice(1, 1 + units)>>
               ELSE Redact(upTo[n - 1], hidden[n], secrets + 2)
  <2>1. 1 + units = 1 + r.secretsLength
    BY <1>1
  <2>2. createRequest(r).redactions = upTo[Len(hidden)]
    BY <1>1, <1>2, <1>4, <1>5, <2>1 DEF createRequest, Redact
  <2>3. upTo = [n \in 0 .. Len(hidden) |->
                  IF n = 0 THEN <<Slice(1, 1 + units)>>
                  ELSE Redact(upTo[n - 1], hidden[n], secrets + 2)]
    <3>1. PICK first, at : first = Slice(1, 1 + units) /\ at = secrets + 2
      OBVIOUS
    <3>2. first \in SliceRecord /\ at \in Nat
      <4>1. 1 + units \in Nat
        OBVIOUS
      <4> QED BY <3>1, <4>1 DEF Slice, SliceRecord
    <3>3. hidden \in Seq(HiddenPart)
      BY <1>3, <1>4
    <3>4. \E f : f = [n \in 0 .. Len(hidden) |->
                       IF n = 0 THEN <<first>> ELSE Redact(f[n - 1], hidden[n], at)]
      BY ONLY <3>2, <3>3, RedactionLoop
    <3> QED BY <3>1, <3>4
  <2> HIDE DEF upTo
  <2>4. PICK f : f = upTo
    OBVIOUS
  <2>5. f = [n \in 0 .. Len(hidden) |->
               IF n = 0 THEN <<Slice(1, 1 + units)>>
               ELSE Redact(f[n - 1], hidden[n], secrets + 2)]
    BY <2>3, <2>4
  <2>6. hidden \in Seq(HiddenPart) /\ LieWithin(hidden, Len(mask))
    BY <1>3, <1>4
  <2>7. length = secrets + 2 + Len(mask) /\ Len(mask) \in Nat
    BY <1>7
  <2>8. secrets \in Nat \ {0} /\ units \in 1 .. secrets
    BY <1>1
  <2>9. /\ f[Len(hidden)] \in Seq(SliceRecord)
        /\ Redacts(f[Len(hidden)], hidden, Len(hidden), secrets, units, length)
    BY ONLY <2>5, <2>6, <2>7, <2>8, BodyRedactions
  <2> QED BY <2>2, <2>4, <2>9
<1>9. PICK string : string = createRequest(r).data /\ string \in Seq(Byte) /\ Len(string) = length
  <2>1. createRequest(r).data = header \o new
    BY <1>1, <1>2, <1>4, <1>5 DEF createRequest
  <2>2. PICK d : d = header \o new
    OBVIOUS
  <2>3. PICK bytes : bytes = Byte
    OBVIOUS
  <2>4. STRING \subseteq bytes
    BY <2>3 DEF Byte
  <2>5. new \in Seq(bytes)
    <3>1. PICK X : X = STRING
      OBVIOUS
    <3>2. X \subseteq bytes /\ new \in Seq(X)
      BY <1>3, <1>4, <2>4, <3>1
    <3> QED BY <3>2, SubsetOfSequences
  <2>6. header \in Seq(bytes)
    BY <1>5, <2>3
  <2>7. d \in Seq(bytes) /\ Len(d) = Len(header) + Len(new)
    BY <2>2, <2>5, <2>6, Concatenation
  <2>8. d \in Seq(Byte) /\ Len(d) = Len(header) + Len(new)
    BY <2>3, <2>7
  <2> QED BY <1>3, <1>4, <1>5, <1>7, <2>1, <2>2, <2>8
<1>10. PICK secret : secret = isSecret(r)
  OBVIOUS
<1>11. /\ secret = isSecret(r) /\ secret \in Seq(BOOLEAN) /\ Len(secret) = length
                     /\ \A k \in 1 .. length :
                          secret[k] = TRUE <=> \/ 1 < k /\ k <= secrets + 1
                                               \/ /\ k - (secrets + 2) \in 1 .. Len(mask)
                                                  /\ mask[k - (secrets + 2)] = TRUE
  <2>1. secrets \in Nat /\ secrets = r.secrets
    BY <1>1
  <2>2. mask \in Seq(BOOLEAN) /\ mask = FlattenSeq(Mask(r.body))
    BY <1>1, <1>2, <1>3
  <2>3. SecretsAt(r, secrets, mask, length)
    BY ONLY <1>7, <2>1, <2>2, SecretBytes
  <2> QED BY <1>10, <2>3 DEF SecretsAt
<1>12. ASSUME isAscii(r), NEW k \in 1 .. length
       PROVE  secret[k] = TRUE <=> isHidden(slices, k)
  <2>1. k \in Int /\ length \in Nat /\ Len(mask) \in Nat /\ length = secrets + 2 + Len(mask)
    BY <1>7
  <2>2. units = secrets /\ Covers(hidden, mask)
    <3>1. IsExact(parts)
      <4>1. DOMAIN parts = 1 .. Len(parts)
        OBVIOUS
      <4> QED BY <1>1, <1>12, <4>1 DEF isAscii, IsExact
    <3> QED BY <1>1, <1>3, <1>4, <1>12, <3>1 DEF isAscii
  <2>3. isHidden(slices, k) <=>
          \/ 1 < k /\ k <= secrets + 1
          \/ \E j \in 1 .. Len(hidden) : Within(hidden[j], k - (secrets + 2))
    BY <1>8, <2>1, <2>2 DEF Redacts
  <2>4. PICK at : at = k - (secrets + 2) /\ at \in Int
    BY <2>1
  <2>5. CASE at \in 1 .. Len(mask)
    <3>1. mask[at] = TRUE <=> \E j \in 1 .. Len(hidden) : Within(hidden[j], at)
      BY <2>2, <2>5 DEF Covers
    <3> QED BY <1>11, <2>3, <2>4, <2>5, <3>1
  <2>6. CASE at \notin 1 .. Len(mask)
    <3>1. at <= 0
      BY <2>1, <2>4, <2>6
    <3>2. ASSUME NEW j \in 1 .. Len(hidden) PROVE ~ Within(hidden[j], at)
      <4>1. hidden[j].index \in Nat
        BY <1>3, <1>4, PartFields
      <4>2. ~ (hidden[j].index < at)
        BY <2>4, <3>1, <4>1
      <4> QED BY <4>2 DEF Within
    <3> QED BY <1>11, <2>3, <2>4, <2>6, <3>2
  <2> QED BY <2>5, <2>6
<1>13. string \in Seq(Byte) /\ secret \in Seq(BOOLEAN) /\ Len(secret) = Len(string)
  BY <1>9, <1>11
<1>14. \A i \in 1 .. Len(slices) :
         /\ 1 <= slices[i].fromIndex /\ slices[i].fromIndex < slices[i].toIndex
         /\ slices[i].toIndex <= Len(string)
  BY <1>8, <1>9 DEF Redacts
<1>15. \A i, j \in 1 .. Len(slices) : i < j => slices[i].toIndex <= slices[j].fromIndex
  BY <1>8 DEF Redacts
<1>16. Len(string) \in Nat \ {0}
  BY <1>7, <1>9
<1> QED BY <1>8, <1>9, <1>11, <1>12, <1>13, <1>14, <1>15, <1>16 DEF RedactsSecrets

-----------------------------------------------------------------------------
(* Sections: none that is revealed shows what a slice hides.                *)

SectionRecord(length) == [from : 0 .. length, to : 1 .. length, reveal : BOOLEAN]

\* A section to reveal shows nothing that the slices hide.
ShowsNothing(section, slices) ==
  section.reveal => \A k \in section.from + 1 .. section.to : ~ isHidden(slices, k)

SafeSections(slices, length) ==
  {s \in SectionRecord(length) : ShowsNothing(s, slices)}

\* A section that shows nothing hidden is safe.
LEMMA SafeSection ==
  ASSUME NEW slices, NEW length \in Nat, NEW from \in 0 .. length, NEW to \in 1 .. length,
         NEW reveal \in BOOLEAN,
         reveal => \A k \in from + 1 .. to : ~ isHidden(slices, k),
         NEW s, s = Section(from, to, reveal)
  PROVE  s \in SafeSections(slices, length)
<1>1. s.from = from /\ s.to = to /\ s.reveal = reveal /\ s \in SectionRecord(length)
  BY DEF Section, SectionRecord
<1>2. ShowsNothing(s, slices)
  BY <1>1, Zenon DEF ShowsNothing
<1> QED BY <1>1, <1>2 DEF SafeSections

\* A block between two slices.
LEMMA SafeBlock ==
  ASSUME NEW slices, NEW length \in Nat, NEW from \in 0 .. length, NEW to \in 0 .. length,
         \A k \in from + 1 .. to : ~ isHidden(slices, k),
         NEW s, s = Block(from, to)
  PROVE  s \in Seq(SafeSections(slices, length))
<1>1. PICK safe : safe = SafeSections(slices, length)
  OBVIOUS
<1>2. CASE from < to
  <2>1. PICK section, reveal : section = Section(from, to, TRUE) /\ reveal = TRUE
    OBVIOUS
  <2>2. section \in safe
    <3>1. to \in 1 .. length
      BY <1>2
    <3> QED BY <1>1, <2>1, <3>1, SafeSection
  <2>3. s = <<section>>
    BY <1>2, <2>1 DEF Block
  <2>4. s \in Seq(safe)
    BY <2>2, <2>3
  <2> QED BY <1>1, <2>4
<1>3. CASE ~ (from < to)
  <2>1. s = <<>>
    BY <1>3 DEF Block
  <2> QED BY <2>1
<1> QED BY <1>2, <1>3

\* Slices of a string, in order.
InOrder(slices, length) ==
  /\ \A i \in 1 .. Len(slices) :
       /\ slices[i].fromIndex < slices[i].toIndex
       /\ slices[i].toIndex <= length
  /\ \A i, j \in 1 .. Len(slices) : i < j => slices[i].toIndex <= slices[j].fromIndex

endOf(slices, i) == IF i = 0 THEN 0 ELSE slices[i].toIndex

\* What sectionsOf makes of a slice.
sectionsAt(slices, i) ==
  Block(endOf(slices, i - 1), slices[i].fromIndex)
    \o <<Section(slices[i].fromIndex, endOf(slices, i), FALSE)>>

\* Nothing is hidden between the end of a slice and what follows it.
LEMMA Between ==
  ASSUME NEW slices \in Seq(SliceRecord), NEW length \in Nat, InOrder(slices, length),
         NEW i \in 0 .. Len(slices), NEW to \in 0 .. length,
         i < Len(slices) => to = slices[i + 1].fromIndex
  PROVE  /\ endOf(slices, i) \in 0 .. length
         /\ \A k \in endOf(slices, i) + 1 .. to : ~ isHidden(slices, k)
<1>1. /\ Len(slices) \in Nat
      /\ \A j \in 1 .. Len(slices) : slices[j].fromIndex \in Nat /\ slices[j].toIndex \in Nat
  BY SliceFields
<1>2. PICK end : end = endOf(slices, i)
  OBVIOUS
<1>3. CASE i = 0
  <2>1. end = 0
    BY <1>2, <1>3 DEF endOf
  <2>2. ASSUME NEW k \in 1 .. to, NEW j \in 1 .. Len(slices) PROVE ~ isIn(slices[j], k)
    <3>1. 1 \in 1 .. Len(slices) /\ slices[1].fromIndex = to
      BY <1>1, <1>3, <2>2
    <3>2. slices[1].fromIndex <= slices[j].fromIndex
      <4>1. CASE j = 1
        BY <1>1, <3>1, <4>1
      <4>2. CASE j # 1
        <5>1. 1 < j
          BY <1>1, <4>2
        <5>2. slices[1].fromIndex < slices[1].toIndex /\ slices[1].toIndex <= slices[j].fromIndex
          BY <3>1, <5>1 DEF InOrder
        <5> QED BY <1>1, <3>1, <5>2
      <4> QED BY <4>1, <4>2
    <3>3. ~ (slices[j].fromIndex < k)
      BY <1>1, <3>1, <3>2
    <3> QED BY <3>3 DEF isIn
  <2> QED BY <1>2, <2>1, <2>2 DEF isHidden
<1>4. CASE i # 0
  <2>1. i \in 1 .. Len(slices) /\ end = slices[i].toIndex
    BY <1>1, <1>2, <1>4 DEF endOf
  <2>2. end \in 0 .. length
    BY <1>1, <2>1 DEF InOrder
  <2>3. ASSUME NEW k \in end + 1 .. to, NEW j \in 1 .. Len(slices) PROVE ~ isIn(slices[j], k)
    <3>1. k \in Int /\ end < k /\ k <= to /\ end \in Nat
      BY <2>2
    <3>2. CASE j <= i
      <4>1. slices[j].toIndex <= end
        <5>1. CASE j = i
          BY <1>1, <2>1, <5>1
        <5>2. CASE j # i
          <6>1. j < i
            BY <1>1, <2>1, <3>2, <5>2
          <6>2. /\ slices[j].toIndex <= slices[i].fromIndex
                /\ slices[i].fromIndex < slices[i].toIndex
            BY <2>1, <6>1 DEF InOrder
          <6> QED BY <1>1, <2>1, <6>2
        <5> QED BY <5>1, <5>2
      <4>2. ~ (k <= slices[j].toIndex)
        BY <1>1, <3>1, <4>1
      <4> QED BY <4>2 DEF isIn
    <3>3. CASE ~ (j <= i)
      <4>1. PICK n : n = i + 1
        OBVIOUS
      <4>2. n \in 1 .. Len(slices) /\ slices[n].fromIndex = to /\ n <= j
        BY <1>1, <2>1, <3>3, <4>1
      <4>3. slices[n].fromIndex <= slices[j].fromIndex
        <5>1. CASE j = n
          BY <1>1, <4>2, <5>1
        <5>2. CASE j # n
          <6>1. n < j
            BY <1>1, <4>2, <5>2
          <6>2. /\ slices[n].fromIndex < slices[n].toIndex
                /\ slices[n].toIndex <= slices[j].fromIndex
            BY <4>2, <6>1 DEF InOrder
          <6> QED BY <1>1, <4>2, <6>2
        <5> QED BY <5>1, <5>2
      <4>4. ~ (slices[j].fromIndex < k)
        BY <1>1, <3>1, <4>2, <4>3
      <4> QED BY <4>4 DEF isIn
    <3> QED BY <3>2, <3>3
  <2> QED BY <1>2, <2>2, <2>3 DEF isHidden
<1> QED BY <1>3, <1>4

\* What is made of a slice is safe.
LEMMA SafeSectionsAt ==
  ASSUME NEW slices \in Seq(SliceRecord), NEW length \in Nat, InOrder(slices, length),
         NEW i \in 1 .. Len(slices)
  PROVE  sectionsAt(slices, i) \in Seq(SafeSections(slices, length))
<1>1. /\ Len(slices) \in Nat
      /\ \A j \in 1 .. Len(slices) : slices[j].fromIndex \in Nat /\ slices[j].toIndex \in Nat
  BY SliceFields
<1>2. PICK n, from, to : n = i - 1 /\ from = slices[i].fromIndex /\ to = slices[i].toIndex
  OBVIOUS
<1>3. /\ n \in 0 .. Len(slices) /\ n < Len(slices) /\ i = n + 1
      /\ from \in 0 .. length /\ to \in 1 .. length
  BY <1>1, <1>2 DEF InOrder
<1>4. endOf(slices, i) = to
  BY <1>2 DEF endOf
<1>5. PICK end : end = endOf(slices, n)
  OBVIOUS
<1>6. end \in 0 .. length /\ \A k \in end + 1 .. from : ~ isHidden(slices, k)
  <2>1. n < Len(slices) => from = slices[n + 1].fromIndex
    BY <1>2, <1>3
  <2> QED BY <1>3, <1>5, <2>1, Between
<1>7. PICK safe : safe = SafeSections(slices, length)
  OBVIOUS
<1>8. PICK block : block = Block(end, from)
  OBVIOUS
<1>9. block \in Seq(safe)
  BY <1>3, <1>6, <1>7, <1>8, SafeBlock
<1>10. PICK section, reveal : section = Section(from, to, reveal) /\ reveal = FALSE
  OBVIOUS
<1>11. section \in safe
  BY <1>3, <1>7, <1>10, SafeSection
<1>12. PICK s : s = <<section>>
  OBVIOUS
<1>13. s \in Seq(safe)
  BY <1>11, <1>12, OneElement
<1>14. PICK t : t = block \o s
  OBVIOUS
<1>15. t \in Seq(safe)
  BY <1>9, <1>13, <1>14, Concatenation
<1>16. sectionsAt(slices, i) = t
  BY <1>2, <1>4, <1>5, <1>8, <1>10, <1>12, <1>14 DEF sectionsAt
<1> QED BY <1>7, <1>15, <1>16

\* All sections of a request are safe.
LEMMA SectionsAreSafe ==
  ASSUME NEW r, NEW slices \in Seq(SliceRecord), slices = createRequest(r).redactions,
         NEW length \in Nat, length = Len(createRequest(r).data), InOrder(slices, length)
  PROVE  sectionsOf(r) \in Seq(SafeSections(slices, length))
<1>1. PICK n : n = Len(slices)
  OBVIOUS
<1>2. n \in Nat
  BY <1>1
<1>3. PICK safe : safe = SafeSections(slices, length)
  OBVIOUS
<1>4. PICK pieces : pieces = [i \in 1 .. n |-> sectionsAt(slices, i)]
  OBVIOUS
<1>5. pieces \in Seq(Seq(safe))
  <2>1. \A i \in 1 .. n : sectionsAt(slices, i) \in Seq(safe)
    BY <1>1, <1>3, SafeSectionsAt
  <2> QED BY <1>2, <1>4, <2>1
<1>6. PICK flat : flat = FlattenSeq(pieces)
  OBVIOUS
<1>7. flat \in Seq(safe)
  <2>1. PICK f \in [0 .. Len(pieces) -> Seq(safe)] : FlattenSeq(pieces) = f[Len(pieces)]
    BY <1>5, Flattened
  <2>2. Len(pieces) \in 0 .. Len(pieces)
    BY <1>5
  <2> QED BY <1>6, <2>1, <2>2
<1>8. PICK end : end = endOf(slices, n)
  OBVIOUS
<1>9. end \in 0 .. length /\ \A k \in end + 1 .. length : ~ isHidden(slices, k)
  <2>1. n \in 0 .. Len(slices) /\ ~ (n < Len(slices)) /\ length \in 0 .. length
    BY <1>1, <1>2
  <2> QED BY <1>8, <2>1, Between
<1>10. PICK last : last = Block(end, length)
  OBVIOUS
<1>11. last \in Seq(safe)
  <2>1. length \in 0 .. length
    OBVIOUS
  <2> QED BY <1>3, <1>9, <1>10, <2>1, SafeBlock
<1>12. PICK all : all = flat \o last
  OBVIOUS
<1>13. all \in Seq(safe)
  BY <1>7, <1>11, <1>12, Concatenation
<1>14. sectionsOf(r) = all
  BY <1>1, <1>4, <1>6, <1>8, <1>10, <1>12 DEF sectionsOf, sectionsAt, endOf
<1> QED BY <1>3, <1>13, <1>14

\* What createRequest, sectionsOf and wholeOf make of a request.
LEMMA SectionsOfRequest ==
  ASSUME NEW r \in Requests
  PROVE  /\ RedactsSecrets(r, createRequest(r), isSecret(r))
         /\ sectionsOf(r) \in Seq(SafeSections(createRequest(r).redactions,
                                               Len(createRequest(r).data)))
         /\ wholeOf(r) \in Seq(SectionRecord(Len(createRequest(r).data)))
<1>1. IsRequest(r)
  BY RequestAssumption, RequestParts DEF IsRequest
<1>2. PICK req, secret : req = createRequest(r) /\ secret = isSecret(r)
  OBVIOUS
<1>3. RedactsSecrets(r, req, secret)
  BY <1>1, <1>2, RequestHides
<1>4. PICK slices, length : slices = req.redactions /\ length = Len(req.data)
  OBVIOUS
<1>5. length \in Nat \ {0} /\ slices \in Seq(SliceRecord) /\ InOrder(slices, length)
  BY <1>3, <1>4 DEF RedactsSecrets, InOrder
<1>6. sectionsOf(r) \in Seq(SafeSections(slices, length))
  BY <1>2, <1>4, <1>5, SectionsAreSafe
<1>7. wholeOf(r) \in Seq(SectionRecord(length))
  <2>1. PICK section : section = Section(0, length, TRUE)
    OBVIOUS
  <2>2. section \in SectionRecord(length)
    <3>1. 0 \in 0 .. length /\ length \in 1 .. length
      BY <1>5
    <3> QED BY <2>1, <3>1 DEF Section, SectionRecord
  <2>3. PICK X, s : X = SectionRecord(length) /\ s = <<section>>
    OBVIOUS
  <2>4. s \in Seq(X)
    BY <2>2, <2>3, OneElement
  <2>5. wholeOf(r) = s
    BY <1>2, <1>4, <2>1, <2>3 DEF wholeOf
  <2> QED BY <2>3, <2>4, <2>5
<1> QED BY <1>2, <1>3, <1>4, <1>6, <1>7

\* createRequest hides the secrets and nothing else of a request of ASCII.
LEMMA SecretIsHidden ==
  ASSUME NEW r \in Requests, isAscii(r), NEW k \in 1 .. Len(createRequest(r).data)
  PROVE  isSecret(r)[k] <=> isHidden(createRequest(r).redactions, k)
<1>1. PICK req, secret : req = createRequest(r) /\ secret = isSecret(r)
  OBVIOUS
<1>2. RedactsSecrets(r, req, secret)
  BY <1>1, SectionsOfRequest
<1>3. /\ secret \in Seq(BOOLEAN) /\ Len(secret) = Len(req.data)
      /\ secret[k] = TRUE <=> isHidden(req.redactions, k)
  BY <1>1, <1>2 DEF RedactsSecrets
<1>4. secret[k] \in BOOLEAN
  BY <1>1, <1>3
<1>5. secret[k] <=> secret[k] = TRUE
  BY <1>4
<1> QED BY <1>1, <1>3, <1>5, Zenon

-----------------------------------------------------------------------------
(* The sections that are written, and the packets that carry them.          *)

\* A packet to witness, under the keys used so far.
PacketOf(count, last) ==
  [type : {"handshake", "data"}, section : 0 .. count, key : 0 .. last,
   reveal : {"none", "complete", "zk"}]

\* The sections are those of the request, and the packets carry them.
Sections ==
  /\ request \in Requests
  /\ redactionMode \in {"zk", "key-update"}
  /\ sections = IF redactionMode = "zk" THEN wholeOf(request) ELSE sectionsOf(request)
  /\ next \in 1 .. Len(sections) + 1
  /\ pc \in {"updated", "marking"} => next <= Len(sections)
  /\ transcript \in Seq(PacketOf(Len(sections), key))
  /\ \A i \in Sent : isData(i) => transcript[i].section # 0

\* What does not depend on the sections.
Rest ==
  /\ tlsVersion \in {"TLS1_2", "TLS1_3"}
  /\ key \in Nat
  /\ lastMsgRevealed \in BOOLEAN
  /\ response \in Answers \cup {None}
  /\ pc \in {"writing", "updated", "marking", "written", "claiming", "claimed", "failed"}

\* The sections of the request that is written, in either mode.
LEMMA SectionsTyped ==
  ASSUME request \in Requests,
         sections = IF redactionMode = "zk" THEN wholeOf(request) ELSE sectionsOf(request)
  PROVE  /\ sections \in Seq(SectionRecord(Len(data))) /\ Len(sections) \in Nat
         /\ redactionMode # "zk" => sections \in Seq(SafeSections(redactions, Len(data)))
<1>1. PICK r, slices, length :
        r = request /\ slices = redactions /\ length = Len(data)
  OBVIOUS
<1>2. /\ r \in Requests /\ slices = createRequest(r).redactions
      /\ length = Len(createRequest(r).data)
  BY <1>1 DEF redactions, data
<1>3. /\ sectionsOf(r) \in Seq(SafeSections(slices, length))
      /\ wholeOf(r) \in Seq(SectionRecord(length))
  BY <1>2, SectionsOfRequest
<1>4. PICK s : s = sectionsOf(r)
  OBVIOUS
<1>5. PICK X, Y : X = SafeSections(slices, length) /\ Y = SectionRecord(length)
  OBVIOUS
<1>6. X \subseteq Y
  BY <1>5 DEF SafeSections
<1>7. s \in Seq(X)
  BY <1>3, <1>4, <1>5
<1>8. s \in Seq(Y)
  BY <1>6, <1>7, SubsetOfSequences
<1>9. sections \in Seq(Y)
  BY <1>1, <1>3, <1>4, <1>5, <1>8
<1>10. Len(sections) \in Nat
  BY <1>9
<1> QED BY <1>1, <1>3, <1>5, <1>9, <1>10

\* The invariant holds when the handshake is over.
LEMMA InitSections == Init => Sections /\ Rest
<1> SUFFICES ASSUME Init PROVE Sections /\ Rest
  OBVIOUS
<1>1. PICK mode \in {"zk", "key-update"} : redactionMode = modeOf(tlsVersion, mode)
  BY DEF Init
<1>2. redactionMode \in {"zk", "key-update"}
  BY <1>1 DEF modeOf
<1>3. Len(sections) \in Nat
  BY SectionsTyped DEF Init
<1>4. PICK count : count = Len(sections)
  OBVIOUS
<1>5. PICK X, p : /\ X = PacketOf(count, key)
                  /\ p = [type |-> "handshake", section |-> 0, key |-> 0, reveal |-> "none"]
  OBVIOUS
<1>6. key \in Nat /\ transcript = <<p>>
  BY <1>5 DEF Init
<1>7. p \in X /\ p.type = "handshake"
  <2>1. 0 \in 0 .. count /\ 0 \in 0 .. key
    BY <1>3, <1>4, <1>6
  <2> QED BY <1>5, <2>1 DEF PacketOf
<1>8. transcript \in Seq(X) /\ Len(transcript) = 1 /\ transcript[1] = p
  BY <1>6, <1>7, OneElement
<1>9. \A i \in Sent : ~ isData(i)
  <2>1. \A i \in Sent : i = 1
    BY <1>8 DEF Sent
  <2> QED BY <1>7, <1>8, <2>1 DEF isData
<1>10. next \in 1 .. Len(sections) + 1
  BY <1>3 DEF Init
<1> QED BY <1>2, <1>4, <1>5, <1>6, <1>8, <1>9, <1>10 DEF Sections, Rest, Init

\* A packet that is sent.
LEMMA SendSections ==
  ASSUME Sections, Rest, NEW p, transcript' = Append(transcript, p),
         UNCHANGED <<request, redactionMode, sections, next>>,
         key' \in {key, key + 1}, next <= Len(sections),
         p.type = "data" => p.section # 0,
         p \in PacketOf(Len(sections), key')
  PROVE  Sections'
<1>1. PICK count, old, new, X, Y :
        /\ count = Len(sections) /\ old = key /\ new = key'
        /\ X = PacketOf(count, old) /\ Y = PacketOf(count, new)
  OBVIOUS
<1>2. old \in Nat /\ new \in Nat /\ old <= new
  BY <1>1 DEF Rest
<1>3. X \subseteq Y
  <2>1. 0 .. old \subseteq 0 .. new
    BY <1>2
  <2> QED BY <1>1, <2>1 DEF PacketOf
<1>4. PICK s, t : s = transcript /\ t = transcript'
  OBVIOUS
<1>5. s \in Seq(X)
  BY <1>1, <1>4 DEF Sections
<1>6. s \in Seq(Y)
  BY <1>3, <1>5, SubsetOfSequences
<1>7. p \in Y /\ t = Append(s, p)
  BY <1>1, <1>4
<1>8. /\ t \in Seq(Y) /\ Len(t) = Len(s) + 1 /\ t[Len(s) + 1] = p
      /\ \A i \in 1 .. Len(s) : t[i] = s[i]
  BY <1>6, <1>7, Appended
<1>9. ASSUME NEW i \in Sent', isData(i)'
      PROVE  transcript'[i].section # 0
  <2>1. i \in 1 .. Len(s) \/ i = Len(s) + 1
    <3>1. Len(s) \in Nat
      BY <1>5
    <3> QED BY <1>4, <1>8, <3>1 DEF Sent
  <2>2. CASE i \in 1 .. Len(s)
    <3>1. i \in Sent /\ t[i] = s[i]
      BY <1>4, <1>8, <2>2 DEF Sent
    <3> QED BY <1>4, <1>9, <3>1 DEF isData, Sections
  <2>3. CASE i = Len(s) + 1
    BY <1>4, <1>8, <1>9, <2>3 DEF isData
  <2> QED BY <2>1, <2>2, <2>3
<1>10. transcript' \in Seq(PacketOf(Len(sections'), key'))
  BY <1>1, <1>4, <1>8
<1> QED BY <1>9, <1>10 DEF Sections

\* A step that sends nothing.
LEMMA StillSections ==
  ASSUME Sections, Rest, UNCHANGED <<request, redactionMode, sections, key>>,
         next' \in 1 .. Len(sections) + 1,
         pc' \in {"updated", "marking"} => next' <= Len(sections),
         Len(transcript') = Len(transcript),
         \A i \in Sent :
           /\ transcript'[i].type = transcript[i].type
           /\ transcript'[i].section = transcript[i].section,
         transcript' \in Seq(PacketOf(Len(sections), key))
  PROVE  Sections'
BY DEF Sections, Sent, isData

\* Each step keeps the invariant.
LEMMA NextSections == Sections /\ Rest /\ [Next]_vars => Sections' /\ Rest'
<1> SUFFICES ASSUME Sections, Rest, [Next]_vars PROVE Sections' /\ Rest'
  OBVIOUS
<1>1. /\ key \in Nat /\ next \in Nat /\ next >= 1 /\ next <= Len(sections) + 1
      /\ Len(sections) \in Nat
  BY SectionsTyped DEF Sections, Rest
<1>2. CASE Write
  <2> USE <1>2 DEF Write
  <2>1. CASE pc' = "updated"
    <3>1. PICK p : p = Packet("handshake", 0)
      OBVIOUS
    <3>2. transcript' = Append(transcript, p) /\ key' = key + 1
      BY <2>1, <3>1
    <3>3. p \in PacketOf(Len(sections), key') /\ p.type # "data"
      <4>1. 0 \in 0 .. Len(sections) /\ key \in 0 .. key + 1
        BY <1>1
      <4> QED BY <3>1, <3>2, <4>1 DEF Packet, PacketOf
    <3>4. Sections'
      BY <3>2, <3>3, SendSections
    <3> QED BY <1>1, <2>1, <3>2, <3>4 DEF Rest
  <2>2. CASE pc' # "updated"
    <3>1. PICK p : p = Packet("data", next)
      OBVIOUS
    <3>2. transcript' = Append(transcript, p) /\ key' = key /\ pc' = "marking"
      BY <2>2, <3>1
    <3>3. p \in PacketOf(Len(sections), key') /\ p.section # 0
      <4>1. next \in 0 .. Len(sections) /\ key \in 0 .. key /\ next # 0
        BY <1>1
      <4> QED BY <3>1, <3>2, <4>1 DEF Packet, PacketOf
    <3>4. Sections'
      BY <3>2, <3>3, SendSections
    <3> QED BY <1>1, <3>2, <3>4 DEF Rest
  <2> QED BY <2>1, <2>2
<1>3. CASE WriteUpdated
  <2> USE <1>3 DEF WriteUpdated
  <2>1. PICK p : p = Packet("data", next)
    OBVIOUS
  <2>2. transcript' = Append(transcript, p) /\ key' = key /\ pc' = "marking"
    BY <2>1
  <2>3. next <= Len(sections)
    BY DEF Sections
  <2>4. p \in PacketOf(Len(sections), key') /\ p.section # 0
    <3>1. next \in 0 .. Len(sections) /\ key \in 0 .. key /\ next # 0
      BY <1>1, <2>3
    <3> QED BY <2>1, <2>2, <3>1 DEF Packet, PacketOf
  <2>5. Sections'
    BY <2>2, <2>3, <2>4, SendSections
  <2> QED BY <2>2, <2>5 DEF Rest
<1>4. CASE Mark
  <2>1. PICK X, s, t, n, mark :
          /\ X = PacketOf(Len(sections), key) /\ s = transcript /\ t = transcript'
          /\ n = Len(transcript) /\ mark = setReveal(sections[next])
    OBVIOUS
  <2>2. s \in Seq(X) /\ t = [s EXCEPT ![n].reveal = mark] /\ n = Len(s)
    BY <1>4, <2>1 DEF Mark, Sections
  <2>3. mark \in {"none", "complete", "zk"}
    BY <2>1 DEF setReveal, Sections
  <2>4. ASSUME NEW i \in 1 .. Len(s)
        PROVE  t[i] \in X /\ t[i].type = s[i].type /\ t[i].section = s[i].section
    <3>1. s[i] \in X
      BY <2>2
    <3>2. PICK x : x = [s[i] EXCEPT !.reveal = mark]
      OBVIOUS
    <3>3. x \in X /\ x.type = s[i].type /\ x.section = s[i].section
      BY <2>1, <2>3, <3>1, <3>2 DEF PacketOf
    <3>4. t[i] = IF i = n THEN x ELSE s[i]
      BY <2>2, <3>2
    <3> QED BY <3>1, <3>3, <3>4
  <2>5. t \in Seq(X) /\ Len(t) = Len(s)
    <3>1. DOMAIN t = 1 .. Len(s) /\ Len(s) \in Nat
      BY <2>2
    <3>2. PICK x : x = [s[n] EXCEPT !.reveal = mark]
      OBVIOUS
    <3>3. PICK u : u = [i \in 1 .. Len(s) |-> IF i = n THEN x ELSE s[i]]
      OBVIOUS
    <3>4. t = u
      <4>1. DOMAIN s = 1 .. Len(s)
        BY <2>2
      <4> QED BY <2>2, <3>2, <3>3, <4>1
    <3>5. \A i \in 1 .. Len(s) : u[i] \in X
      BY <2>4, <3>4
    <3>6. u \in Seq(X) /\ Len(u) = Len(s)
      <4>1. u = [i \in 1 .. Len(s) |-> u[i]]
        BY <3>3
      <4> QED BY <3>1, <3>5, <4>1
    <3> QED BY <3>4, <3>6
  <2>6. next <= Len(sections) /\ next' = next + 1 /\ pc' = "writing"
    <3>1. pc = "marking" /\ next' = next + 1 /\ pc' = "writing"
      BY <1>4 DEF Mark
    <3>2. pc \in {"updated", "marking"} => next <= Len(sections)
      BY DEF Sections
    <3> QED BY <3>1, <3>2
  <2>7. next' \in 1 .. Len(sections) + 1
    BY <1>1, <2>6
  <2>8. Sections'
    BY <1>4, <2>1, <2>4, <2>5, <2>6, <2>7, StillSections DEF Mark, Sent
  <2>9. lastMsgRevealed' \in BOOLEAN
    <3>1. next \in 1 .. Len(sections)
      BY <1>1, <2>6
    <3>2. sections[next] \in SectionRecord(Len(data))
      <4>1. PICK T, u : T = SectionRecord(Len(data)) /\ u = sections
        OBVIOUS
      <4>2. u \in Seq(T)
        BY <4>1, SectionsTyped DEF Sections
      <4>3. next \in 1 .. Len(u)
        BY <3>1, <4>1
      <4>4. u[next] \in T
        BY <4>2, <4>3
      <4> QED BY <4>1, <4>4
    <3> QED BY <1>4, <3>2 DEF Mark, SectionRecord
  <2> QED BY <1>4, <2>8, <2>9 DEF Mark, Rest
<1>5. CASE WriteFails \/ Written
  <2>1. Sections'
    BY <1>5 DEF WriteFails, Written, Sections, Sent, isData
  <2> QED BY <1>5, <2>1 DEF WriteFails, Written, Rest
<1>6. CASE AddReveals
  <2>1. PICK X, s, t, n :
          /\ X = PacketOf(Len(sections), key) /\ s = transcript /\ t = transcript'
          /\ n = Len(transcript)
    OBVIOUS
  <2>2. s \in Seq(X) /\ n = Len(s) /\ redactionMode \in {"zk", "key-update"}
    BY <2>1 DEF Sections
  <2>3. PICK mark : mark = IF redactionMode = "zk" THEN "zk" ELSE "complete"
    OBVIOUS
  <2>4. PICK shownAll :
          shownAll = [i \in 1 .. n |->
                        IF isHandshake(i) THEN [s[i] EXCEPT !.reveal = mark] ELSE s[i]]
    OBVIOUS
  <2>5. t = s \/ t = shownAll
    BY <1>6, <2>1, <2>3, <2>4 DEF AddReveals
  <2>6. ASSUME NEW i \in 1 .. n
        PROVE  /\ shownAll[i] \in X /\ shownAll[i].type = s[i].type
               /\ shownAll[i].section = s[i].section
    <3>1. s[i] \in X
      BY <2>2
    <3>2. PICK x : x = [s[i] EXCEPT !.reveal = mark]
      OBVIOUS
    <3>3. x \in X /\ x.type = s[i].type /\ x.section = s[i].section
      BY <2>1, <2>3, <3>1, <3>2 DEF PacketOf
    <3>4. shownAll[i] = IF isHandshake(i) THEN x ELSE s[i]
      BY <2>4, <3>2
    <3> QED BY <3>1, <3>3, <3>4
  <2>7. shownAll \in Seq(X) /\ Len(shownAll) = n
    <3>1. n \in Nat /\ shownAll = [i \in 1 .. n |-> shownAll[i]]
      BY <2>2, <2>4
    <3> QED BY <2>6, <3>1
  <2>8. /\ t \in Seq(X) /\ Len(t) = n
        /\ \A i \in 1 .. n : t[i].type = s[i].type /\ t[i].section = s[i].section
    BY <2>2, <2>5, <2>6, <2>7
  <2>9. Sections'
    <3>1. /\ UNCHANGED <<request, redactionMode, sections, key, next>>
          /\ pc' \in {"claiming", "failed"} /\ next \in 1 .. Len(sections) + 1
      BY <1>6 DEF AddReveals, Sections
    <3> QED BY <2>1, <2>8, <3>1, StillSections DEF Sent
  <2> QED BY <1>6, <2>9 DEF AddReveals, Rest
<1>7. CASE Claim
  <2>1. Sections'
    BY <1>7 DEF Claim, Sections, Sent, isData
  <2> QED BY <1>7, <2>1 DEF Claim, Rest
<1>8. CASE UNCHANGED vars
  BY <1>8 DEF vars, Sections, Rest, Sent, isData
<1> QED BY <1>2, <1>3, <1>4, <1>5, <1>6, <1>7, <1>8 DEF Next

\* What is written is the sections of the request, in every state.
THEOREM SectionsInvariance == Spec => [](Sections /\ Rest)
BY InitSections, NextSections, PTL DEF Spec

\* The invariant has the types.
LEMMA InvIsTypeOK == Sections /\ Rest => TypeOK
<1> SUFFICES ASSUME Sections, Rest PROVE TypeOK
  OBVIOUS
<1>1. PICK X, Y, s, t :
        /\ X = SectionRecord(Len(data)) /\ Y = PacketOf(Len(sections), key)
        /\ s = sections /\ t = transcript
  OBVIOUS
<1>2. s \in Seq(X)
  BY <1>1, SectionsTyped DEF Sections
<1>3. t \in Seq(Y)
  BY <1>1 DEF Sections
<1>4. \A i \in DOMAIN s : s[i] \in X
  BY <1>2
<1>5. \A i \in DOMAIN t : t[i] \in Y
  BY <1>3
<1> QED BY <1>1, <1>4, <1>5 DEF TypeOK, Sections, Rest, SectionRecord, PacketOf

\* A byte that is hidden is not in a section of its key, and redacted in a
\* plaintext.
LEMMA InvIsSecret == Inv /\ Sections => SecretsStaySecret
<1> SUFFICES ASSUME Inv, Sections PROVE SecretsStaySecret
  OBVIOUS
<1> DEFINE exported == {transcript[i].key : i \in {k \in DOMAIN transcript :
                                               transcript[k].reveal = "complete"}}
           at(i) == sections[transcript[i].section].from + 1
                      .. sections[transcript[i].section].to
           shownAt(i) ==
             CASE transcript[i].key \in exported -> at(i)
               [] transcript[i].reveal = "zk" ->
                    {k \in at(i) : redactSlices(data, redactions)[k] # Star}
               [] OTHER -> {}
<1>1. ASSUME isAscii(request), NEW i \in DOMAIN transcript,
             isApplicationData(transcript[i]), NEW k \in shownAt(i)
      PROVE  ~ isSecret(request)[k]
  <2>1. i \in Sent /\ isData(i)
    <3>1. DOMAIN transcript = Sent
      BY DEF Inv, Types, Sent
    <3> QED BY <1>1, <3>1 DEF isData, isApplicationData
  <2>2. PICK n : n = transcript[i].section
    OBVIOUS
  <2>3. n \in 1 .. Len(sections)
    <3>1. PICK X, t : X = PacketOf(Len(sections), key) /\ t = transcript
      OBVIOUS
    <3>2. t \in Seq(X) /\ i \in 1 .. Len(t)
      BY <2>1, <3>1 DEF Sections, Sent
    <3>3. t[i] \in X
      BY <3>2
    <3>4. n \in 0 .. Len(sections) /\ n # 0
      BY <2>1, <2>2, <3>1, <3>3 DEF Sections, PacketOf
    <3> QED BY <3>4
  <2>4. PICK section : section = sections[n]
    OBVIOUS
  <2>5. section \in SectionRecord(Len(data)) /\ Len(data) \in Nat
    <3>1. PICK X, s : X = SectionRecord(Len(data)) /\ s = sections
      OBVIOUS
    <3>2. s \in Seq(X)
      BY <3>1, SectionsTyped DEF Sections
    <3>3. s[n] \in X
      BY <2>3, <3>1, <3>2
    <3>4. Len(data) \in Nat
      BY SectionsOfRequest DEF Sections, data, RedactsSecrets
    <3> QED BY <2>4, <3>1, <3>3, <3>4
  <2>6. at(i) = section.from + 1 .. section.to
    BY <2>2, <2>4
  <2>7. k \in at(i)
    OBVIOUS
  <2>8. k \in 1 .. Len(data)
    <3>1. section.from \in 0 .. Len(data) /\ section.to \in 1 .. Len(data)
      BY <2>5 DEF SectionRecord
    <3>2. k \in section.from + 1 .. section.to
      BY <2>6, <2>7
    <3> QED BY <2>5, <3>1, <3>2
  <2>9. ~ isHidden(redactions, k)
    <3>1. CASE transcript[i].key \in exported
      <4>1. PICK j \in DOMAIN transcript :
              transcript[j].reveal = "complete" /\ transcript[j].key = transcript[i].key
        BY <3>1
      <4>2. section.reveal
        BY <1>1, <2>2, <2>4, <4>1, InvHides DEF HiddenKeysStaySecret, isApplicationData
      <4>3. redactionMode = "key-update"
        <5>1. j \in Sent
          BY <4>1 DEF Inv, Types, Sent
        <5> QED BY <4>1, <5>1 DEF Inv, Marks
      <4>4. section \in SafeSections(redactions, Len(data))
        <5>1. PICK X, s : X = SafeSections(redactions, Len(data)) /\ s = sections
          OBVIOUS
        <5>2. s \in Seq(X)
          BY <4>3, <5>1, SectionsTyped DEF Sections
        <5>3. s[n] \in X
          BY <2>3, <5>1, <5>2
        <5> QED BY <2>4, <5>1, <5>3
      <4> QED BY <2>6, <2>7, <4>2, <4>4 DEF SafeSections, ShowsNothing
    <3>2. CASE transcript[i].key \notin exported
      <4>1. redactSlices(data, redactions)[k] # Star
        BY <3>2
      <4>2. redactions \in Seq(SliceRecord)
        BY SectionsOfRequest DEF Sections, redactions, RedactsSecrets
      <4>3. DOMAIN redactions = 1 .. Len(redactions)
        BY <4>2
      <4>4. isHidden(redactions, k) => redactSlices(data, redactions)[k] = Star
        BY <2>8, <4>3 DEF redactSlices, isHidden, isIn
      <4> QED BY <4>1, <4>4
    <3> QED BY <3>1, <3>2
  <2> QED BY <1>1, <2>8, <2>9, SecretIsHidden DEF Sections, data, redactions
<1> QED BY <1>1, Zenon DEF SecretsStaySecret

\* The state of the client and of the witness has its type.
THEOREM TypeCorrect == Spec => []TypeOK
BY SectionsInvariance, InvIsTypeOK, PTL

\* Neither the exported keys nor the redacted plaintexts show a byte of a secret of
\* a request of ASCII.
THEOREM SecretsStay == Spec => []SecretsStaySecret
BY Invariance, SectionsInvariance, InvIsSecret, PTL

\* createRequest hides the secrets and nothing else of a request of ASCII.
LEMMA InvIsRedacted == Sections => RedactionsAreSecrets
<1> SUFFICES ASSUME Sections, isAscii(request), NEW k \in DOMAIN data
             PROVE  isSecret(request)[k] <=>
                      \E i \in DOMAIN redactions :
                        redactions[i].fromIndex < k /\ k <= redactions[i].toIndex
  BY DEF RedactionsAreSecrets
<1>1. /\ redactions \in Seq(SliceRecord) /\ data \in Seq(Byte)
  BY SectionsOfRequest DEF Sections, redactions, data, RedactsSecrets
<1>2. DOMAIN redactions = 1 .. Len(redactions)
  BY <1>1
<1>3. k \in 1 .. Len(data)
  <2>1. PICK X : X = Byte
    OBVIOUS
  <2>2. data \in Seq(X)
    BY <1>1, <2>1
  <2> QED BY <2>2
<1>4. isSecret(request)[k] <=> isHidden(redactions, k)
  BY <1>3, SecretIsHidden DEF Sections, data, redactions
<1> QED BY <1>2, <1>4, Zenon DEF isHidden, isIn

\* The slices to redact are the secrets of a request of ASCII, though parameters
\* are moved by others.
THEOREM RedactionsAreTheSecrets == Spec => []RedactionsAreSecrets
BY SectionsInvariance, InvIsRedacted, PTL

-----------------------------------------------------------------------------
(* Runs of stars: what is read of two strings that differ only by the       *)
(* lengths of their runs.                                                   *)

\* Byte n repeats the star before it.
Repeats(s, n) == n > 1 /\ s[n] = Star /\ s[n - 1] = Star

Collapse(s, n, kept) == IF Repeats(s, n) THEN kept ELSE Append(kept, s[n])

\* withoutRuns, as a loop.
LEMMA RunsLoop ==
  ASSUME NEW X, NEW s \in Seq(X)
  PROVE  \E f \in [0 .. Len(s) -> Seq(X)] :
           /\ f[0] = <<>>
           /\ \A n \in 1 .. Len(s) : f[n] = Collapse(s, n, f[n - 1])
           /\ withoutRuns(s) = f[Len(s)]
<1> DEFINE T == Seq(X)
           Step(n, kept) == IF n \in 1 .. Len(s) THEN Collapse(s, n, kept) ELSE kept
           step == [a \in Nat \X T |-> Step(a[1], a[2])]
           upTo[n \in 0 .. Len(s)] ==
             IF n = 0 THEN <<>>
             ELSE IF n > 1 /\ s[n] = Star /\ s[n - 1] = Star
                  THEN upTo[n - 1] ELSE Append(upTo[n - 1], s[n])
<1>1. Len(s) \in Nat /\ \A n \in 1 .. Len(s) : s[n] \in X
  OBVIOUS
<1>2. withoutRuns(s) = upTo[Len(s)]
  BY DEF withoutRuns
<1>3. ASSUME NEW n \in Nat, NEW kept \in T
      PROVE  Step(n, kept) \in T
  <2>1. CASE n \in 1 .. Len(s)
    <3>1. Append(kept, s[n]) \in T
      BY <1>1, <2>1
    <3> QED BY <2>1, <3>1 DEF Collapse
  <2> QED BY <2>1
<1>4. <<>> \in T
  OBVIOUS
<1> HIDE DEF T, Step
<1>5. step \in [Nat \X T -> T]
  BY <1>3
<1>6. PICK f : IsLoop(f, T, step, <<>>, Len(s))
  <2> HIDE DEF step
  <2>1. PICK start, turns : start = <<>> /\ turns = Len(s)
    OBVIOUS
  <2>2. \E f : IsLoop(f, T, step, start, turns)
    BY <1>1, <1>4, <1>5, <2>1, LoopExists
  <2> QED BY <2>1, <2>2
<1>7. f \in [0 .. Len(s) -> T] /\ f[0] = <<>>
  BY <1>6 DEF IsLoop
<1>8. ASSUME NEW n \in 1 .. Len(s)
      PROVE  f[n] = Collapse(s, n, f[n - 1])
  <2>1. f[n] = step[<<n, f[n - 1]>>]
    BY <1>6 DEF IsLoop
  <2>2. n \in Nat /\ n - 1 \in 0 .. Len(s)
    BY <1>1
  <2>3. f[n - 1] \in T
    BY <1>7, <2>2
  <2>4. step[<<n, f[n - 1]>>] = Step(n, f[n - 1])
    BY <2>2, <2>3
  <2> QED BY <2>1, <2>4 DEF Step
<1> HIDE DEF step
<1>9. upTo = f
  <2>1. upTo = [n \in 0 .. Len(s) |-> IF n = 0 THEN <<>> ELSE Collapse(s, n, upTo[n - 1])]
    <3> DEFINE G(g) == [n \in 0 .. Len(s) |->
                          IF n = 0 THEN <<>>
                          ELSE IF n > 1 /\ s[n] = Star /\ s[n - 1] = Star
                               THEN g[n - 1] ELSE Append(g[n - 1], s[n])]
    <3>1. ASSUME NEW n \in 0 .. Len(s)
          PROVE  f[n] = IF n = 0 THEN <<>>
                        ELSE IF n > 1 /\ s[n] = Star /\ s[n - 1] = Star
                             THEN f[n - 1] ELSE Append(f[n - 1], s[n])
      <4>1. n # 0 => n \in 1 .. Len(s)
        BY <1>1
      <4> QED BY <1>7, <1>8, <4>1 DEF Collapse, Repeats
    <3>2. f = G(f)
      BY <1>7, <3>1
    <3>3. upTo = G(upTo)
      BY <3>2
    <3> QED BY <3>3 DEF Collapse, Repeats
  <2> HIDE DEF upTo
  <2> DEFINE P == {n \in Nat : n <= Len(s) => upTo[n] = f[n]}
  <2>2. 0 \in P
    BY <1>1, <1>7, <2>1
  <2>3. ASSUME NEW n \in Nat, n \in P PROVE n + 1 \in P
    <3> SUFFICES ASSUME n + 1 <= Len(s) PROVE upTo[n + 1] = f[n + 1]
      OBVIOUS
    <3>1. PICK m : m = n + 1
      OBVIOUS
    <3>2. m \in 1 .. Len(s) /\ m - 1 = n /\ m # 0 /\ m \in 0 .. Len(s) /\ upTo[n] = f[n]
      BY <1>1, <2>3, <3>1
    <3>3. upTo[m] = Collapse(s, m, upTo[m - 1])
      BY <2>1, <3>2
    <3> QED BY <1>8, <3>1, <3>2, <3>3
  <2> HIDE DEF P
  <2>4. Nat \subseteq P
    BY <2>2, <2>3, InductionOverNat
  <2>5. \A n \in 0 .. Len(s) : upTo[n] = f[n]
    BY <1>1, <2>4 DEF P
  <2> QED BY <1>7, <2>1, <2>5
<1> QED BY <1>1, <1>2, <1>7, <1>8, <1>9 DEF T

\* One more byte is kept, unless it repeats a star.
LEMMA RunsOfAppend ==
  ASSUME NEW X, NEW s \in Seq(X), NEW x \in X
  PROVE  withoutRuns(Append(s, x)) =
           IF s # <<>> /\ x = Star /\ s[Len(s)] = Star
           THEN withoutRuns(s) ELSE Append(withoutRuns(s), x)
<1>1. PICK t, n, m : t = Append(s, x) /\ n = Len(s) /\ m = n + 1
  OBVIOUS
<1>2. /\ t \in Seq(X) /\ Len(t) = m /\ t[m] = x /\ n \in Nat /\ m = n + 1
      /\ \A i \in 1 .. n : t[i] = s[i]
  BY <1>1, Appended
<1>3. PICK f \in [0 .. n -> Seq(X)] :
        /\ f[0] = <<>> /\ withoutRuns(s) = f[n]
        /\ \A i \in 1 .. n : f[i] = Collapse(s, i, f[i - 1])
  BY <1>1, RunsLoop
<1>4. PICK g \in [0 .. m -> Seq(X)] :
        /\ g[0] = <<>> /\ withoutRuns(t) = g[m]
        /\ \A i \in 1 .. m : g[i] = Collapse(t, i, g[i - 1])
  <2>1. t \in Seq(X) /\ Len(t) = m
    BY <1>2
  <2> QED BY <2>1, RunsLoop
<1> DEFINE P == {i \in Nat : i <= n => f[i] = g[i]}
<1>5. 0 \in P
  BY <1>3, <1>4
<1>6. ASSUME NEW i \in Nat, i \in P PROVE i + 1 \in P
  <2> SUFFICES ASSUME i + 1 <= n PROVE f[i + 1] = g[i + 1]
    OBVIOUS
  <2>1. PICK j : j = i + 1
    OBVIOUS
  <2>2. j \in 1 .. n /\ j \in 1 .. m /\ j - 1 = i /\ f[i] = g[i]
    BY <1>2, <1>6, <2>1
  <2>3. t[j] = s[j] /\ (j > 1 => t[j - 1] = s[j - 1])
    <3>1. j > 1 => j - 1 \in 1 .. n
      BY <1>2, <2>2
    <3> QED BY <1>2, <2>2, <3>1
  <2>4. Repeats(t, j) <=> Repeats(s, j)
    BY <2>3 DEF Repeats
  <2> QED BY <1>3, <1>4, <2>1, <2>2, <2>3, <2>4 DEF Collapse
<1> HIDE DEF P
<1>7. n \in P
  BY <1>2, <1>5, <1>6, InductionOverNat
<1>8. g[m] = Collapse(t, m, f[n])
  <2>1. m \in 1 .. m /\ m - 1 = n /\ f[n] = g[n]
    BY <1>2, <1>7 DEF P
  <2> QED BY <1>4, <2>1
<1>9. Repeats(t, m) <=> s # <<>> /\ x = Star /\ s[n] = Star
  <2>1. s # <<>> <=> n > 0
    BY <1>1, <1>2
  <2>2. n > 0 => t[n] = s[n] /\ m - 1 = n /\ m > 1
    BY <1>2
  <2>3. ~ (n > 0) => ~ (m > 1)
    BY <1>2
  <2> QED BY <1>2, <2>1, <2>2, <2>3 DEF Repeats
<1> QED BY <1>1, <1>2, <1>3, <1>4, <1>8, <1>9 DEF Collapse

\* The last byte is always kept.
LEMMA RunsKeepTheLast ==
  ASSUME NEW X, NEW s \in Seq(X)
  PROVE  /\ withoutRuns(s) \in Seq(X)
         /\ s # <<>> <=> withoutRuns(s) # <<>>
         /\ s # <<>> => withoutRuns(s)[Len(withoutRuns(s))] = s[Len(s)]
<1>1. PICK n, w : n = Len(s) /\ w = withoutRuns(s)
  OBVIOUS
<1>2. n \in Nat /\ (s # <<>> <=> n # 0) /\ \A i \in 1 .. n : s[i] \in X
  BY <1>1
<1>3. PICK f \in [0 .. n -> Seq(X)] :
        /\ f[0] = <<>> /\ w = f[n]
        /\ \A i \in 1 .. n : f[i] = Collapse(s, i, f[i - 1])
  BY <1>1, RunsLoop
<1> DEFINE Kept(i) == f[i] # <<>> /\ f[i][Len(f[i])] = s[i]
           P == {i \in Nat : i \in 1 .. n => Kept(i)}
<1>4. 0 \in P
  OBVIOUS
<1>5. ASSUME NEW i \in Nat, i \in P PROVE i + 1 \in P
  <2> SUFFICES ASSUME i + 1 \in 1 .. n PROVE Kept(i + 1)
    OBVIOUS
  <2>1. PICK j, kept : j = i + 1 /\ kept = f[i]
    OBVIOUS
  <2>2. j \in 1 .. n /\ j - 1 = i /\ i \in 0 .. n /\ kept \in Seq(X)
    BY <1>2, <2>1
  <2>3. f[j] = Collapse(s, j, kept)
    BY <1>3, <2>1, <2>2
  <2>4. CASE Repeats(s, j)
    <3>1. i \in 1 .. n /\ s[j] = s[i] /\ Kept(i)
      <4>1. j > 1 /\ s[j] = Star /\ s[j - 1] = Star
        BY <2>4 DEF Repeats
      <4> QED BY <1>5, <2>2, <4>1
    <3>2. f[j] = kept
      BY <2>3, <2>4 DEF Collapse
    <3> QED BY <2>1, <3>1, <3>2
  <2>5. CASE ~ Repeats(s, j)
    <3>1. f[j] = Append(kept, s[j]) /\ s[j] \in X
      BY <1>2, <2>2, <2>3, <2>5 DEF Collapse
    <3>2. PICK u, x : u = f[j] /\ x = s[j]
      OBVIOUS
    <3>3. u # <<>> /\ u[Len(u)] = x
      <4>1. Len(u) = Len(kept) + 1 /\ u[Len(kept) + 1] = x /\ Len(kept) \in Nat
        BY <2>2, <3>1, <3>2, Appended
      <4>2. u # <<>>
        BY <4>1
      <4> QED BY <4>1, <4>2
    <3> QED BY <2>1, <3>2, <3>3
  <2> QED BY <2>4, <2>5
<1> HIDE DEF P
<1>6. n \in P
  BY <1>2, <1>4, <1>5, InductionOverNat
<1>7. n # 0 => Kept(n)
  BY <1>2, <1>6 DEF P
<1>8. w \in Seq(X)
  BY <1>2, <1>3
<1>9. n = 0 => w = <<>>
  BY <1>3
<1> QED BY <1>1, <1>2, <1>3, <1>7, <1>8, <1>9

\* What is appended to the second of two strings is appended to both.
LEMMA AppendedToBoth ==
  ASSUME NEW X, NEW s \in Seq(X), NEW t \in Seq(X), NEW x \in X
  PROVE  s \o Append(t, x) = Append(s \o t, x)
<1>1. PICK one, u : one = <<x>> /\ u = s \o t
  OBVIOUS
<1>2. one \in Seq(X) /\ u \in Seq(X)
  BY <1>1, OneElement
<1>3. Append(t, x) = t \o one /\ Append(u, x) = u \o one
  BY <1>1, <1>2, AppendIsConcat
<1>4. (s \o t) \o one = s \o (t \o one)
  BY <1>2, ConcatAssociative, SMTT(30)
<1> QED BY <1>1, <1>3, <1>4

\* Strings that read the same do so with what is appended to both.
LEMMA RunsOfConcatenation ==
  ASSUME NEW X, NEW s \in Seq(X), NEW t \in Seq(X), withoutRuns(s) = withoutRuns(t),
         NEW u \in Seq(X)
  PROVE  withoutRuns(s \o u) = withoutRuns(t \o u)
<1> DEFINE Same(n) == withoutRuns(s \o SubSeq(u, 1, n)) = withoutRuns(t \o SubSeq(u, 1, n))
           P == {n \in Nat : n <= Len(u) => Same(n)}
<1>1. Len(u) \in Nat
  OBVIOUS
<1>2. 0 \in P
  <2>1. PICK e : e = SubSeq(u, 1, 0)
    OBVIOUS
  <2>2. e = <<>>
    BY <2>1
  <2>3. s \o e = s /\ t \o e = t
    BY <2>2
  <2> QED BY <2>1, <2>3
<1>3. ASSUME NEW n \in Nat, n \in P PROVE n + 1 \in P
  <2> SUFFICES ASSUME n + 1 <= Len(u) PROVE Same(n + 1)
    OBVIOUS
  <2>1. PICK a, b, x : a = s \o SubSeq(u, 1, n) /\ b = t \o SubSeq(u, 1, n) /\ x = u[n + 1]
    OBVIOUS
  <2>2. SubSeq(u, 1, n) \in Seq(X) /\ x \in X /\ n <= Len(u)
    BY <1>1, <2>1
  <2>3. a \in Seq(X) /\ b \in Seq(X)
    BY <2>1, <2>2
  <2>4. PICK p, q : p = SubSeq(u, 1, n) /\ q = SubSeq(u, 1, n + 1)
    OBVIOUS
  <2>5. q = Append(p, x)
    BY <1>1, <2>1, <2>4
  <2>6. s \o q = Append(a, x) /\ t \o q = Append(b, x)
    <3>1. p \in Seq(X)
      BY <2>2, <2>4
    <3>2. s \o Append(p, x) = Append(s \o p, x) /\ t \o Append(p, x) = Append(t \o p, x)
      <4>1. x \in X
        BY <2>2
      <4> QED BY <2>2, <3>1, <4>1, AppendedToBoth, SMTT(30)
    <3>3. a = s \o p /\ b = t \o p
      BY <2>1, <2>4
    <3> QED BY <2>5, <3>2, <3>3
  <2>7. withoutRuns(a) = withoutRuns(b)
    BY <1>3, <2>1, <2>2
  <2>8. PICK v, w : v = withoutRuns(a) /\ w = withoutRuns(b)
    OBVIOUS
  <2>9. (a # <<>> <=> b # <<>>) /\ (a # <<>> => a[Len(a)] = b[Len(b)])
    <3>1. /\ a # <<>> <=> v # <<>>
          /\ a # <<>> => v[Len(v)] = a[Len(a)]
      BY <2>3, <2>8, RunsKeepTheLast
    <3>2. /\ b # <<>> <=> w # <<>>
          /\ b # <<>> => w[Len(w)] = b[Len(b)]
      BY <2>3, <2>8, RunsKeepTheLast
    <3> QED BY <2>7, <2>8, <3>1, <3>2
  <2>10. withoutRuns(Append(a, x)) = IF a # <<>> /\ x = Star /\ a[Len(a)] = Star
                                     THEN v ELSE Append(v, x)
    BY <2>2, <2>3, <2>8, RunsOfAppend
  <2>11. withoutRuns(Append(b, x)) = IF b # <<>> /\ x = Star /\ b[Len(b)] = Star
                                     THEN w ELSE Append(w, x)
    BY <2>2, <2>3, <2>8, RunsOfAppend
  <2>12. withoutRuns(Append(a, x)) = withoutRuns(Append(b, x))
    BY <2>7, <2>8, <2>9, <2>10, <2>11
  <2> QED BY <2>4, <2>6, <2>12
<1> HIDE DEF P
<1>4. Len(u) \in P
  BY <1>1, <1>2, <1>3, InductionOverNat
<1>5. SubSeq(u, 1, Len(u)) = u
  OBVIOUS
<1>6. Same(Len(u))
  BY <1>1, <1>4 DEF P
<1> QED BY <1>5, <1>6

\* A star more does not matter to a run that it follows.
LEMMA StarAfterRun ==
  ASSUME NEW X, NEW s \in Seq(X), Star \in X, s # <<>>, s[Len(s)] = Star
  PROVE  withoutRuns(s \o <<Star>>) = withoutRuns(s)
<1>1. s \o <<Star>> = Append(s, Star)
  <2>1. PICK x : x = Star
    OBVIOUS
  <2>2. s \o <<x>> = Append(s, x)
    BY <2>1
  <2> QED BY <2>1, <2>2
<1> QED BY <1>1, RunsOfAppend

\* Nor to a run that it precedes.
LEMMA StarBeforeRun ==
  ASSUME NEW X, NEW s \in Seq(X), Star \in X, NEW u \in Seq(X), u # <<>>, u[1] = Star
  PROVE  withoutRuns((s \o <<Star>>) \o u) = withoutRuns(s \o u)
<1>1. PICK x, a, b, v : x = Star /\ a = s \o <<x>> /\ b = a \o <<x>> /\ v = Tail(u)
  OBVIOUS
<1>2. x \in X /\ a \in Seq(X) /\ b \in Seq(X) /\ v \in Seq(X)
  BY <1>1
<1>9. PICK c : c = <<x>> /\ c \in Seq(X)
  BY <1>2, OneElement
<1>3. a # <<>> /\ a[Len(a)] = x
  <2>1. a = Append(s, x)
    BY <1>1, <1>2
  <2>2. Len(a) = Len(s) + 1 /\ a[Len(s) + 1] = x /\ Len(s) \in Nat
    BY <1>2, <2>1, Appended
  <2> QED BY <2>2
<1>4. withoutRuns(b) = withoutRuns(a)
  BY <1>1, <1>2, <1>3, StarAfterRun
<1>5. withoutRuns(b \o v) = withoutRuns(a \o v)
  BY <1>2, <1>4, RunsOfConcatenation
<1>6. u = <<x>> \o v
  BY <1>1
<1>7. b \o v = a \o u
  <2>1. (a \o c) \o v = a \o (c \o v)
    BY <1>2, <1>9, ConcatAssociative, SMTT(30)
  <2> QED BY <1>1, <1>6, <1>9, <2>1
<1>8. a \o v = s \o u
  <2>1. (s \o c) \o v = s \o (c \o v)
    BY <1>2, <1>9, ConcatAssociative, SMTT(30)
  <2> QED BY <1>1, <1>6, <1>9, <2>1
<1> QED BY <1>1, <1>5, <1>7, <1>8

-----------------------------------------------------------------------------
(* The sections are the whole request, one after the other.                 *)

\* Where i sections end that start at a place.
boundOf(s, from, i) == IF i = 0 THEN from ELSE s[i].to

\* Sections that follow each other, those not to reveal hidden as a whole.
Tiles(s, slices, length, from, to) ==
  /\ s \in Seq(SectionRecord(length))
  /\ boundOf(s, from, Len(s)) = to
  /\ \A i \in 1 .. Len(s) :
       /\ s[i].from = boundOf(s, from, i - 1)
       /\ s[i].from < s[i].to
       /\ ~ s[i].reveal => \A k \in s[i].from + 1 .. s[i].to : isHidden(slices, k)

\* Sections that start where others end.
LEMMA JoinedTiles ==
  ASSUME NEW slices, NEW length \in Nat, NEW a, NEW b, NEW c, NEW s, NEW t,
         Tiles(s, slices, length, a, b), Tiles(t, slices, length, b, c),
         NEW u, u = s \o t
  PROVE  Tiles(u, slices, length, a, c)
<1>1. PICK X : X = SectionRecord(length)
  OBVIOUS
<1>2. s \in Seq(X) /\ t \in Seq(X)
  BY <1>1 DEF Tiles
<1>3. PICK m, n : m = Len(s) /\ n = Len(t)
  OBVIOUS
<1>4. /\ u \in Seq(X) /\ Len(u) = m + n /\ m \in Nat /\ n \in Nat
      /\ \A k \in 1 .. m : u[k] = s[k]
      /\ \A k \in m + 1 .. m + n : k - m \in 1 .. n /\ u[k] = t[k - m]
  <2>1. /\ u \in Seq(X) /\ Len(u) = Len(s) + Len(t) /\ Len(s) \in Nat /\ Len(t) \in Nat
        /\ \A k \in 1 .. Len(s) : u[k] = s[k]
        /\ \A k \in Len(s) + 1 .. Len(u) :
             k - Len(s) \in 1 .. Len(t) /\ u[k] = t[k - Len(s)]
    BY <1>2, Concatenation
  <2> QED BY <1>3, <2>1
<1>5. boundOf(s, a, m) = b /\ boundOf(t, b, n) = c
  BY <1>3 DEF Tiles
<1>6. ASSUME NEW i \in 0 .. m PROVE boundOf(u, a, i) = boundOf(s, a, i)
  <2>1. i # 0 => i \in 1 .. m
    BY <1>4
  <2> QED BY <1>4, <2>1 DEF boundOf
<1>7. ASSUME NEW i \in 0 .. n PROVE boundOf(u, a, m + i) = boundOf(t, b, i)
  <2>1. CASE i = 0
    <3>1. m \in 0 .. m /\ m + i = m
      BY <1>4, <2>1
    <3> QED BY <1>5, <1>6, <2>1, <3>1 DEF boundOf
  <2>2. CASE i # 0
    <3>1. m + i \in m + 1 .. m + n /\ (m + i) - m = i /\ m + i # 0
      BY <1>4, <2>2
    <3> QED BY <1>4, <2>2, <3>1 DEF boundOf
  <2> QED BY <2>1, <2>2
<1>8. boundOf(u, a, Len(u)) = c
  <2>1. n \in 0 .. n
    BY <1>4
  <2> QED BY <1>4, <1>5, <1>7, <2>1
<1>9. ASSUME NEW i \in 1 .. Len(u)
      PROVE  /\ u[i].from = boundOf(u, a, i - 1)
             /\ u[i].from < u[i].to
             /\ ~ u[i].reveal => \A k \in u[i].from + 1 .. u[i].to : isHidden(slices, k)
  <2>1. CASE i \in 1 .. m
    <3>1. i - 1 \in 0 .. m /\ u[i] = s[i]
      BY <1>4, <2>1
    <3>2. /\ s[i].from = boundOf(s, a, i - 1)
          /\ s[i].from < s[i].to
          /\ ~ s[i].reveal => \A k \in s[i].from + 1 .. s[i].to : isHidden(slices, k)
      BY <1>3, <2>1 DEF Tiles
    <3> QED BY <1>6, <3>1, <3>2
  <2>2. CASE i \in m + 1 .. m + n
    <3>1. PICK j : j = i - m
      OBVIOUS
    <3>2. /\ j \in 1 .. n /\ u[i] = t[j] /\ j - 1 \in 0 .. n /\ m + (j - 1) = i - 1
      BY <1>4, <2>2, <3>1
    <3>3. /\ t[j].from = boundOf(t, b, j - 1)
          /\ t[j].from < t[j].to
          /\ ~ t[j].reveal => \A k \in t[j].from + 1 .. t[j].to : isHidden(slices, k)
      BY <1>3, <3>2 DEF Tiles
    <3>4. boundOf(u, a, i - 1) = boundOf(t, b, j - 1)
      BY <1>7, <3>2
    <3> QED BY <3>2, <3>3, <3>4
  <2> QED BY <1>4, <1>9, <2>1, <2>2
<1> QED BY <1>1, <1>4, <1>8, <1>9 DEF Tiles

\* No section.
LEMMA NoTile ==
  ASSUME NEW slices, NEW length \in Nat, NEW a, NEW s, s = <<>>
  PROVE  Tiles(s, slices, length, a, a)
<1>1. s \in Seq(SectionRecord(length)) /\ Len(s) = 0
  OBVIOUS
<1> QED BY <1>1 DEF Tiles, boundOf

\* A single section.
LEMMA OneTile ==
  ASSUME NEW slices, NEW length \in Nat, NEW from \in 0 .. length, NEW to \in 1 .. length,
         from < to, NEW reveal \in BOOLEAN,
         ~ reveal => \A k \in from + 1 .. to : isHidden(slices, k),
         NEW s, s = <<Section(from, to, reveal)>>
  PROVE  Tiles(s, slices, length, from, to)
<1>1. PICK section, X : section = Section(from, to, reveal) /\ X = SectionRecord(length)
  OBVIOUS
<1>2. /\ section.from = from /\ section.to = to /\ section.reveal = reveal
      /\ section \in X
  BY <1>1 DEF Section, SectionRecord
<1>3. s \in Seq(X) /\ Len(s) = 1 /\ s[1] = section
  BY <1>1, <1>2, OneElement
<1>4. boundOf(s, from, 1) = to /\ boundOf(s, from, 0) = from
  BY <1>2, <1>3 DEF boundOf
<1>5. ASSUME NEW i \in 1 .. Len(s)
      PROVE  /\ s[i].from = boundOf(s, from, i - 1)
             /\ s[i].from < s[i].to
             /\ ~ s[i].reveal => \A k \in s[i].from + 1 .. s[i].to : isHidden(slices, k)
  <2>1. i = 1 /\ i - 1 = 0
    BY <1>3
  <2> QED BY <1>2, <1>3, <1>4, <2>1
<1> QED BY <1>1, <1>3, <1>4, <1>5 DEF Tiles

\* What is between two slices is one section or none.
LEMMA BlockTiles ==
  ASSUME NEW slices, NEW length \in Nat, NEW from \in 0 .. length, NEW to \in 0 .. length,
         from <= to, NEW s, s = Block(from, to)
  PROVE  Tiles(s, slices, length, from, to)
<1>1. CASE from < to
  <2>1. PICK reveal : reveal = TRUE
    OBVIOUS
  <2>2. s = <<Section(from, to, reveal)>>
    BY <1>1, <2>1 DEF Block
  <2>3. to \in 1 .. length /\ reveal \in BOOLEAN /\ ~ ~ reveal
    BY <1>1, <2>1
  <2> QED BY <1>1, <2>2, <2>3, OneTile
<1>2. CASE ~ (from < to)
  <2>1. s = <<>> /\ from = to
    BY <1>2 DEF Block
  <2> QED BY <2>1, NoTile
<1> QED BY <1>1, <1>2

\* A slice and the block before it.
LEMMA SliceTiles ==
  ASSUME NEW slices \in Seq(SliceRecord), NEW length \in Nat, InOrder(slices, length),
         NEW i \in 1 .. Len(slices)
  PROVE  Tiles(sectionsAt(slices, i), slices, length, endOf(slices, i - 1), endOf(slices, i))
<1>1. /\ Len(slices) \in Nat
      /\ \A j \in 1 .. Len(slices) : slices[j].fromIndex \in Nat /\ slices[j].toIndex \in Nat
  BY SliceFields
<1>2. PICK from, to, end :
        from = slices[i].fromIndex /\ to = slices[i].toIndex /\ end = endOf(slices, i - 1)
  OBVIOUS
<1>3. from \in 0 .. length /\ to \in 1 .. length /\ from < to
  BY <1>1, <1>2 DEF InOrder
<1>4. end \in 0 .. length /\ end <= from
  <2>1. CASE i = 1
    <3>1. end = 0
      BY <1>2, <2>1 DEF endOf
    <3> QED BY <1>3, <3>1
  <2>2. CASE i # 1
    <3>1. PICK j : j = i - 1
      OBVIOUS
    <3>2. j \in 1 .. Len(slices) /\ j < i /\ end = slices[j].toIndex
      BY <1>1, <1>2, <2>2, <3>1 DEF endOf
    <3>3. slices[j].toIndex <= from
      BY <1>2, <3>2 DEF InOrder
    <3> QED BY <1>1, <1>3, <3>2, <3>3
  <2> QED BY <2>1, <2>2
<1>5. endOf(slices, i) = to
  BY <1>2 DEF endOf
<1>6. PICK block, hidden, reveal :
        block = Block(end, from) /\ reveal = FALSE /\ hidden = <<Section(from, to, reveal)>>
  OBVIOUS
<1>7. Tiles(block, slices, length, end, from)
  BY <1>3, <1>4, <1>6, BlockTiles
<1>8. \A k \in from + 1 .. to : isHidden(slices, k)
  <2> SUFFICES ASSUME NEW k \in from + 1 .. to PROVE isHidden(slices, k)
    OBVIOUS
  <2>1. isIn(slices[i], k)
    BY <1>1, <1>2, <1>3 DEF isIn
  <2> QED BY <2>1 DEF isHidden
<1>9. Tiles(hidden, slices, length, from, to)
  BY <1>3, <1>6, <1>8, OneTile
<1>10. sectionsAt(slices, i) = block \o hidden
  BY <1>2, <1>5, <1>6 DEF sectionsAt
<1>11. Tiles(sectionsAt(slices, i), slices, length, end, to)
  BY <1>7, <1>9, <1>10, JoinedTiles
<1> QED BY <1>2, <1>5, <1>11

\* All sections of a request.
LEMMA SectionsTile ==
  ASSUME NEW r, NEW slices \in Seq(SliceRecord), slices = createRequest(r).redactions,
         NEW length \in Nat, length = Len(createRequest(r).data), InOrder(slices, length)
  PROVE  Tiles(sectionsOf(r), slices, length, 0, length)
<1>1. PICK n : n = Len(slices)
  OBVIOUS
<1>2. n \in Nat /\ \A j \in 1 .. n : slices[j].fromIndex \in Nat /\ slices[j].toIndex \in Nat
  BY <1>1, SliceFields
<1>3. PICK X, pieces :
        X = SectionRecord(length) /\ pieces = [i \in 1 .. n |-> sectionsAt(slices, i)]
  OBVIOUS
<1>4. ASSUME NEW i \in 1 .. n
      PROVE  Tiles(pieces[i], slices, length, endOf(slices, i - 1), endOf(slices, i))
  BY <1>1, <1>3, SliceTiles
<1>5. pieces \in Seq(Seq(X)) /\ Len(pieces) = n
  <2>1. \A i \in 1 .. n : pieces[i] \in Seq(X)
    BY <1>3, <1>4 DEF Tiles
  <2> QED BY <1>2, <1>3, <2>1
<1>6. PICK f \in [0 .. n -> Seq(X)] :
        /\ f[0] = <<>>
        /\ \A i \in 1 .. n : f[i] = f[i - 1] \o pieces[i]
        /\ FlattenSeq(pieces) = f[n]
  BY <1>5, Flattened
<1> DEFINE T(i) == Tiles(f[i], slices, length, 0, endOf(slices, i))
           P == {i \in Nat : i <= n => T(i)}
<1>7. 0 \in P
  <2>1. endOf(slices, 0) = 0
    BY DEF endOf
  <2> QED BY <1>6, <2>1, NoTile
<1>8. ASSUME NEW i \in Nat, i \in P PROVE i + 1 \in P
  <2> SUFFICES ASSUME i + 1 <= n PROVE T(i + 1)
    OBVIOUS
  <2>1. PICK j : j = i + 1
    OBVIOUS
  <2>2. j \in 1 .. n /\ j - 1 = i /\ T(i)
    BY <1>2, <1>8, <2>1
  <2>3. Tiles(pieces[j], slices, length, endOf(slices, i), endOf(slices, j))
    BY <1>4, <2>2
  <2>4. f[j] = f[i] \o pieces[j]
    BY <1>6, <2>2
  <2>5. Tiles(f[j], slices, length, 0, endOf(slices, j))
    BY <2>2, <2>3, <2>4, JoinedTiles
  <2> QED BY <2>1, <2>5
<1> HIDE DEF P
<1>9. n \in P
  BY <1>2, <1>7, <1>8, InductionOverNat
<1>10. PICK flat, end, last, all :
         /\ flat = FlattenSeq(pieces) /\ end = endOf(slices, n)
         /\ last = Block(end, length) /\ all = flat \o last
  OBVIOUS
<1>11. Tiles(flat, slices, length, 0, end)
  <2>1. T(n)
    BY <1>2, <1>9 DEF P
  <2> QED BY <1>6, <1>10, <2>1
<1>12. end \in 0 .. length /\ length \in 0 .. length /\ end <= length
  <2>1. n # 0 => slices[n].toIndex <= length
    BY <1>1, <1>2 DEF InOrder
  <2> QED BY <1>2, <1>10, <2>1 DEF endOf
<1>13. Tiles(last, slices, length, end, length)
  BY <1>10, <1>12, BlockTiles
<1>14. Tiles(all, slices, length, 0, length)
  <2>1. PICK from : from = 0
    OBVIOUS
  <2>2. Tiles(flat, slices, length, from, end)
    BY <1>11, <2>1
  <2>3. Tiles(all, slices, length, from, length)
    <3>1. all = flat \o last /\ length \in Nat
      BY <1>10
    <3> QED BY ONLY <1>13, <2>2, <3>1, JoinedTiles
  <2> QED BY <2>1, <2>3
<1>15. sectionsOf(r) = all
  BY <1>1, <1>3, <1>10 DEF sectionsOf, sectionsAt, endOf
<1> QED BY <1>14, <1>15

\* What is written of a request, in either mode.
LEMMA WrittenTiles ==
  ASSUME request \in Requests,
         sections = IF redactionMode = "zk" THEN wholeOf(request) ELSE sectionsOf(request)
  PROVE  Tiles(sections, redactions, Len(data), 0, Len(data)) /\ Len(data) \in Nat \ {0}
<1>1. PICK r, slices, length : r = request /\ slices = redactions /\ length = Len(data)
  OBVIOUS
<1>2. /\ r \in Requests /\ slices = createRequest(r).redactions
      /\ length = Len(createRequest(r).data)
  BY <1>1 DEF redactions, data
<1>3. RedactsSecrets(r, createRequest(r), isSecret(r))
  BY <1>2, SectionsOfRequest
<1>4. length \in Nat \ {0} /\ slices \in Seq(SliceRecord) /\ InOrder(slices, length)
  BY <1>2, <1>3 DEF RedactsSecrets, InOrder
<1>5. Tiles(sectionsOf(r), slices, length, 0, length)
  BY <1>2, <1>4, SectionsTile
<1>6. Tiles(wholeOf(r), slices, length, 0, length)
  <2>1. PICK from, reveal, s :
          from = 0 /\ reveal = TRUE /\ s = <<Section(from, length, reveal)>>
    OBVIOUS
  <2>2. from \in 0 .. length /\ length \in 1 .. length /\ from < length
    BY <1>4, <2>1
  <2>3. Tiles(s, slices, length, from, length)
    BY <1>4, <2>1, <2>2, OneTile
  <2>4. wholeOf(r) = s
    BY <1>2, <2>1 DEF wholeOf
  <2> QED BY <2>1, <2>3, <2>4
<1> QED BY <1>1, <1>4, <1>5, <1>6

-----------------------------------------------------------------------------
(* The packets: the sections in their order, with updates of the keys only  *)
(* where a hidden section meets one that is revealed.                       *)

number(i) == transcript[i].section
markOf(i) == setReveal(sections[number(i)])
Latest == Len(transcript)

\* What precedes a section is the section before it, with one update between
\* them if they differ, or the handshake.
Follows ==
  \A i \in Sent : isData(i) =>
    /\ i > 1
    /\ number(i) = 1 => \A j \in 1 .. i - 1 : ~ isData(j)
    /\ number(i) # 1 =>
         \/ isData(i - 1) /\ number(i - 1) = number(i) - 1
         \/ /\ i > 2 /\ isData(i - 2) /\ number(i - 2) = number(i) - 1
            /\ ~ isData(i - 1) /\ shown(i) # shown(i - 2)

\* How far the write has come.
Position ==
  /\ Latest > 0 /\ ~ isData(1)
  /\ \A i \in Sent : isData(i) =>
       \/ number(i) < next
       \/ pc \notin {"writing", "updated"} /\ number(i) = next /\ i = Latest
  /\ pc = "writing" =>
       /\ next = 1 => \A i \in Sent : ~ isData(i)
       /\ next > 1 => /\ isData(Latest) /\ number(Latest) = next - 1
                      /\ shown(Latest) = lastMsgRevealed
  /\ pc = "updated" =>
       /\ ~ isData(Latest) /\ Latest > 1
       /\ next = 1 => \A i \in Sent : ~ isData(i)
       /\ next > 1 => /\ Latest > 2 /\ isData(Latest - 1) /\ number(Latest - 1) = next - 1
                      /\ shown(Latest - 1) # sections[next].reveal
  /\ pc = "marking" => isData(Latest) /\ number(Latest) = next
  /\ next > Len(sections) => isData(Latest) /\ number(Latest) = next - 1

\* A section that was written is marked as it is to be revealed, and of the
\* other packets only the handshake is revealed, in the end.
Marked ==
  \A i \in Sent :
    /\ isData(i) /\ number(i) < next => transcript[i].reveal = markOf(i)
    /\ ~ isData(i) /\ ~ isHandshake(i) => transcript[i].reveal = "none"
    /\ pc \in {"claiming", "claimed"} /\ isHandshake(i) => transcript[i].reveal # "none"

\* There is something to write.
LEMMA SomeSections ==
  ASSUME Sections
  PROVE  Len(sections) \in Nat \ {0} /\ next \in Nat \ {0} /\ Latest \in Nat
         /\ next <= Len(sections) + 1
<1>1. PICK s, t, X, Y, length :
        /\ s = sections /\ X = SectionRecord(length) /\ length = Len(data)
        /\ t = transcript /\ Y = PacketOf(Len(sections), key)
  OBVIOUS
<1>2. s \in Seq(X) /\ boundOf(s, 0, Len(s)) = length /\ length \in Nat \ {0}
  BY <1>1, WrittenTiles DEF Sections, Tiles
<1>3. Len(s) \in Nat /\ Len(s) # 0
  BY <1>2 DEF boundOf
<1>4. t \in Seq(Y)
  BY <1>1 DEF Sections
<1>5. Len(t) \in Nat
  BY <1>4
<1> QED BY <1>1, <1>3, <1>5 DEF Sections, Latest

\* A packet more.
LEMMA Grown ==
  ASSUME Sections, NEW p \in PacketOf(Len(sections), key'), key' \in {key, key + 1}, Rest,
         transcript' = Append(transcript, p)
  PROVE  /\ Latest \in Nat /\ Latest' = Latest + 1
         /\ \A i \in Sent : i \in Sent' /\ transcript'[i] = transcript[i]
         /\ transcript'[Latest + 1] = p
         /\ \A i \in Sent' : i \in Sent \/ i = Latest + 1
<1>1. PICK old, new, t, u, X, Y :
        /\ old = key /\ new = key' /\ t = transcript /\ u = transcript'
        /\ X = PacketOf(Len(sections), old) /\ Y = PacketOf(Len(sections), new)
  OBVIOUS
<1>2. X \subseteq Y
  <2>1. old \in Nat /\ new \in Nat /\ old <= new
    BY <1>1 DEF Rest
  <2>2. 0 .. old \subseteq 0 .. new
    BY <2>1
  <2> QED BY <1>1, <2>2 DEF PacketOf
<1>3. t \in Seq(X)
  BY <1>1 DEF Sections
<1>4. t \in Seq(Y) /\ p \in Y /\ u = Append(t, p)
  BY <1>1, <1>2, <1>3, SubsetOfSequences
<1>5. /\ u \in Seq(Y) /\ Len(u) = Len(t) + 1 /\ u[Len(t) + 1] = p /\ Len(t) \in Nat
      /\ \A i \in 1 .. Len(t) : u[i] = t[i]
  BY <1>4, Appended
<1>6. /\ \A i \in 1 .. Len(t) : i \in 1 .. Len(u)
      /\ \A i \in 1 .. Len(u) : i \in 1 .. Len(t) \/ i = Len(t) + 1
  BY <1>5
<1> QED BY <1>1, <1>5, <1>6 DEF Sent, Latest

\* Whether a packet is of the handshake depends on the types before it.
LEMMA HandshakeKept ==
  ASSUME Sections, NEW i \in Sent, \A j \in Sent : transcript'[j].type = transcript[j].type
  PROVE  isHandshake(i)' <=> isHandshake(i)
<1>1. \A j \in 1 .. i : j \in Sent
  BY SomeSections DEF Sent, Latest
<1> QED BY <1>1 DEF isHandshake, isApplicationData

\* A section is sent after what has to precede it.
LEMMA SendFollows ==
  ASSUME Sections, Rest, Follows, UNCHANGED sections,
         NEW p \in PacketOf(Len(sections), key'), key' \in {key, key + 1},
         transcript' = Append(transcript, p), Latest > 0,
         p.type = "data" =>
           /\ p.section = 1 => \A i \in Sent : ~ isData(i)
           /\ p.section # 1 =>
                \/ isData(Latest) /\ number(Latest) = p.section - 1
                \/ /\ Latest > 1 /\ isData(Latest - 1) /\ number(Latest - 1) = p.section - 1
                   /\ ~ isData(Latest) /\ sections[p.section].reveal # shown(Latest - 1)
  PROVE  Follows'
<1>1. PICK n, m : n = Latest /\ m = n + 1
  OBVIOUS
<1>2. /\ n \in Nat /\ Latest' = m /\ m = n + 1 /\ n > 0
      /\ \A i \in Sent : transcript'[i] = transcript[i]
      /\ transcript'[m] = p
      /\ \A i \in Sent' : i \in Sent \/ i = m
  BY <1>1, Grown
<1>3. Sent = 1 .. n
  BY <1>1 DEF Sent, Latest
<1>4. ASSUME NEW i \in Sent
      PROVE  /\ isData(i)' <=> isData(i)
             /\ number(i)' = number(i) /\ shown(i)' = shown(i)
  BY <1>2, <1>4 DEF isData, number, shown
<1>5. /\ isData(m)' <=> p.type = "data"
      /\ number(m)' = p.section /\ shown(m)' = sections[p.section].reveal
  BY <1>2 DEF isData, number, shown
<1> SUFFICES ASSUME NEW i \in Sent', isData(i)'
             PROVE  /\ i > 1
                    /\ number(i)' = 1 => \A j \in 1 .. i - 1 : ~ isData(j)'
                    /\ number(i)' # 1 =>
                         \/ isData(i - 1)' /\ number(i - 1)' = number(i)' - 1
                         \/ /\ i > 2 /\ isData(i - 2)' /\ number(i - 2)' = number(i)' - 1
                            /\ ~ isData(i - 1)' /\ shown(i)' # shown(i - 2)'
  BY DEF Follows
<1>6. CASE i \in Sent
  <2>1. /\ i > 1
        /\ number(i) = 1 => \A j \in 1 .. i - 1 : ~ isData(j)
        /\ number(i) # 1 =>
             \/ isData(i - 1) /\ number(i - 1) = number(i) - 1
             \/ /\ i > 2 /\ isData(i - 2) /\ number(i - 2) = number(i) - 1
                /\ ~ isData(i - 1) /\ shown(i) # shown(i - 2)
    BY <1>4, <1>6 DEF Follows
  <2>2. /\ i - 1 \in Sent /\ (i > 2 => i - 2 \in Sent)
        /\ \A j \in 1 .. i - 1 : j \in Sent
    BY <1>2, <1>3, <1>6, <2>1
  <2>3. number(i)' = 1 => \A j \in 1 .. i - 1 : ~ isData(j)'
    BY <1>4, <1>6, <2>1, <2>2
  <2>4. CASE isData(i - 1) /\ number(i - 1) = number(i) - 1
    BY <1>4, <1>6, <2>1, <2>2, <2>3, <2>4
  <2>5. CASE /\ i > 2 /\ isData(i - 2) /\ number(i - 2) = number(i) - 1
             /\ ~ isData(i - 1) /\ shown(i) # shown(i - 2)
    BY <1>4, <1>6, <2>1, <2>2, <2>3, <2>5
  <2>6. CASE number(i) = 1
    BY <1>4, <1>6, <2>1, <2>3, <2>6
  <2> QED BY <2>1, <2>4, <2>5, <2>6
<1>7. CASE i = m
  <2>1. p.type = "data" /\ i > 1 /\ i - 1 = n /\ i - 2 = n - 1 /\ n \in Sent
    BY <1>2, <1>3, <1>5, <1>7
  <2>2. p.section = 1 => \A j \in 1 .. i - 1 : ~ isData(j)'
    BY <1>1, <1>3, <1>4, <2>1
  <2>3. CASE isData(n) /\ number(n) = p.section - 1
    BY <1>4, <1>5, <1>7, <2>1, <2>2, <2>3
  <2>4. CASE /\ n > 1 /\ isData(n - 1) /\ number(n - 1) = p.section - 1
             /\ ~ isData(n) /\ sections[p.section].reveal # shown(n - 1)
    <3>1. i > 2 /\ n - 1 \in Sent
      BY <1>2, <1>3, <1>7, <2>4
    <3> QED BY <1>4, <1>5, <1>7, <2>1, <2>2, <2>4, <3>1
  <2>5. CASE p.section = 1
    BY <1>5, <1>7, <2>1, <2>2, <2>5
  <2> QED BY <1>1, <2>1, <2>3, <2>4, <2>5
<1> QED BY <1>2, <1>6, <1>7

\* What is sent is not marked yet.
LEMMA SendMarked ==
  ASSUME Sections, Rest, Marked, UNCHANGED <<redactionMode, sections, next>>,
         NEW p \in PacketOf(Len(sections), key'), key' \in {key, key + 1},
         transcript' = Append(transcript, p), pc' \notin {"claiming", "claimed"},
         p.reveal = "none", p.type = "data" => p.section = next
  PROVE  Marked'
<1>1. PICK m : m = Latest + 1
  OBVIOUS
<1>2. /\ \A i \in Sent : transcript'[i] = transcript[i]
      /\ transcript'[m] = p
      /\ \A i \in Sent' : i \in Sent \/ i = m
  BY <1>1, Grown
<1> SUFFICES ASSUME NEW i \in Sent'
             PROVE  /\ isData(i)' /\ number(i)' < next =>
                         transcript'[i].reveal = markOf(i)'
                    /\ ~ isData(i)' /\ ~ isHandshake(i)' => transcript'[i].reveal = "none"
  BY DEF Marked
<1>3. CASE i \in Sent
  <2>1. isHandshake(i)' <=> isHandshake(i)
    BY <1>2, <1>3, HandshakeKept
  <2>2. /\ isData(i) /\ number(i) < next =>
             transcript[i].reveal = markOf(i)
        /\ ~ isData(i) /\ ~ isHandshake(i) => transcript[i].reveal = "none"
    BY <1>3 DEF Marked
  <2>3. /\ isData(i)' <=> isData(i)
        /\ number(i)' = number(i) /\ transcript'[i].reveal = transcript[i].reveal
    BY <1>2, <1>3 DEF isData, number
  <2>4. markOf(i)' = markOf(i)
    BY <2>3 DEF markOf, setReveal
  <2> QED BY <2>1, <2>2, <2>3, <2>4
<1>4. CASE i = m
  <2>1. transcript'[i].reveal = "none" /\ (isData(i)' => number(i)' = next)
    BY <1>2, <1>4 DEF isData, number
  <2>2. ~ (next < next)
    BY SomeSections
  <2> QED BY <2>1, <2>2
<1> QED BY <1>2, <1>3, <1>4

\* The packets, as a whole.
Shape == Follows /\ Position /\ Marked

\* Before the first section.
LEMMA InitShape == Init => Shape
<1> SUFFICES ASSUME Init PROVE Shape
  OBVIOUS
<1>1. Sections /\ Rest
  BY InitSections
<1>2. PICK p : p = [type |-> "handshake", section |-> 0, key |-> 0, reveal |-> "none"]
  OBVIOUS
<1>3. transcript = <<p>> /\ next = 1 /\ pc = "writing"
  BY <1>2 DEF Init
<1>4. Latest = 1 /\ Sent = 1 .. 1 /\ transcript[1] = p
  BY <1>3 DEF Latest, Sent
<1>5. ~ isData(1) /\ transcript[1].reveal = "none"
  BY <1>2, <1>4 DEF isData
<1>6. \A i \in Sent : i = 1
  BY <1>4
<1>7. Len(sections) >= 1 /\ Len(sections) \in Nat
  BY <1>1, SomeSections
<1>8. Follows
  BY <1>5, <1>6, Zenon DEF Follows
<1>9. Position
  <2>1. ~ (next > Len(sections)) /\ ~ (next > 1)
    BY <1>3, <1>7
  <2>2. Latest > 0
    BY <1>4
  <2>3. \A i \in Sent : ~ isData(i)
    BY <1>5, <1>6
  <2> QED BY <1>3, <1>5, <2>1, <2>2, <2>3 DEF Position
<1>10. Marked
  BY <1>3, <1>5, <1>6 DEF Marked
<1> QED BY <1>8, <1>9, <1>10 DEF Shape

\* A section is sent when the sections before it were.
LEMMA SendPosition ==
  ASSUME Sections, Rest, Position, pc \in {"writing", "updated"}, pc' = "marking",
         next <= Len(sections), UNCHANGED <<sections, next>>, key' = key,
         NEW p \in PacketOf(Len(sections), key'), p.type = "data", p.section = next,
         transcript' = Append(transcript, p)
  PROVE  Position'
<1>1. PICK n, m : n = Latest /\ m = n + 1
  OBVIOUS
<1>2. /\ n \in Nat /\ Latest' = m /\ m = n + 1
      /\ \A i \in Sent : transcript'[i] = transcript[i]
      /\ transcript'[m] = p
      /\ \A i \in Sent' : i \in Sent \/ i = m
  <2>1. key' \in {key, key + 1}
    OBVIOUS
  <2> QED BY <1>1, <2>1, Grown
<1>3. n > 0 /\ ~ isData(1) /\ 1 \in Sent
  BY <1>1, <1>2 DEF Position, Sent, Latest
<1>4. \A i \in Sent : isData(i) => number(i) < next
  BY DEF Position
<1>5. \A i \in Sent : (isData(i)' <=> isData(i)) /\ number(i)' = number(i)
  BY <1>2 DEF isData, number
<1>6. isData(m)' /\ number(m)' = next
  BY <1>2 DEF isData, number
<1>7. ~ (next > Len(sections))
  BY SomeSections
<1>8. Latest' > 0 /\ ~ isData(1)'
  BY <1>2, <1>3, <1>5
<1>9. \A i \in Sent' : isData(i)' => number(i)' < next \/ (number(i)' = next /\ i = Latest')
  BY <1>2, <1>4, <1>5, <1>6
<1> QED BY <1>2, <1>6, <1>7, <1>8, <1>9 DEF Position

\* The write of a section, in either step.
LEMMA SendShape ==
  ASSUME Sections, Rest, Shape, pc \in {"writing", "updated"}, pc' = "marking",
         next <= Len(sections), UNCHANGED <<redactionMode, sections, next>>, key' = key,
         transcript' = Append(transcript, Packet("data", next))
  PROVE  Shape'
<1>1. PICK p : p = Packet("data", next)
  OBVIOUS
<1>2. /\ next \in Nat \ {0} /\ next <= Len(sections) /\ Len(sections) \in Nat /\ key \in Nat
      /\ Latest \in Nat
  BY SomeSections DEF Rest
<1>3. /\ p \in PacketOf(Len(sections), key') /\ p.type = "data" /\ p.section = next
      /\ p.reveal = "none"
  <2>1. next \in 0 .. Len(sections) /\ key \in 0 .. key
    BY <1>2
  <2> QED BY <1>1, <2>1 DEF Packet, PacketOf
<1>4. key' \in {key, key + 1}
  OBVIOUS
<1>5. Position'
  BY <1>1, <1>3, SendPosition DEF Shape
<1>6. Marked'
  BY <1>1, <1>3, <1>4, SendMarked DEF Shape
<1>7. Latest > 0
  BY DEF Shape, Position
<1>8. next = 1 => \A i \in Sent : ~ isData(i)
  BY DEF Shape, Position
<1>9. next # 1 =>
        \/ isData(Latest) /\ number(Latest) = next - 1
        \/ /\ Latest > 1 /\ isData(Latest - 1) /\ number(Latest - 1) = next - 1
           /\ ~ isData(Latest) /\ sections[next].reveal # shown(Latest - 1)
  <2> SUFFICES ASSUME next # 1
               PROVE  \/ isData(Latest) /\ number(Latest) = next - 1
                      \/ /\ Latest > 1 /\ isData(Latest - 1) /\ number(Latest - 1) = next - 1
                         /\ ~ isData(Latest) /\ sections[next].reveal # shown(Latest - 1)
    OBVIOUS
  <2>1. next > 1
    BY <1>2
  <2>2. CASE pc = "writing"
    BY <2>1, <2>2 DEF Shape, Position
  <2>3. CASE pc = "updated"
    BY <2>1, <2>3 DEF Shape, Position
  <2> QED BY <2>2, <2>3
<1>10. Follows'
  BY <1>1, <1>3, <1>4, <1>7, <1>8, <1>9, SendFollows DEF Shape
<1> QED BY <1>5, <1>6, <1>10 DEF Shape

\* An update of the keys.
LEMMA UpdateShape ==
  ASSUME Sections, Rest, Shape, pc = "writing", pc' = "updated",
         next <= Len(sections), sections[next].reveal # lastMsgRevealed,
         UNCHANGED <<redactionMode, sections, next>>, key' = key + 1,
         transcript' = Append(transcript, Packet("handshake", 0))
  PROVE  Shape'
<1>1. PICK p : p = Packet("handshake", 0)
  OBVIOUS
<1>2. /\ next \in Nat \ {0} /\ next <= Len(sections) /\ Len(sections) \in Nat /\ key \in Nat
  BY SomeSections DEF Rest
<1>3. p \in PacketOf(Len(sections), key') /\ p.type # "data" /\ p.reveal = "none"
  <2>1. 0 \in 0 .. Len(sections) /\ key \in 0 .. key + 1
    BY <1>2
  <2> QED BY <1>1, <2>1 DEF Packet, PacketOf
<1>4. key' \in {key, key + 1}
  OBVIOUS
<1>5. Latest > 0 /\ ~ isData(1)
  BY DEF Shape, Position
<1>6. Marked'
  BY <1>1, <1>3, <1>4, SendMarked DEF Shape
<1>7. Follows'
  BY <1>1, <1>3, <1>4, <1>5, SendFollows DEF Shape
<1>8. PICK n, m : n = Latest /\ m = n + 1
  OBVIOUS
<1>9. /\ n \in Nat /\ Latest' = m /\ m = n + 1 /\ n > 0 /\ m - 1 = n /\ n \in Sent /\ 1 \in Sent
      /\ \A i \in Sent : transcript'[i] = transcript[i]
      /\ transcript'[m] = p
      /\ \A i \in Sent' : i \in Sent \/ i = m
  <2>1. /\ n \in Nat /\ Latest' = m
        /\ \A i \in Sent : transcript'[i] = transcript[i]
        /\ transcript'[m] = p
        /\ \A i \in Sent' : i \in Sent \/ i = m
    BY <1>1, <1>3, <1>4, <1>8, Grown
  <2> QED BY <1>5, <1>8, <2>1 DEF Sent, Latest
<1>10. \A i \in Sent : (isData(i)' <=> isData(i)) /\ number(i)' = number(i) /\ shown(i)' = shown(i)
  BY <1>9 DEF isData, number, shown
<1>11. ~ isData(m)'
  BY <1>3, <1>9 DEF isData
<1>12. \A i \in Sent' : isData(i)' => number(i)' < next
  <2>1. \A i \in Sent : isData(i) => number(i) < next
    BY DEF Shape, Position
  <2> QED BY <1>9, <1>10, <1>11, <2>1
<1>13. next = 1 => \A i \in Sent' : ~ isData(i)'
  <2>1. next = 1 => \A i \in Sent : ~ isData(i)
    BY DEF Shape, Position
  <2> QED BY <1>9, <1>10, <1>11, <2>1
<1>14. next > 1 => /\ m > 2 /\ isData(n)' /\ number(n)' = next - 1
                   /\ shown(n)' # sections[next].reveal
  <2> SUFFICES ASSUME next > 1
               PROVE  /\ m > 2 /\ isData(n)' /\ number(n)' = next - 1
                      /\ shown(n)' # sections[next].reveal
    OBVIOUS
  <2>1. isData(n) /\ number(n) = next - 1 /\ shown(n) = lastMsgRevealed
    BY <1>8 DEF Shape, Position
  <2>2. n # 1
    BY <1>5, <2>1
  <2> QED BY <1>9, <1>10, <2>1, <2>2
<1>15. ~ (next > Len(sections))
  BY <1>2
<1>16. Latest' > 0 /\ Latest' > 1 /\ ~ isData(1)'
  BY <1>5, <1>9, <1>10
<1>17. Position'
  BY <1>9, <1>11, <1>12, <1>13, <1>14, <1>15, <1>16 DEF Position
<1> QED BY <1>6, <1>7, <1>17 DEF Shape

\* A step that sends nothing, and marks at most.
LEMMA StillFollows ==
  ASSUME Sections, Follows, UNCHANGED sections, Len(transcript') = Len(transcript),
         \A i \in Sent : /\ transcript'[i].type = transcript[i].type
                         /\ transcript'[i].section = transcript[i].section
  PROVE  Follows'
<1>1. Sent' = Sent /\ Sent = 1 .. Latest /\ Latest \in Nat
  BY SomeSections DEF Sent, Latest
<1>2. \A i \in Sent : (isData(i)' <=> isData(i)) /\ number(i)' = number(i) /\ shown(i)' = shown(i)
  BY DEF isData, number, shown
<1> SUFFICES ASSUME NEW i \in Sent, isData(i)
             PROVE  /\ i > 1
                    /\ number(i)' = 1 => \A j \in 1 .. i - 1 : ~ isData(j)'
                    /\ number(i)' # 1 =>
                         \/ isData(i - 1)' /\ number(i - 1)' = number(i)' - 1
                         \/ /\ i > 2 /\ isData(i - 2)' /\ number(i - 2)' = number(i)' - 1
                            /\ ~ isData(i - 1)' /\ shown(i)' # shown(i - 2)'
  BY <1>1, <1>2 DEF Follows
<1>3. /\ i > 1
      /\ number(i) = 1 => \A j \in 1 .. i - 1 : ~ isData(j)
      /\ number(i) # 1 =>
           \/ isData(i - 1) /\ number(i - 1) = number(i) - 1
           \/ /\ i > 2 /\ isData(i - 2) /\ number(i - 2) = number(i) - 1
              /\ ~ isData(i - 1) /\ shown(i) # shown(i - 2)
  BY DEF Follows
<1>4. /\ i - 1 \in Sent /\ (i > 2 => i - 2 \in Sent)
      /\ \A j \in 1 .. i - 1 : j \in Sent
  BY <1>1, <1>3
<1> QED BY <1>2, <1>3, <1>4

\* The mark of a section that was written.
LEMMA MarkShape == Sections /\ Rest /\ Shape /\ Mark => Shape'
<1> SUFFICES ASSUME Sections, Rest, Shape, Mark PROVE Shape'
  OBVIOUS
<1>1. /\ pc = "marking" /\ pc' = "writing" /\ next' = next + 1
      /\ lastMsgRevealed' = sections[next].reveal
      /\ UNCHANGED <<sections, redactionMode>>
  BY DEF Mark
<1>2. PICK n, s, t, mark :
        /\ n = Latest /\ s = transcript /\ t = transcript' /\ mark = setReveal(sections[next])
  OBVIOUS
<1>3. /\ s \in Seq(PacketOf(Len(sections), key)) /\ n = Len(s) /\ n \in Nat /\ n > 0
      /\ next \in Nat \ {0} /\ next <= Len(sections) /\ Len(sections) \in Nat
  <2>1. n > 0
    BY <1>2 DEF Shape, Position
  <2> QED BY <1>1, <1>2, <2>1, SomeSections DEF Sections, Latest
<1>4. t = [s EXCEPT ![n].reveal = mark] /\ n \in DOMAIN s
  <2>1. t = [s EXCEPT ![n].reveal = mark]
    BY <1>2 DEF Mark, Latest
  <2> QED BY <1>3, <2>1
<1>5. Len(t) = Len(s)
  <2>1. DOMAIN s = 1 .. n
    BY <1>3
  <2>2. PICK x : x = [s[n] EXCEPT !.reveal = mark]
    OBVIOUS
  <2>3. PICK u : u = [i \in 1 .. n |-> IF i = n THEN x ELSE s[i]]
    OBVIOUS
  <2>4. t = u
    BY <1>4, <2>1, <2>2, <2>3
  <2>5. Len(u) = n
    BY <1>3, <2>3
  <2> QED BY <1>3, <2>4, <2>5
<1>6. ASSUME NEW i \in 1 .. n
      PROVE  /\ t[i].type = s[i].type /\ t[i].section = s[i].section
             /\ i # n => t[i] = s[i]
             /\ i = n => t[i].reveal = mark
  <2>1. s[i] \in PacketOf(Len(sections), key)
    BY <1>3
  <2>2. PICK x : x = [s[i] EXCEPT !.reveal = mark]
    OBVIOUS
  <2>3. x.type = s[i].type /\ x.section = s[i].section /\ x.reveal = mark
    BY <2>1, <2>2 DEF PacketOf
  <2>4. t[i] = IF i = n THEN x ELSE s[i]
    BY <1>3, <1>4, <2>2
  <2> QED BY <2>3, <2>4
<1>7. Sent' = Sent /\ Sent = 1 .. n /\ Latest' = n /\ n \in Sent
  BY <1>2, <1>3, <1>5 DEF Sent, Latest
<1>8. \A i \in Sent : (isData(i)' <=> isData(i)) /\ number(i)' = number(i) /\ shown(i)' = shown(i)
  BY <1>1, <1>2, <1>6, <1>7 DEF isData, number, shown
<1>9. isData(n) /\ number(n) = next
  BY <1>1, <1>2 DEF Shape, Position
<1>10. Follows'
  BY <1>1, <1>2, <1>5, <1>6, <1>7, StillFollows DEF Shape
<1>11. ASSUME NEW i \in Sent, isData(i)
       PROVE  number(i) < next \/ (number(i) = next /\ i = n)
  BY <1>2, <1>11 DEF Shape, Position
<1>12. Position'
  <2>1. ASSUME NEW i \in Sent, isData(i) PROVE number(i) < next + 1
    <3>1. number(i) \in Nat
      <4>1. s[i] \in PacketOf(Len(sections), key)
        BY <1>3, <1>7
      <4> QED BY <1>2, <4>1 DEF PacketOf, number
    <3> QED BY <1>3, <1>11, <2>1, <3>1
  <2>2. shown(n) = sections[next].reveal
    BY <1>9 DEF shown, number
  <2>3. ~ isData(1) /\ 1 \in Sent
    BY <1>3, <1>7 DEF Shape, Position
  <2>4. (next + 1) - 1 = next /\ next + 1 # 1
    BY <1>3
  <2> QED BY <1>1, <1>3, <1>7, <1>8, <1>9, <2>1, <2>2, <2>3, <2>4 DEF Position
<1>13. Marked'
  <2> SUFFICES ASSUME NEW i \in Sent
               PROVE  /\ isData(i)' /\ number(i)' < next + 1 =>
                           transcript'[i].reveal = markOf(i)'
                      /\ ~ isData(i)' /\ ~ isHandshake(i)' => transcript'[i].reveal = "none"
    BY <1>1, <1>7 DEF Marked
  <2>1. markOf(i)' = markOf(i)
    BY <1>1, <1>8 DEF markOf, setReveal
  <2>2. isHandshake(i)' <=> isHandshake(i)
    BY <1>2, <1>6, <1>7, HandshakeKept
  <2>3. /\ isData(i) /\ number(i) < next => transcript[i].reveal = markOf(i)
        /\ ~ isData(i) /\ ~ isHandshake(i) => transcript[i].reveal = "none"
    BY DEF Shape, Marked
  <2>4. CASE i = n
    BY <1>2, <1>6, <1>7, <1>8, <1>9, <2>1, <2>4 DEF markOf
  <2>5. CASE i # n
    <3>1. transcript'[i].reveal = transcript[i].reveal
      BY <1>2, <1>6, <1>7, <2>5
    <3>2. isData(i) => number(i) < next
      BY <1>11, <2>5
    <3> QED BY <1>8, <2>1, <2>2, <2>3, <3>1, <3>2
  <2> QED BY <2>4, <2>5
<1> QED BY <1>10, <1>12, <1>13 DEF Shape

\* The handshake is revealed.
LEMMA AddRevealsShape == Sections /\ Rest /\ Shape /\ AddReveals => Shape'
<1> SUFFICES ASSUME Sections, Rest, Shape, AddReveals PROVE Shape'
  OBVIOUS
<1>1. /\ pc = "written" /\ pc' \in {"claiming", "failed"}
      /\ UNCHANGED <<sections, redactionMode, next, lastMsgRevealed>>
  BY DEF AddReveals
<1>2. PICK n, s, t, mark :
        /\ n = Latest /\ s = transcript /\ t = transcript'
        /\ mark = IF redactionMode = "zk" THEN "zk" ELSE "complete"
  OBVIOUS
<1>3. PICK revealed :
        revealed = [i \in 1 .. n |->
                      IF isHandshake(i) THEN [s[i] EXCEPT !.reveal = mark] ELSE s[i]]
  OBVIOUS
<1>4. (pc' = "claiming" /\ t = revealed) \/ (pc' = "failed" /\ t = s)
  BY <1>2, <1>3 DEF AddReveals, Latest
<1>5. s \in Seq(PacketOf(Len(sections), key)) /\ n = Len(s) /\ n \in Nat
  BY <1>2, SomeSections DEF Sections, Latest
<1>6. Len(revealed) = n
  BY <1>3, <1>5
<1>7. ASSUME NEW i \in 1 .. n
      PROVE  /\ revealed[i].type = s[i].type /\ revealed[i].section = s[i].section
             /\ ~ isHandshake(i) => revealed[i].reveal = s[i].reveal
             /\ isHandshake(i) => revealed[i].reveal # "none"
  <2>1. s[i] \in PacketOf(Len(sections), key)
    BY <1>5
  <2>2. PICK x : x = [s[i] EXCEPT !.reveal = mark]
    OBVIOUS
  <2>3. x.type = s[i].type /\ x.section = s[i].section /\ x.reveal = mark /\ mark # "none"
    BY <1>2, <2>1, <2>2 DEF PacketOf
  <2>4. revealed[i] = IF isHandshake(i) THEN x ELSE s[i]
    BY <1>3, <2>2
  <2> QED BY <2>3, <2>4
<1>8. /\ Len(t) = n
      /\ \A i \in 1 .. n : /\ t[i].type = s[i].type /\ t[i].section = s[i].section
                           /\ ~ isHandshake(i) => t[i].reveal = s[i].reveal
                           /\ pc' = "claiming" /\ isHandshake(i) => t[i].reveal # "none"
                           /\ pc' = "failed" => t[i].reveal = s[i].reveal
  BY <1>4, <1>5, <1>6, <1>7
<1>9. Sent' = Sent /\ Sent = 1 .. n /\ Latest' = Latest
  BY <1>2, <1>5, <1>8 DEF Sent, Latest
<1>10. \A i \in Sent : (isData(i)' <=> isData(i)) /\ number(i)' = number(i) /\ shown(i)' = shown(i)
  BY <1>1, <1>2, <1>8, <1>9 DEF isData, number, shown
<1>11. Follows'
  BY <1>1, <1>2, <1>5, <1>8, <1>9, StillFollows DEF Shape
<1>12. Position'
  <2>1. Latest > 0 /\ ~ isData(1) /\ 1 \in Sent /\ Latest \in Sent
    <3>1. Latest > 0 /\ ~ isData(1)
      BY DEF Shape, Position
    <3> QED BY <1>2, <1>5, <1>9, <3>1
  <2>2. \A i \in Sent : isData(i) => number(i) < next \/ (number(i) = next /\ i = Latest)
    BY DEF Shape, Position
  <2>3. next > Len(sections) => isData(Latest) /\ number(Latest) = next - 1
    BY DEF Shape, Position
  <2> QED BY <1>1, <1>9, <1>10, <2>1, <2>2, <2>3 DEF Position
<1>13. Marked'
  <2> SUFFICES ASSUME NEW i \in Sent
               PROVE  /\ isData(i)' /\ number(i)' < next' =>
                           transcript'[i].reveal = markOf(i)'
                      /\ ~ isData(i)' /\ ~ isHandshake(i)' => transcript'[i].reveal = "none"
                      /\ pc' \in {"claiming", "claimed"} /\ isHandshake(i)' =>
                           transcript'[i].reveal # "none"
    BY <1>9 DEF Marked
  <2>1. markOf(i)' = markOf(i)
    BY <1>1, <1>10 DEF markOf, setReveal
  <2>2. isHandshake(i)' <=> isHandshake(i)
    BY <1>2, <1>8, <1>9, HandshakeKept
  <2>3. /\ isData(i) /\ number(i) < next => transcript[i].reveal = markOf(i)
        /\ ~ isData(i) /\ ~ isHandshake(i) => transcript[i].reveal = "none"
    BY DEF Shape, Marked
  <2>4. isData(i) => ~ isHandshake(i)
    <3>1. i \in 1 .. i
      BY <1>5, <1>9
    <3> QED BY <3>1 DEF isData, isHandshake, isApplicationData
  <2>5. ~ isHandshake(i) => transcript'[i].reveal = transcript[i].reveal
    BY <1>2, <1>8, <1>9
  <2>6. pc' \in {"claiming", "claimed"} /\ isHandshake(i) => transcript'[i].reveal # "none"
    BY <1>1, <1>2, <1>8, <1>9
  <2> QED BY <1>1, <1>10, <2>1, <2>2, <2>3, <2>4, <2>5, <2>6
<1> QED BY <1>11, <1>12, <1>13 DEF Shape

\* A step that leaves the packets.
LEMMA QuietShape ==
  ASSUME Shape, UNCHANGED <<transcript, sections, redactionMode, next, lastMsgRevealed>>,
         \/ /\ pc \in {"writing", "updated", "marking"} /\ pc' = "written"
         \/ pc \in {"claiming", "claimed"} /\ pc' = "claimed"
         \/ pc' = pc
  PROVE  Shape'
<1>1. Follows'
  BY DEF Shape, Follows, Sent, isData, number, shown
<1>2. Position'
  BY DEF Shape, Position, Sent, Latest, isData, number, shown
<1>3. Marked'
  BY DEF Shape, Marked, Sent, isData, number, markOf, setReveal, isHandshake, isApplicationData
<1> QED BY <1>1, <1>2, <1>3 DEF Shape

\* Each step keeps the order and the marks of the packets.
LEMMA NextShape == Sections /\ Rest /\ Shape /\ [Next]_vars => Shape'
<1> SUFFICES ASSUME Sections, Rest, Shape, [Next]_vars PROVE Shape'
  OBVIOUS
<1>1. CASE Write
  <2>1. CASE pc' = "updated"
    BY <1>1, <2>1, UpdateShape DEF Write, updatesKeys
  <2>2. CASE pc' # "updated"
    BY <1>1, <2>2, SendShape DEF Write
  <2> QED BY <2>1, <2>2
<1>2. CASE WriteUpdated
  <2>1. next <= Len(sections)
    BY <1>2 DEF WriteUpdated, Sections
  <2> QED BY <1>2, <2>1, SendShape DEF WriteUpdated
<1>3. CASE Mark
  BY <1>3, MarkShape
<1>4. CASE WriteFails \/ Written
  BY <1>4, QuietShape DEF WriteFails, Written
<1>5. CASE AddReveals
  BY <1>5, AddRevealsShape
<1>6. CASE Claim
  BY <1>6, QuietShape DEF Claim
<1>7. CASE UNCHANGED vars
  BY <1>7, QuietShape DEF vars
<1> QED BY <1>1, <1>2, <1>3, <1>4, <1>5, <1>6, <1>7 DEF Next

\* The packets are the sections in their order, in every state.
THEOREM ShapeInvariance == Spec => [](Sections /\ Rest /\ Shape)
<1>1. Init => Sections /\ Rest /\ Shape
  BY InitSections, InitShape
<1>2. Sections /\ Rest /\ Shape /\ [Next]_vars => (Sections /\ Rest /\ Shape)'
  BY NextSections, NextShape
<1> QED BY <1>1, <1>2, PTL DEF Spec

-----------------------------------------------------------------------------
(* What the witness reads.                                                  *)

\* A section more, of what reads as the request so far.
LEMMA RunsOfSection ==
  ASSUME NEW X, NEW r \in Seq(X), NEW a \in 0 .. Len(r), NEW b \in a .. Len(r),
         NEW v \in Seq(X), withoutRuns(v) = withoutRuns(SubSeq(r, 1, a))
  PROVE  withoutRuns(v \o SubSeq(r, a + 1, b)) = withoutRuns(SubSeq(r, 1, b))
<1>1. Len(r) \in Nat /\ \A k \in 1 .. Len(r) : r[k] \in X
  OBVIOUS
<1>2. PICK p, q, w, one : /\ p = SubSeq(r, one, a) /\ q = SubSeq(r, a + 1, b)
                          /\ w = SubSeq(r, one, b) /\ one = 1
  OBVIOUS
<1>3. p \in Seq(X) /\ q \in Seq(X)
  <2>1. \A k \in 1 .. a : r[k] \in X
    BY <1>1
  <2>2. \A k \in a + 1 .. b : r[k] \in X
    BY <1>1
  <2> QED BY <1>2, <2>1, <2>2, SubSeqProperties
<1>4. p \o q = w
  <2>1. one \in 1 .. Len(r) + 1 /\ a \in one - 1 .. Len(r) /\ b \in a .. Len(r)
    BY <1>1, <1>2
  <2> QED BY <1>2, <2>1, ConcatAdjacentSubSeq
<1>5. withoutRuns(v \o q) = withoutRuns(p \o q)
  BY <1>2, <1>3, RunsOfConcatenation
<1> QED BY <1>2, <1>4, <1>5

\* A section after an update of the keys, which is read as a star: of two
\* sections that it is between one is hidden.
LEMMA RunsOfUpdate ==
  ASSUME NEW X, Star \in X, NEW r \in Seq(X), NEW a \in 0 .. Len(r), NEW b \in a .. Len(r),
         a < b, (a > 0 /\ r[a] = Star) \/ r[a + 1] = Star,
         NEW v \in Seq(X), withoutRuns(v) = withoutRuns(SubSeq(r, 1, a))
  PROVE  withoutRuns((v \o <<Star>>) \o SubSeq(r, a + 1, b)) = withoutRuns(SubSeq(r, 1, b))
<1>1. Len(r) \in Nat /\ \A k \in 1 .. Len(r) : r[k] \in X
  OBVIOUS
<1>2. PICK p, q, one : p = SubSeq(r, 1, a) /\ q = SubSeq(r, a + 1, b) /\ one = <<Star>>
  OBVIOUS
<1>3. /\ p \in Seq(X) /\ Len(p) = a /\ \A k \in 1 .. a : p[k] = r[k]
      /\ q \in Seq(X) /\ Len(q) = b - a /\ q[1] = r[a + 1]
  <2>1. \A k \in 1 .. a : r[k] \in X
    BY <1>1
  <2>2. \A k \in a + 1 .. b : r[k] \in X
    BY <1>1
  <2>3. /\ p \in Seq(X) /\ Len(p) = (IF 1 <= a THEN a - 1 + 1 ELSE 0)
        /\ \A k \in 1 .. a - 1 + 1 : p[k] = r[1 + k - 1]
    BY <1>2, <2>1, SubSeqProperties
  <2>4. /\ q \in Seq(X) /\ Len(q) = (IF a + 1 <= b THEN b - (a + 1) + 1 ELSE 0)
        /\ \A k \in 1 .. b - (a + 1) + 1 : q[k] = r[a + 1 + k - 1]
    BY <1>2, <2>2, SubSeqProperties
  <2>5. 1 \in 1 .. b - (a + 1) + 1 /\ a + 1 + 1 - 1 = a + 1
    OBVIOUS
  <2>6. q[1] = r[a + 1]
    BY <2>4, <2>5
  <2> QED BY <2>3, <2>4, <2>6, SMTT(30)
<1>4. one \in Seq(X) /\ v \o one \in Seq(X)
  <2>1. one \in Seq(X)
    BY <1>2, OneElement
  <2> QED BY <2>1
<1>5. CASE a > 0 /\ r[a] = Star
  <2>1. p # <<>> /\ p[Len(p)] = Star
    BY <1>3, <1>5
  <2>2. withoutRuns(p \o one) = withoutRuns(p)
    <3>1. p \in Seq(X) /\ Star \in X
      BY <1>3
    <3>2. withoutRuns(p \o <<Star>>) = withoutRuns(p)
      BY ONLY <2>1, <3>1, StarAfterRun
    <3> QED BY <1>2, <3>2
  <2>3. withoutRuns(v \o one) = withoutRuns(p \o one)
    <3>1. withoutRuns(v) = withoutRuns(p) /\ v \in Seq(X)
      BY <1>2
    <3> QED BY ONLY <1>3, <1>4, <3>1, RunsOfConcatenation
  <2>4. PICK w : w = v \o one
    OBVIOUS
  <2>5. w \in Seq(X) /\ withoutRuns(w) = withoutRuns(SubSeq(r, 1, a))
    BY <1>2, <1>4, <2>2, <2>3, <2>4
  <2>6. withoutRuns(w \o SubSeq(r, a + 1, b)) = withoutRuns(SubSeq(r, 1, b))
    BY <2>5, RunsOfSection
  <2> QED BY <1>2, <2>4, <2>6
<1>6. CASE r[a + 1] = Star
  <2>1. q # <<>> /\ q[1] = Star
    BY <1>3, <1>6
  <2>2. withoutRuns((v \o one) \o q) = withoutRuns(v \o q)
    BY <1>2, <1>3, <2>1, StarBeforeRun
  <2>3. withoutRuns(v \o q) = withoutRuns(SubSeq(r, 1, b))
    BY <1>2, RunsOfSection
  <2> QED BY <1>2, <2>2, <2>3
<1> QED BY <1>5, <1>6

\* The request, with its secrets redacted.
redacted == redactSlices(data, redactions)
Readable == Byte \cup {Star}

\* It is as long as the request, and differs from it by stars only.
LEMMA Redacted ==
  ASSUME Sections
  PROVE  /\ redacted \in Seq(Readable) /\ Len(redacted) = Len(data)
         /\ data \in Seq(Readable)
         /\ \A k \in 1 .. Len(data) :
              redacted[k] = IF isHidden(redactions, k) THEN Star ELSE data[k]
<1>1. PICK d, slices : d = data /\ slices = redactions
  OBVIOUS
<1>2. d \in Seq(Byte) /\ slices \in Seq(SliceRecord)
  BY <1>1, SectionsOfRequest DEF Sections, data, redactions, RedactsSecrets
<1>3. d \in Seq(Readable) /\ Len(d) \in Nat
  BY <1>2, SubsetOfSequences DEF Readable
<1>4. PICK e : e = redactSlices(d, slices)
  OBVIOUS
<1>5. DOMAIN slices = 1 .. Len(slices)
  BY <1>2
<1>6. e = [k \in 1 .. Len(d) |-> IF isHidden(slices, k) THEN Star ELSE d[k]]
  BY <1>4, <1>5 DEF redactSlices, isHidden, isIn
<1>7. PICK X, star : X = Readable /\ star = Star
  OBVIOUS
<1>8. star \in X
  BY <1>7 DEF Readable
<1>9. \A k \in 1 .. Len(d) : e[k] \in X /\ e[k] = IF isHidden(slices, k) THEN Star ELSE d[k]
  BY <1>3, <1>6, <1>7, <1>8
<1>10. e \in Seq(X) /\ Len(e) = Len(d)
  <2>1. e = [k \in 1 .. Len(d) |-> e[k]]
    BY <1>6
  <2> QED BY <1>3, <1>9, <2>1
<1> QED BY <1>1, <1>3, <1>4, <1>7, <1>9, <1>10 DEF redacted

\* The sections follow each other.
LEMMA SectionPlace ==
  ASSUME Sections, NEW m \in 1 .. Len(sections)
  PROVE  /\ sections[m].from \in 0 .. Len(data) /\ sections[m].to \in 1 .. Len(data)
         /\ sections[m].from < sections[m].to /\ sections[m].reveal \in BOOLEAN
         /\ sections[m].from = IF m = 1 THEN 0 ELSE sections[m - 1].to
         /\ ~ sections[m].reveal =>
              \A k \in sections[m].from + 1 .. sections[m].to : isHidden(redactions, k)
         /\ redactionMode # "zk" /\ sections[m].reveal =>
              \A k \in sections[m].from + 1 .. sections[m].to : ~ isHidden(redactions, k)
         /\ m = Len(sections) => sections[m].to = Len(data)
<1>1. PICK s, length, X, slices :
        s = sections /\ length = Len(data) /\ X = SectionRecord(length) /\ slices = redactions
  OBVIOUS
<1>2. Tiles(s, slices, length, 0, length) /\ length \in Nat \ {0}
  BY <1>1, WrittenTiles DEF Sections
<1>3. s \in Seq(X) /\ m \in 1 .. Len(s) /\ Len(s) \in Nat
  BY <1>1, <1>2 DEF Tiles
<1>4. s[m] \in X
  BY <1>3
<1>5. /\ s[m].from = boundOf(s, 0, m - 1) /\ s[m].from < s[m].to
      /\ ~ s[m].reveal => \A k \in s[m].from + 1 .. s[m].to : isHidden(slices, k)
  BY <1>2, <1>3 DEF Tiles
<1>6. boundOf(s, 0, m - 1) = IF m = 1 THEN 0 ELSE s[m - 1].to
  BY <1>3 DEF boundOf
<1>7. m = Len(s) => s[m].to = length
  BY <1>2, <1>3 DEF Tiles, boundOf
<1>8. redactionMode # "zk" /\ s[m].reveal =>
        \A k \in s[m].from + 1 .. s[m].to : ~ isHidden(slices, k)
  <2> SUFFICES ASSUME redactionMode # "zk", s[m].reveal
               PROVE  \A k \in s[m].from + 1 .. s[m].to : ~ isHidden(slices, k)
    OBVIOUS
  <2>1. PICK safe : safe = SafeSections(slices, length)
    OBVIOUS
  <2>2. s \in Seq(safe)
    BY <1>1, <2>1, SectionsTyped DEF Sections
  <2>3. s[m] \in safe
    BY <1>3, <2>2
  <2> QED BY <2>1, <2>3, Zenon DEF SafeSections, ShowsNothing
<1>9. s[m].from \in 0 .. length /\ s[m].to \in 1 .. length /\ s[m].reveal \in BOOLEAN
  BY <1>1, <1>4 DEF SectionRecord
<1> QED BY <1>1, <1>5, <1>6, <1>7, <1>8, <1>9

\* The bytes from one place to another, of two strings that agree there.
LEMMA SamePart ==
  ASSUME NEW X, NEW r \in Seq(X), NEW d \in Seq(X), Len(d) = Len(r),
         NEW a \in 0 .. Len(r), NEW b \in a .. Len(r),
         \A k \in a + 1 .. b : r[k] = d[k]
  PROVE  SubSeq(d, a + 1, b) = SubSeq(r, a + 1, b)
OBVIOUS

\* A part that is hidden is stars.
LEMMA HiddenPartIsStars ==
  ASSUME NEW X, NEW r \in Seq(X), NEW d \in Seq(X), Len(d) = Len(r),
         NEW a \in 0 .. Len(r), NEW b \in a .. Len(r), NEW star,
         \A k \in a + 1 .. b : r[k] = star
  PROVE  [i \in DOMAIN SubSeq(d, a + 1, b) |-> star] = SubSeq(r, a + 1, b)
<1>1. PICK p, q : p = SubSeq(d, a + 1, b) /\ q = SubSeq(r, a + 1, b)
  OBVIOUS
<1>2. DOMAIN p = 1 .. b - a /\ q = [i \in 1 .. b - a |-> star]
  BY <1>1
<1> QED BY <1>1, <1>2

\* A section that was written is read as it is with its secrets redacted.
LEMMA SeenSection ==
  ASSUME Sections, Shape, wasWritten, NEW i \in Sent, isData(i),
         NEW m \in 1 .. Len(sections), m = number(i)
  PROVE  seen(transcript[i]) = SubSeq(redacted, sections[m].from + 1, sections[m].to)
<1>1. PICK a, b, r, d, X :
        /\ a = sections[m].from /\ b = sections[m].to
        /\ r = redacted /\ d = data /\ X = Readable
  OBVIOUS
<1>2. /\ a \in 0 .. Len(d) /\ b \in 1 .. Len(d) /\ a < b /\ sections[m].reveal \in BOOLEAN
      /\ ~ sections[m].reveal => \A k \in a + 1 .. b : isHidden(redactions, k)
      /\ redactionMode # "zk" /\ sections[m].reveal =>
           \A k \in a + 1 .. b : ~ isHidden(redactions, k)
  BY <1>1, SectionPlace
<1>3. /\ r \in Seq(X) /\ d \in Seq(X) /\ Len(r) = Len(d) /\ Len(d) \in Nat
      /\ \A k \in 1 .. Len(d) : r[k] = IF isHidden(redactions, k) THEN Star ELSE d[k]
  BY <1>1, Redacted
<1>4. \A k \in a + 1 .. b : k \in 1 .. Len(d)
  BY <1>2, <1>3
<1>5. a \in 0 .. Len(r) /\ b \in a .. Len(r)
  BY <1>2, <1>3
<1>6. PICK p : p = transcript[i]
  OBVIOUS
<1>7. /\ p.type = "data" /\ p.section = m
      /\ Bytes(p) = SubSeq(d, a + 1, b)
  BY <1>1, <1>6 DEF isData, number, Bytes
<1>8. p.reveal = setReveal(sections[m])
  <2>1. m < next
    BY SomeSections DEF wasWritten
  <2> QED BY <1>6, <2>1 DEF Shape, Marked, markOf
<1>9. CASE redactionMode = "zk"
  <2>1. p.reveal = "zk"
    BY <1>8, <1>9 DEF setReveal
  <2>2. seen(p) = SubSeq(redactSlices(data, redactions),
                         sections[p.section].from + 1, sections[p.section].to)
    BY <1>7, <2>1 DEF seen, isApplicationData
  <2> QED BY <1>6, <1>7, <2>2 DEF redacted
<1>10. CASE redactionMode # "zk" /\ sections[m].reveal
  <2>1. p.reveal = "complete"
    BY <1>8, <1>10 DEF setReveal, Sections
  <2>2. seen(p) = Bytes(p)
    BY <1>7, <2>1 DEF seen, isApplicationData
  <2>3. \A k \in a + 1 .. b : r[k] = d[k]
    BY <1>2, <1>3, <1>4, <1>10
  <2>4. SubSeq(d, a + 1, b) = SubSeq(r, a + 1, b)
    BY <1>3, <1>5, <2>3, SamePart
  <2> QED BY <1>1, <1>6, <1>7, <2>2, <2>4
<1>11. CASE redactionMode # "zk" /\ ~ sections[m].reveal
  <2>1. p.reveal = "none"
    BY <1>8, <1>11 DEF setReveal
  <2>2. PICK star : star = Star
    OBVIOUS
  <2>3. seen(p) = [j \in DOMAIN Bytes(p) |-> star]
    BY <1>7, <2>1, <2>2 DEF seen, isApplicationData
  <2>4. \A k \in a + 1 .. b : r[k] = star
    BY <1>2, <1>3, <1>4, <1>11, <2>2
  <2>5. [j \in DOMAIN SubSeq(d, a + 1, b) |-> star] = SubSeq(r, a + 1, b)
    BY <1>3, <1>5, <2>4, HiddenPartIsStars
  <2> QED BY <1>1, <1>6, <1>7, <2>3, <2>5
<1> QED BY <1>9, <1>10, <1>11

\* Of the other packets the witness reads nothing, or one star.
LEMMA SeenHandshake ==
  ASSUME Shape, pc \in {"claiming", "claimed"}, NEW i \in Sent, ~ isData(i)
  PROVE  seen(transcript[i]) = IF isHandshake(i) THEN <<>> ELSE <<Star>>
<1>1. PICK p : p = transcript[i]
  OBVIOUS
<1>2. p.type # "data"
  BY <1>1 DEF isData
<1>3. CASE isHandshake(i)
  <2>1. p.reveal # "none"
    BY <1>1, <1>3 DEF Shape, Marked
  <2>2. seen(p) = <<>>
    BY <1>2, <2>1 DEF seen, isApplicationData
  <2> QED BY <1>1, <1>3, <2>2
<1>4. CASE ~ isHandshake(i)
  <2>1. p.reveal = "none"
    BY <1>1, <1>4 DEF Shape, Marked
  <2>2. seen(p) = <<Star>>
    BY <1>2, <2>1 DEF seen, isApplicationData
  <2> QED BY <1>1, <1>4, <2>2
<1> QED BY <1>3, <1>4

\* The number of a section.
LEMMA SectionNumber ==
  ASSUME Sections, NEW i \in Sent, isData(i)
  PROVE  number(i) \in 1 .. Len(sections)
<1>1. PICK t, Y : t = transcript /\ Y = PacketOf(Len(sections), key)
  OBVIOUS
<1>2. t \in Seq(Y) /\ i \in 1 .. Len(t)
  BY <1>1 DEF Sections, Sent
<1>3. t[i] \in Y
  BY <1>2
<1>4. number(i) \in 0 .. Len(sections) /\ Len(sections) \in Nat
  BY <1>1, <1>3, SomeSections DEF PacketOf, number
<1>5. number(i) # 0
  BY DEF Sections, number
<1> QED BY <1>4, <1>5

\* A packet is of its type.
LEMMA PacketFields ==
  ASSUME Sections, NEW i \in Sent
  PROVE  /\ transcript[i].reveal \in {"none", "complete", "zk"}
         /\ transcript[i].type \in {"handshake", "data"}
<1>1. PICK t, Y : t = transcript /\ Y = PacketOf(Len(sections), key)
  OBVIOUS
<1>2. t \in Seq(Y) /\ i \in 1 .. Len(t)
  BY <1>1 DEF Sections, Sent
<1>3. t[i] \in Y
  BY <1>2
<1> QED BY <1>1, <1>3 DEF PacketOf

\* A packet that is none of the data reads as nothing, or one star.
LEMMA SeenOther ==
  ASSUME NEW i \in Sent, ~ isData(i)
  PROVE  seen(transcript[i]) = <<>> \/ seen(transcript[i]) = <<Star>>
<1>1. PICK p : p = transcript[i]
  OBVIOUS
<1>2. ~ isApplicationData(p)
  BY <1>1 DEF isData, isApplicationData
<1>3. CASE p.reveal = "none"
  <2>1. seen(p) = <<Star>>
    BY <1>2, <1>3 DEF seen
  <2> QED BY <1>1, <2>1
<1>4. CASE p.reveal # "none"
  <2>1. seen(p) = <<>>
    BY <1>2, <1>4 DEF seen
  <2> QED BY <1>1, <2>1
<1> QED BY <1>3, <1>4

\* What a section reads as, depending on its mark.
LEMMA SeenData ==
  ASSUME NEW i \in Sent, isData(i), NEW star, star = Star, NEW from, NEW to,
         from = sections[number(i)].from + 1, to = sections[number(i)].to
  PROVE  /\ transcript[i].reveal = "none" =>
              seen(transcript[i]) = [k \in DOMAIN SubSeq(data, from, to) |-> star]
         /\ transcript[i].reveal = "complete" =>
              seen(transcript[i]) = SubSeq(data, from, to)
         /\ transcript[i].reveal = "zk" =>
              seen(transcript[i]) = SubSeq(redacted, from, to)
<1>1. PICK p : p = transcript[i]
  OBVIOUS
<1>2. isApplicationData(p) /\ Bytes(p) = SubSeq(data, from, to)
  BY <1>1 DEF isData, isApplicationData, Bytes, number
<1>3. p.reveal = "none" => seen(p) = [k \in DOMAIN SubSeq(data, from, to) |-> star]
  BY <1>2 DEF seen
<1>4. p.reveal = "complete" => seen(p) = SubSeq(data, from, to)
  BY <1>2 DEF seen
<1>5. p.reveal = "zk" => seen(p) = SubSeq(redacted, from, to)
  BY <1>1, <1>2 DEF seen, redacted, number
<1> QED BY <1>1, <1>3, <1>4, <1>5

\* A part of a string.
LEMMA PartOf ==
  ASSUME NEW X, NEW d \in Seq(X), NEW a \in 0 .. Len(d), NEW b \in 1 .. Len(d), a < b,
         NEW p, p = SubSeq(d, a + 1, b)
  PROVE  /\ p \in Seq(X) /\ Len(p) = b - a /\ Len(p) \in Nat /\ Len(d) \in Nat
         /\ \A k \in 1 .. b - a : p[k] = d[a + k] /\ a + k \in 1 .. Len(d)
<1>1. Len(d) \in Nat /\ a \in Nat /\ b \in Nat
  OBVIOUS
<1>2. \A k \in a + 1 .. b : k \in 1 .. Len(d) /\ d[k] \in X
  BY <1>1
<1>3. /\ p \in Seq(X) /\ Len(p) = IF a + 1 <= b THEN b - (a + 1) + 1 ELSE 0
      /\ \A k \in 1 .. b - (a + 1) + 1 : p[k] = d[(a + 1) + k - 1]
  <2>1. a + 1 \in Int /\ b \in Int
    BY <1>1
  <2>2. \A k \in a + 1 .. b : d[k] \in X
    BY <1>2
  <2> QED BY ONLY <2>1, <2>2, p = SubSeq(d, a + 1, b), SubSeqProperties
<1>4. a + 1 <= b /\ b - (a + 1) + 1 = b - a
  BY <1>1
<1>5. \A k \in 1 .. b - a : (a + 1) + k - 1 = a + k /\ a + k \in a + 1 .. b
  BY <1>1
<1> QED BY <1>1, <1>2, <1>3, <1>4, <1>5

Stars(s) == \A k \in 1 .. Len(s) : s[k] = Star

\* Stars in the place of any bytes.
LEMMA StarsOfAny ==
  ASSUME NEW X, NEW p \in Seq(X), NEW star \in X, star = Star, NEW s, s = [k \in DOMAIN p |-> star]
  PROVE  s \in Seq(X) /\ Len(s) = Len(p) /\ Stars(s)
<1>1. DOMAIN p = 1 .. Len(p) /\ Len(p) \in Nat
  OBVIOUS
<1>2. s = [k \in 1 .. Len(p) |-> star]
  BY <1>1
<1>3. s \in Seq(X) /\ Len(s) = Len(p) /\ \A k \in 1 .. Len(p) : s[k] = star
  BY <1>1, <1>2
<1> QED BY <1>3 DEF Stars

\* What a packet reads as is a string.
LEMMA SeenTyped ==
  ASSUME Sections, NEW i \in Sent
  PROVE  seen(transcript[i]) \in Seq(Readable)
<1>1. PICK X, star, e : X = Readable /\ star = Star /\ e = seen(transcript[i])
  OBVIOUS
<1>2. star \in X
  BY <1>1 DEF Readable
<1>3. CASE ~ isData(i)
  <2>1. PICK one, none : one = <<star>> /\ none = <<>>
    OBVIOUS
  <2>2. one \in Seq(X) /\ none \in Seq(X)
    BY <1>2, <2>1, OneElement
  <2>3. e = none \/ e = one
    BY <1>1, <1>3, <2>1, SeenOther
  <2> QED BY <1>1, <2>2, <2>3
<1>4. CASE isData(i)
  <2>1. PICK m : m = number(i) /\ m \in 1 .. Len(sections)
    BY <1>4, SectionNumber
  <2>2. PICK a, b, r, d : /\ a = sections[m].from /\ b = sections[m].to
                          /\ r = redacted /\ d = data
    OBVIOUS
  <2>3. /\ r \in Seq(X) /\ d \in Seq(X) /\ Len(r) = Len(d)
        /\ a \in 0 .. Len(d) /\ b \in 1 .. Len(d) /\ a < b
    BY <1>1, <2>1, <2>2, SectionPlace, Redacted
  <2>4. PICK p, q : p = SubSeq(d, a + 1, b) /\ q = SubSeq(r, a + 1, b)
    OBVIOUS
  <2>5. p \in Seq(X) /\ q \in Seq(X)
    BY <2>3, <2>4, PartOf
  <2>6. PICK s : s = [k \in DOMAIN p |-> star]
    OBVIOUS
  <2>7. s \in Seq(X)
    BY <1>1, <1>2, <2>5, <2>6, StarsOfAny
  <2>8. e = s \/ e = p \/ e = q
    <3>1. transcript[i].reveal \in {"none", "complete", "zk"}
      BY PacketFields
    <3>2. PICK from, to : from = a + 1 /\ to = b
      OBVIOUS
    <3>3. from = sections[number(i)].from + 1 /\ to = sections[number(i)].to
      BY <2>1, <2>2, <3>2
    <3>4. /\ transcript[i].reveal = "none" =>
               seen(transcript[i]) = [k \in DOMAIN SubSeq(data, from, to) |-> star]
          /\ transcript[i].reveal = "complete" =>
               seen(transcript[i]) = SubSeq(data, from, to)
          /\ transcript[i].reveal = "zk" =>
               seen(transcript[i]) = SubSeq(redacted, from, to)
      BY <1>1, <1>4, <3>3, SeenData
    <3> QED BY <1>1, <2>2, <2>4, <2>6, <3>1, <3>2, <3>4
  <2> QED BY <1>1, <2>5, <2>7, <2>8
<1> QED BY <1>3, <1>4

\* What the witness reads up to each packet, wherever the write stops.
LEMMA ViewLoop ==
  ASSUME Sections
  PROVE  \E f \in [0 .. Latest -> Seq(Readable)] :
           /\ f[0] = <<>> /\ FlattenSeq(view) = f[Latest]
           /\ \A i \in Sent : f[i] = f[i - 1] \o seen(transcript[i])
<1>1. PICK X, n, v : X = Readable /\ n = Latest /\ v = view
  OBVIOUS
<1>2. n \in Nat /\ Sent = 1 .. n /\ v = [i \in 1 .. n |-> seen(transcript[i])]
  BY <1>1, SomeSections DEF Sent, Latest, view
<1>3. ASSUME NEW i \in Sent PROVE seen(transcript[i]) \in Seq(X)
  BY <1>1, SeenTyped
<1>4. v \in Seq(Seq(X)) /\ Len(v) = n
  BY <1>2, <1>3
<1>5. PICK f \in [0 .. Len(v) -> Seq(X)] :
        /\ f[0] = <<>>
        /\ \A i \in 1 .. Len(v) : f[i] = f[i - 1] \o v[i]
        /\ FlattenSeq(v) = f[Len(v)]
  BY <1>4, Flattened
<1>6. \A i \in Sent : v[i] = seen(transcript[i])
  BY <1>2
<1>7. \A i \in Sent : f[i] = f[i - 1] \o seen(transcript[i])
  <2>1. \A i \in Sent : i \in 1 .. Len(v)
    BY <1>2, <1>4
  <2> QED BY <1>5, <1>6, <2>1
<1>8. f \in [0 .. Latest -> Seq(Readable)]
  BY <1>1, <1>4
<1>9. FlattenSeq(view) = f[Latest]
  BY <1>1, <1>4, <1>5
<1>10. f[0] = <<>>
  BY <1>5
<1> QED BY <1>7, <1>8, <1>9, <1>10

\* What the witness reads up to a section that was written.
LEMMA ViewUpTo ==
  ASSUME Sections, Shape, wasWritten, pc \in {"claiming", "claimed"},
         NEW f \in [0 .. Latest -> Seq(Readable)], f[0] = <<>>,
         \A i \in Sent : f[i] = f[i - 1] \o seen(transcript[i]),
         NEW i \in Sent, isData(i)
  PROVE  withoutRuns(f[i]) = withoutRuns(SubSeq(redacted, 1, sections[number(i)].to))
<1>1. PICK X, n, r, count :
        X = Readable /\ n = Latest /\ r = redacted /\ count = Len(sections)
  OBVIOUS
<1>2. n \in Nat /\ Sent = 1 .. n /\ count \in Nat
  BY <1>1, SomeSections DEF Sent, Latest
<1>3. r \in Seq(X) /\ Len(r) = Len(data) /\ Star \in X
  BY <1>1, Redacted DEF Readable
<1>4. ASSUME NEW j \in 0 .. n PROVE f[j] \in Seq(X)
  BY <1>1, <1>4
<1> DEFINE Read(m) == \A j \in Sent : isData(j) /\ number(j) = m =>
                        withoutRuns(f[j]) = withoutRuns(SubSeq(r, 1, sections[m].to))
           P == {m \in Nat : Read(m)}
<1>5. 0 \in P
  <2> SUFFICES ASSUME NEW j \in Sent, isData(j), number(j) = 0 PROVE FALSE
    BY <1>1
  <2>1. number(j) \in 1 .. count
    BY <1>1, SectionNumber
  <2> QED BY <1>2, <2>1
<1>6. ASSUME NEW m0 \in Nat, m0 \in P PROVE m0 + 1 \in P
  <2>1. PICK m : m = m0 + 1
    OBVIOUS
  <2> SUFFICES ASSUME NEW j \in Sent, isData(j), number(j) = m
               PROVE  withoutRuns(f[j]) = withoutRuns(SubSeq(r, 1, sections[m].to))
    BY <2>1
  <2>2. m \in 1 .. count /\ m - 1 = m0 /\ m \in Nat
    BY <1>1, <2>1, SectionNumber
  <2>3. PICK a, b : a = sections[m].from /\ b = sections[m].to
    OBVIOUS
  <2>4. /\ a \in 0 .. Len(r) /\ b \in a .. Len(r) /\ a < b
        /\ a = IF m = 1 THEN 0 ELSE sections[m0].to
    <3>1. /\ a \in 0 .. Len(data) /\ b \in 1 .. Len(data) /\ a < b
          /\ a = IF m = 1 THEN 0 ELSE sections[m - 1].to
      BY <1>1, <2>2, <2>3, SectionPlace
    <3> QED BY <1>3, <2>2, <3>1
  <2>5. /\ j > 1
        /\ m = 1 => \A k \in 1 .. j - 1 : ~ isData(k)
        /\ m # 1 => \/ isData(j - 1) /\ number(j - 1) = m0
                    \/ /\ j > 2 /\ isData(j - 2) /\ number(j - 2) = m0
                       /\ ~ isData(j - 1) /\ shown(j) # shown(j - 2)
    BY <2>2 DEF Shape, Follows
  <2>6. j - 1 \in Sent /\ j - 1 \in 0 .. n /\ (j > 2 => j - 2 \in Sent /\ j - 2 \in 0 .. n)
    BY <1>2, <2>5
  <2>7. PICK part : part = SubSeq(r, a + 1, b)
    OBVIOUS
  <2>8. f[j] = f[j - 1] \o part
    <3>1. seen(transcript[j]) = part
      BY <1>1, <2>2, <2>3, <2>7, SeenSection
    <3> QED BY <3>1
  <2>9. ASSUME NEW v \in Seq(X), withoutRuns(v) = withoutRuns(SubSeq(r, 1, a))
        PROVE  withoutRuns(v \o part) = withoutRuns(SubSeq(r, 1, b))
    BY <1>3, <2>4, <2>7, <2>9, RunsOfSection
  <2>10. CASE m = 1
    <3> DEFINE Q == {k \in Nat : k <= j - 1 => f[k] = <<>>}
    <3>1. 0 \in Q
      OBVIOUS
    <3>2. ASSUME NEW k0 \in Nat, k0 \in Q PROVE k0 + 1 \in Q
      <4> SUFFICES ASSUME k0 + 1 <= j - 1 PROVE f[k0 + 1] = <<>>
        OBVIOUS
      <4>1. PICK k : k = k0 + 1
        OBVIOUS
      <4>2. k \in Sent /\ k - 1 = k0 /\ f[k0] = <<>> /\ k \in 1 .. j - 1
        BY <1>2, <2>6, <3>2, <4>1
      <4>3. ~ isData(k) /\ isHandshake(k)
        <5>1. \A l \in 1 .. k : l \in 1 .. j - 1
          BY <1>2, <4>2
        <5>2. \A l \in 1 .. k : ~ isData(l)
          BY <2>5, <2>10, <5>1
        <5>3. k \in 1 .. k
          BY <1>2, <4>2
        <5> QED BY <5>2, <5>3 DEF isData, isHandshake, isApplicationData
      <4>4. seen(transcript[k]) = <<>>
        BY <4>2, <4>3, SeenHandshake
      <4>5. f[k] = <<>> \o <<>>
        BY <4>2, <4>4
      <4>6. <<>> \o <<>> = <<>>
        OBVIOUS
      <4> QED BY <4>1, <4>5, <4>6
    <3> HIDE DEF Q
    <3>3. j - 1 \in Q
      BY <1>2, <2>6, <3>1, <3>2, InductionOverNat
    <3>4. PICK e : e = f[j - 1]
      OBVIOUS
    <3>5. e = <<>> /\ e \in Seq(X)
      BY <1>4, <2>6, <3>3, <3>4 DEF Q
    <3>6. SubSeq(r, 1, a) = e
      BY <2>4, <2>10, <3>5
    <3>7. withoutRuns(e \o part) = withoutRuns(SubSeq(r, 1, b))
      BY <2>9, <3>5, <3>6
    <3> QED BY <2>3, <2>8, <3>4, <3>7
  <2>11. CASE m # 1 /\ isData(j - 1) /\ number(j - 1) = m0
    <3>1. PICK v : v = f[j - 1]
      OBVIOUS
    <3>2. v \in Seq(X)
      BY <1>4, <2>6, <3>1
    <3>3. withoutRuns(v) = withoutRuns(SubSeq(r, 1, a))
      BY <1>6, <2>4, <2>6, <2>11, <3>1
    <3>4. withoutRuns(v \o part) = withoutRuns(SubSeq(r, 1, b))
      BY <2>9, <3>2, <3>3
    <3> QED BY <2>3, <2>8, <3>1, <3>4
  <2>12. CASE /\ m # 1 /\ j > 2 /\ isData(j - 2) /\ number(j - 2) = m0
              /\ ~ isData(j - 1) /\ shown(j) # shown(j - 2)
    <3>1. PICK v, star : v = f[j - 2] /\ star = <<Star>>
      OBVIOUS
    <3>2. v \in Seq(X)
      BY <1>4, <2>6, <2>12, <3>1
    <3>3. withoutRuns(v) = withoutRuns(SubSeq(r, 1, a))
      BY <1>6, <2>4, <2>6, <2>12, <3>1
    <3>4. f[j - 1] = v \o star
      <4>1. ~ isHandshake(j - 1)
        <5>1. j - 2 \in 1 .. j - 1
          BY <1>2, <2>6, <2>12
        <5> QED BY <2>12, <5>1 DEF isData, isHandshake, isApplicationData
      <4>2. seen(transcript[j - 1]) = star
        BY <2>6, <2>12, <3>1, <4>1, SeenHandshake
      <4>3. (j - 1) - 1 = j - 2
        BY <1>2
      <4>4. f[j - 1] = f[(j - 1) - 1] \o seen(transcript[j - 1])
        BY <2>6
      <4> QED BY <3>1, <4>2, <4>3, <4>4
    <3>5. (a > 0 /\ r[a] = Star) \/ r[a + 1] = Star
      <4>1. m0 \in 1 .. count /\ m \in 1 .. count /\ a = sections[m0].to
        BY <1>1, <2>2, <2>4, <2>6, <2>12, SectionNumber
      <4>2. sections[m].reveal # sections[m0].reveal
        BY <2>12 DEF shown, number
      <4>3. \A k \in 1 .. Len(r) : isHidden(redactions, k) => r[k] = Star
        BY <1>1, <1>3, Redacted
      <4>4. CASE ~ sections[m].reveal
        <5>1. \A k \in a + 1 .. b : isHidden(redactions, k)
          BY <1>1, <2>3, <4>1, <4>4, SectionPlace
        <5>2. a + 1 \in a + 1 .. b /\ a + 1 \in 1 .. Len(r)
          BY <2>4
        <5> QED BY <4>3, <5>1, <5>2
      <4>5. CASE ~ sections[m0].reveal
        <5>1. /\ \A k \in sections[m0].from + 1 .. a : isHidden(redactions, k)
              /\ sections[m0].from \in 0 .. Len(data) /\ sections[m0].from < a
          BY <1>1, <4>1, <4>5, SectionPlace
        <5>2. a \in sections[m0].from + 1 .. a /\ a \in 1 .. Len(r) /\ a > 0
          BY <2>4, <5>1
        <5> QED BY <4>3, <5>1, <5>2
      <4>6. sections[m].reveal \in BOOLEAN /\ sections[m0].reveal \in BOOLEAN
        BY <1>1, <4>1, SectionPlace
      <4> QED BY <4>2, <4>4, <4>5, <4>6
    <3>6. withoutRuns((v \o <<Star>>) \o SubSeq(r, a + 1, b)) = withoutRuns(SubSeq(r, 1, b))
      BY <1>3, <2>4, <3>2, <3>3, <3>5, RunsOfUpdate
    <3> QED BY <2>3, <2>7, <2>8, <3>1, <3>4, <3>6
  <2> QED BY <2>5, <2>10, <2>11, <2>12
<1> HIDE DEF P
<1>7. Nat \subseteq P
  BY <1>5, <1>6, InductionOverNat
<1>8. number(i) \in Nat
  BY <1>1, <1>2, SectionNumber
<1> QED BY <1>1, <1>7, <1>8 DEF P

\* A request that was written whole reads as it does with its secrets redacted.
LEMMA ShapeIsSeen == Sections /\ Rest /\ Shape => WitnessSeesRequest
<1> SUFFICES ASSUME Sections, Shape, wasWritten, pc \in {"claiming", "claimed"}
             PROVE  withoutRuns(FlattenSeq(view)) = withoutRuns(redacted)
  BY DEF WitnessSeesRequest, redacted
<1>1. PICK f \in [0 .. Latest -> Seq(Readable)] :
        /\ f[0] = <<>> /\ FlattenSeq(view) = f[Latest]
        /\ \A i \in Sent : f[i] = f[i - 1] \o seen(transcript[i])
  BY ViewLoop
<1>2. PICK last, count : last = Latest /\ count = Len(sections)
  OBVIOUS
<1>3. next = count + 1 /\ count \in Nat \ {0} /\ last \in Nat
  BY <1>2, SomeSections DEF wasWritten
<1>4. isData(last) /\ number(last) = count /\ last \in Sent
  <2>1. next > Len(sections)
    BY DEF wasWritten
  <2>2. isData(last) /\ number(last) = next - 1 /\ last > 0
    BY <1>2, <2>1 DEF Shape, Position
  <2> QED BY <1>2, <1>3, <2>2 DEF Sent, Latest
<1>5. withoutRuns(f[last]) = withoutRuns(SubSeq(redacted, 1, sections[count].to))
  BY <1>1, <1>4, ViewUpTo
<1>6. sections[count].to = Len(redacted)
  <2>1. count \in 1 .. Len(sections)
    BY <1>2, <1>3
  <2> QED BY <1>2, <2>1, SectionPlace, Redacted
<1>7. SubSeq(redacted, 1, Len(redacted)) = redacted
  <2>1. PICK r : r = redacted
    OBVIOUS
  <2>2. r \in Seq(Readable)
    BY <2>1, Redacted
  <2>3. SubSeq(r, 1, Len(r)) = r
    BY <2>2, SubSeqFull
  <2> QED BY <2>1, <2>3
<1> QED BY <1>1, <1>2, <1>5, <1>6, <1>7

\* What the witness reads is the request, but for the lengths of what is hidden.
THEOREM WitnessSeesIt == Spec => []WitnessSeesRequest
BY ShapeInvariance, ShapeIsSeen, PTL

-----------------------------------------------------------------------------
(* Templates and what is redacted of them: matchRedactedStrings.            *)

Cursors(t, r) == [ts : 1 .. Len(t) + 1, rs : 1 .. Len(r) + 1]

closing(t, i) == {k \in i + 2 .. Len(t) : t[k] = Close}
afterTemplate(t, i) ==
  LET closes == closing(t, i) IN Min(closes \ {Min(closes)}) + 1
afterStars(r, j) == Min({k \in j + 1 .. Len(r) : r[k] # Star} \cup {Len(r) + 1})
opensTemplate(t, i) ==
  t[i] = Open /\ i < Len(t) /\ t[i + 1] = Open /\ Cardinality(closing(t, i)) > 1

\* One turn of the loop over the two strings.
Compare(t, r, at) ==
  CASE at.ts > Len(t) \/ at.rs > Len(r) -> at
    [] at.ts <= Len(t) /\ at.rs <= Len(r) /\ t[at.ts] = r[at.rs] ->
         [ts |-> at.ts + 1, rs |-> at.rs + 1]
    [] OTHER -> IF opensTemplate(t, at.ts) /\ r[at.rs] = Star
                THEN [ts |-> afterTemplate(t, at.ts), rs |-> afterStars(r, at.rs)]
                ELSE at

\* The least of some numbers.
LEMMA LeastOfNumbers ==
  ASSUME NEW S, S \subseteq Nat, S # {}
  PROVE  Min(S) \in S /\ \A y \in S : Min(S) <= y
<1>1. PICK P : P = S
  OBVIOUS
<1> DEFINE Q == {n \in Nat : \A m \in 0 .. n : m \notin S}
<1> SUFFICES ASSUME \A x \in S : \E y \in S : ~ (x <= y) PROVE FALSE
  BY DEF Min
<1>2. 0 \in Q
  <2> SUFFICES ASSUME 0 \in S PROVE FALSE
    OBVIOUS
  <2>1. PICK y \in S : ~ (0 <= y)
    OBVIOUS
  <2> QED BY <2>1
<1>3. \A n \in Nat : n \in Q => n + 1 \in Q
  <2> SUFFICES ASSUME NEW n \in Nat, n \in Q, n + 1 \in S PROVE FALSE
    OBVIOUS
  <2>1. PICK y \in S : ~ (n + 1 <= y)
    OBVIOUS
  <2>2. y \in 0 .. n
    BY <2>1
  <2> QED BY <2>2
<1>4. Nat \subseteq Q
  <2> HIDE DEF Q
  <2> QED BY <1>2, <1>3, InductionOverNat
<1>5. PICK x : x \in S
  OBVIOUS
<1>6. x \in Nat /\ x \in 0 .. x
  BY <1>5
<1> QED BY <1>4, <1>5, <1>6

\* A set with more than one element has one other than any of them.
LEMMA AnotherElement ==
  ASSUME NEW S, Cardinality(S) > 1, NEW x
  PROVE  S \ {x} # {}
<1> SUFFICES ASSUME S \ {x} = {} PROVE FALSE
  OBVIOUS
<1>1. CASE x \in S
  <2>1. S = {x}
    BY <1>1
  <2>2. Cardinality({x}) = 1
    BY FS_Singleton
  <2> QED BY <2>1, <2>2
<1>2. CASE x \notin S
  <2>1. S = {}
    BY <1>2
  <2>2. Cardinality({}) = 0
    BY FS_EmptySet
  <2> QED BY <2>1, <2>2
<1> QED BY <1>1, <1>2

\* A template ends behind its start.
LEMMA TemplateEnds ==
  ASSUME NEW X, NEW t \in Seq(X), NEW i \in 1 .. Len(t) + 1, opensTemplate(t, i)
  PROVE  afterTemplate(t, i) \in 1 .. Len(t) + 1
<1>1. PICK S, n : S = closing(t, i) /\ n = Len(t)
  OBVIOUS
<1>2. n \in Nat /\ S \subseteq i + 2 .. n /\ Cardinality(S) > 1
  BY <1>1 DEF closing, opensTemplate
<1>3. i \in Nat /\ i >= 1
  BY <1>1, <1>2
<1>4. PICK R : R = S \ {Min(S)}
  OBVIOUS
<1>5. R # {}
  BY <1>2, <1>4, AnotherElement
<1>6. R \subseteq Nat /\ R \subseteq i + 2 .. n
  <2>1. R \subseteq i + 2 .. n
    BY <1>2, <1>4
  <2>2. i + 2 .. n \subseteq Nat
    BY <1>2, <1>3
  <2> QED BY <2>1, <2>2
<1>7. Min(R) \in R
  BY <1>5, <1>6, LeastOfNumbers
<1>8. afterTemplate(t, i) = Min(R) + 1
  BY <1>1, <1>4 DEF afterTemplate
<1>9. PICK x : x = Min(R)
  OBVIOUS
<1>10. x \in i + 2 .. n
  BY <1>6, <1>7, <1>9
<1>11. x + 1 \in 1 .. n + 1
  BY <1>2, <1>10, <1>3
<1> QED BY <1>1, <1>8, <1>9, <1>11

\* Stars end behind the first of them.
LEMMA StarsEnd ==
  ASSUME NEW X, NEW r \in Seq(X), NEW j \in 1 .. Len(r)
  PROVE  afterStars(r, j) \in 1 .. Len(r) + 1
<1>1. PICK S, n : S = {k \in j + 1 .. Len(r) : r[k] # Star} \cup {Len(r) + 1} /\ n = Len(r)
  OBVIOUS
<1>2. n \in Nat /\ S \subseteq 1 .. n + 1 /\ n + 1 \in S
  BY <1>1
<1>3. S \subseteq Nat /\ S # {}
  BY <1>2
<1>4. Min(S) \in S
  BY <1>3, LeastOfNumbers
<1>5. afterStars(r, j) = Min(S)
  BY <1>1, Zenon DEF afterStars
<1> QED BY <1>1, <1>2, <1>4, <1>5

\* A turn moves the cursors, at most to the ends.
LEMMA CompareMoves ==
  ASSUME NEW X, NEW t \in Seq(X), NEW r \in Seq(X), NEW at \in Cursors(t, r)
  PROVE  Compare(t, r, at) \in Cursors(t, r)
<1>1. PICK i, j, n, m : i = at.ts /\ j = at.rs /\ n = Len(t) /\ m = Len(r)
  OBVIOUS
<1>2. n \in Nat /\ m \in Nat /\ i \in 1 .. n + 1 /\ j \in 1 .. m + 1
  BY <1>1 DEF Cursors
<1>3. CASE i > n \/ j > m
  <2>1. Compare(t, r, at) = at
    BY <1>1, <1>2, <1>3 DEF Compare
  <2> QED BY <2>1
<1>4. CASE i <= n /\ j <= m /\ t[i] = r[j]
  <2>1. Compare(t, r, at) = [ts |-> i + 1, rs |-> j + 1]
    BY <1>1, <1>2, <1>4 DEF Compare
  <2> QED BY <1>1, <1>2, <1>4, <2>1 DEF Cursors
<1>5. CASE i <= n /\ j <= m /\ t[i] # r[j]
  <2>1. Compare(t, r, at) = IF opensTemplate(t, i) /\ r[j] = Star
                            THEN [ts |-> afterTemplate(t, i), rs |-> afterStars(r, j)]
                            ELSE at
    BY <1>1, <1>2, <1>5 DEF Compare
  <2>2. CASE opensTemplate(t, i) /\ r[j] = Star
    <3>1. afterTemplate(t, i) \in 1 .. n + 1
      BY <1>1, <1>2, <2>2, TemplateEnds
    <3>2. afterStars(r, j) \in 1 .. m + 1
      BY <1>1, <1>2, <1>5, StarsEnd
    <3> QED BY <1>1, <2>1, <2>2, <3>1, <3>2 DEF Cursors
  <2> QED BY <2>1, <2>2
<1> QED BY <1>2, <1>3, <1>4, <1>5

FirstOf == [ts |-> 1, rs |-> 1]

\* matchRedactedStrings, as a loop.
LEMMA MatchLoop ==
  ASSUME NEW X, NEW t \in Seq(X), NEW r \in Seq(X)
  PROVE  \E f : /\ f[0] = FirstOf
                /\ \A n \in 1 .. Len(t) : f[n] = Compare(t, r, f[n - 1])
                /\ matchRedactedStrings(t, r) <=>
                     f[Len(t)] = [ts |-> Len(t) + 1, rs |-> Len(r) + 1]
<1>1. PICK C, turns : C = Cursors(t, r) /\ turns = Len(t)
  OBVIOUS
<1> DEFINE step == [a \in Nat \X C |-> Compare(t, r, a[2])]
           upTo[n \in 0 .. Len(t)] == IF n = 0 THEN FirstOf ELSE Compare(t, r, upTo[n - 1])
<1>2. turns \in Nat /\ FirstOf \in C
  BY <1>1 DEF FirstOf, Cursors
<1>3. step \in [Nat \X C -> C]
  BY <1>1, CompareMoves
<1>4. \A n \in Nat, at \in C : step[<<n, at>>] = Compare(t, r, at)
  OBVIOUS
<1> HIDE DEF step
<1>5. PICK f : IsLoop(f, C, step, FirstOf, turns)
  BY <1>2, <1>3, LoopExists
<1>6. /\ f \in [0 .. turns -> C] /\ f[0] = FirstOf
      /\ \A n \in 1 .. turns : f[n] = step[<<n, f[n - 1]>>]
  BY <1>5 DEF IsLoop
<1>7. ASSUME NEW n \in 1 .. turns PROVE f[n] = Compare(t, r, f[n - 1])
  <2>1. n \in Nat /\ n - 1 \in 0 .. turns
    BY <1>2
  <2>2. f[n - 1] \in C
    BY <1>6, <2>1
  <2> QED BY <1>4, <1>6, <2>1, <2>2
<1>8. f = [n \in 0 .. turns |-> IF n = 0 THEN FirstOf ELSE Compare(t, r, f[n - 1])]
  <2>1. ASSUME NEW n \in 0 .. turns
        PROVE  f[n] = IF n = 0 THEN FirstOf ELSE Compare(t, r, f[n - 1])
    <3>1. n # 0 => n \in 1 .. turns
      BY <1>2
    <3> QED BY <1>6, <1>7, <3>1
  <2> QED BY <1>6, <2>1
<1>9. matchRedactedStrings(t, r) <=> upTo[Len(t)] = [ts |-> Len(t) + 1, rs |-> Len(r) + 1]
  BY DEF matchRedactedStrings, Compare, FirstOf, closing, afterTemplate, afterStars, opensTemplate
<1>10. upTo = [n \in 0 .. Len(t) |-> IF n = 0 THEN FirstOf ELSE Compare(t, r, upTo[n - 1])]
  BY <1>1, <1>8
<1> HIDE DEF upTo
<1>11. /\ upTo[0] = FirstOf
       /\ \A n \in 1 .. Len(t) : upTo[n] = Compare(t, r, upTo[n - 1])
  <2>1. 0 \in 0 .. Len(t) /\ \A n \in 1 .. Len(t) : n \in 0 .. Len(t) /\ n # 0
    BY <1>1, <1>2
  <2> QED BY <1>10, <2>1
<1> QED BY <1>9, <1>11

\* A text matches itself.
LEMMA MatchesItself ==
  ASSUME NEW X, NEW t \in Seq(X)
  PROVE  matchRedactedStrings(t, t)
<1>1. PICK length : length = Len(t)
  OBVIOUS
<1>2. length \in Nat
  BY <1>1
<1>3. PICK f : /\ f[0] = FirstOf
               /\ \A n \in 1 .. length : f[n] = Compare(t, t, f[n - 1])
               /\ matchRedactedStrings(t, t) <=> f[length] = [ts |-> length + 1, rs |-> length + 1]
  BY <1>1, MatchLoop
<1> DEFINE P == {n \in Nat : n <= length => f[n] = [ts |-> n + 1, rs |-> n + 1]}
<1>4. 0 \in P
  BY <1>3 DEF FirstOf
<1>5. \A n \in Nat : n \in P => n + 1 \in P
  <2> SUFFICES ASSUME NEW n \in Nat, n \in P, n + 1 <= length
               PROVE  f[n + 1] = [ts |-> (n + 1) + 1, rs |-> (n + 1) + 1]
    OBVIOUS
  <2>1. PICK at : at = [ts |-> n + 1, rs |-> n + 1]
    OBVIOUS
  <2>2. f[n] = at /\ at.ts = n + 1 /\ at.rs = n + 1
    BY <1>2, <2>1
  <2>3. f[n + 1] = Compare(t, t, at)
    <3>1. n + 1 \in 1 .. length /\ (n + 1) - 1 = n
      BY <1>2
    <3> QED BY <1>3, <2>2, <3>1
  <2>4. ~ (n + 1 > length) /\ n + 1 <= length
    BY <1>2
  <2>5. Compare(t, t, at) = [ts |-> at.ts + 1, rs |-> at.rs + 1]
    BY <1>1, <2>2, <2>4 DEF Compare
  <2> QED BY <2>2, <2>3, <2>5
<1>6. length \in P
  <2> HIDE DEF P
  <2> QED BY <1>2, <1>4, <1>5, InductionOverNat
<1> QED BY <1>2, <1>3, <1>6

\* Stars alone match no text but one that may be stars.
LEMMA StarsDoNotMatch ==
  ASSUME NEW X, NEW t \in Seq(X), NEW r \in Seq(X), ~ mayBeStars(t),
         r # <<>> => r[1] = Star
  PROVE  ~ matchRedactedStrings(t, r)
<1>1. PICK length : length = Len(t)
  OBVIOUS
<1>2. /\ length \in Nat \ {0} /\ t[1] # Star
      /\ ~ (length > 1 /\ t[1] = Open /\ t[2] = Open)
  BY <1>1 DEF mayBeStars
<1>3. PICK f : /\ f[0] = FirstOf
               /\ \A n \in 1 .. length : f[n] = Compare(t, r, f[n - 1])
               /\ matchRedactedStrings(t, r) <=> f[length] = [ts |-> length + 1, rs |-> Len(r) + 1]
  BY <1>1, MatchLoop
<1>4. Compare(t, r, FirstOf) = FirstOf
  <2>1. FirstOf.ts = 1 /\ FirstOf.rs = 1
    BY DEF FirstOf
  <2>2. CASE 1 > Len(r)
    BY <2>1, <2>2 DEF Compare
  <2>3. CASE ~ (1 > Len(r))
    <3>1. ~ (1 > length) /\ 1 + 1 = 2
      BY <1>2
    <3>2. r[1] = Star
      BY <2>3
    <3>3. ~ opensTemplate(t, 1)
      BY <1>1, <1>2, <3>1 DEF opensTemplate
    <3> QED BY <1>1, <1>2, <2>1, <2>3, <3>1, <3>2, <3>3 DEF Compare
  <2> QED BY <2>2, <2>3
<1> DEFINE P == {n \in Nat : n <= length => f[n] = FirstOf}
<1>5. 0 \in P
  BY <1>3
<1>6. \A n \in Nat : n \in P => n + 1 \in P
  <2> SUFFICES ASSUME NEW n \in Nat, n \in P, n + 1 <= length PROVE f[n + 1] = FirstOf
    OBVIOUS
  <2>1. n + 1 \in 1 .. length /\ (n + 1) - 1 = n /\ n <= length
    BY <1>2
  <2> QED BY <1>3, <1>4, <2>1
<1>7. length \in P
  <2> HIDE DEF P
  <2> QED BY <1>2, <1>5, <1>6, InductionOverNat
<1>8. f[length] = FirstOf
  BY <1>2, <1>7
<1>9. FirstOf # [ts |-> length + 1, rs |-> Len(r) + 1]
  BY <1>2 DEF FirstOf
<1> QED BY <1>3, <1>8, <1>9

-----------------------------------------------------------------------------
(* The response, as the client and as the witness see it.                   *)

\* Responses that match the same values extract the same parameters.
LEMMA SameGroups ==
  ASSUME NEW X, NEW s \in Seq(X), NEW a, NEW b,
         \A k \in DOMAIN s : matched(a, s[k]) <=> matched(b, s[k])
  PROVE  groups(a, s) = groups(b, s)
<1>1. {k \in DOMAIN s : matched(a, s[k])} = {k \in DOMAIN s : matched(b, s[k])}
  OBVIOUS
<1> QED BY <1>1 DEF groups

\* A response is accepted if it matches what one that is accepted does.
LEMMA SameMatches ==
  ASSUME NEW r \in Requests, NEW a, NEW b, matchesResponse(a, r), b.isOk, ~ b.isOld,
         \A i \in DOMAIN r.matches : matched(a, r.matches[i]) <=> matched(b, r.matches[i])
  PROVE  matchesResponse(b, r)
<1>1. PICK s, X : s = r.matches /\ X = [value : STRING, invert : BOOLEAN, group : STRING]
  OBVIOUS
<1>2. s \in Seq(X) /\ DOMAIN s = 1 .. Len(s) /\ Len(s) \in Nat
  BY <1>1, RequestAssumption
<1>3. ASSUME NEW i \in DOMAIN s
      PROVE  groups(a, SubSeq(s, 1, i - 1)) = groups(b, SubSeq(s, 1, i - 1))
  <2>1. PICK e : e = SubSeq(s, 1, i - 1)
    OBVIOUS
  <2>2. /\ i \in 1 .. Len(s) /\ e \in Seq(X)
        /\ \A k \in DOMAIN e : k \in DOMAIN s /\ e[k] = s[k]
    BY <1>2, <2>1
  <2>3. \A k \in DOMAIN e : matched(a, e[k]) <=> matched(b, e[k])
    BY <1>1, <2>2, Zenon
  <2> QED BY <2>1, <2>2, <2>3, SameGroups
<1>4. ASSUME NEW i \in DOMAIN s
      PROVE  /\ matched(b, s[i]) # s[i].invert
             /\ matched(b, s[i]) =>
                  s[i].group \notin bodyParameters(r) \cup groups(b, SubSeq(s, 1, i - 1))
  <2>1. /\ matched(a, s[i]) # s[i].invert
        /\ matched(a, s[i]) =>
             s[i].group \notin bodyParameters(r) \cup groups(a, SubSeq(s, 1, i - 1))
    BY <1>1, <1>4, Zenon DEF matchesResponse
  <2>2. matched(a, s[i]) = matched(b, s[i])
    BY <1>1, <1>4 DEF matched
  <2> QED BY <1>3, <1>4, <2>1, <2>2, Zenon
<1> QED BY <1>1, <1>4, Zenon DEF matchesResponse

\* What the witness is shown of a response.
shownOf(answer, isOld) == [answer EXCEPT !.texts = answer.shown, !.isOld = isOld]

\* The fields of what the witness is shown.
LEMMA ShownFields ==
  ASSUME NEW answer \in Answers, NEW isOld
  PROVE  /\ shownOf(answer, isOld).isOk = answer.isOk
         /\ shownOf(answer, isOld).isOld = isOld
         /\ shownOf(answer, isOld).texts = answer.shown
BY AnswerAssumption DEF shownOf

\* The witness accepts a response that shows what has to match.
LEMMA ShownMatches ==
  ASSUME NEW r \in Requests, NEW answer \in Answers, matchesResponse(answer, r),
         NEW isOld, ~ isOld,
         \A i \in DOMAIN r.matches :
           r.matches[i].value \in answer.texts \ answer.shown => r.matches[i].invert
  PROVE  matchesResponse(shownOf(answer, isOld), r)
<1>1. PICK b : b = shownOf(answer, isOld)
  OBVIOUS
<1>2. b.isOk = answer.isOk /\ b.isOld = isOld /\ b.texts = answer.shown
  BY <1>1, ShownFields
<1>3. answer.shown \subseteq answer.texts
  BY AnswerAssumption
<1>4. ASSUME NEW i \in DOMAIN r.matches
      PROVE  matched(answer, r.matches[i]) <=> matched(b, r.matches[i])
  <2>1. PICK match : match = r.matches[i]
    OBVIOUS
  <2>2. match.invert \in BOOLEAN
    <3>1. PICK s, X : s = r.matches /\ X = [value : STRING, invert : BOOLEAN, group : STRING]
      OBVIOUS
    <3>2. s \in Seq(X)
      BY <3>1, RequestAssumption
    <3>3. i \in DOMAIN s /\ DOMAIN s = 1 .. Len(s)
      BY <1>4, <3>1, <3>2
    <3>4. s[i] \in X
      BY <3>2, <3>3
    <3> QED BY <2>1, <3>1, <3>4
  <2>3. matched(answer, match) # match.invert
    BY <1>4, <2>1, Zenon DEF matchesResponse
  <2>4. match.value \in answer.texts \ answer.shown => match.invert
    BY <1>4, <2>1
  <2>5. match.value \notin answer.texts \ answer.shown
    <3> SUFFICES ASSUME match.value \in answer.texts \ answer.shown PROVE FALSE
      OBVIOUS
    <3>1. match.invert = TRUE
      BY <2>2, <2>4
    <3>2. matched(answer, match) = TRUE
      BY DEF matched
    <3> QED BY <2>3, <3>1, <3>2
  <2> QED BY <1>2, <1>3, <2>1, <2>5 DEF matched
<1>5. b.isOk /\ ~ b.isOld
  BY <1>2, Zenon DEF matchesResponse
<1> QED BY <1>1, <1>4, <1>5, SameMatches

\* What the witness finds of the request and of the response it was sent.
isReceipt(isOld) == assertValidProviderReceipt(view, shownOf(response, isOld), request, FALSE)

\* A response that is claimed was accepted by the client, and the answer of the
\* witness is a claim exactly if it accepts what it sees.
Receipt ==
  /\ pc \in {"claiming", "claimed"} =>
       response \in Answers /\ matchesResponse(response, request)
  /\ pc # "claimed" => result = None
  /\ result # None =>
       (result.claim # None <=> ~ result.isAhead /\ isReceipt(result.isOld))

\* The groups of matches are strings.
LEMMA GroupsAreStrings ==
  ASSUME NEW r \in Requests, NEW answer
  PROVE  extractedParameters(answer, r) \in SUBSET (STRING \cup {"p"})
<1>1. PICK s, X : s = r.matches /\ X = [value : STRING, invert : BOOLEAN, group : STRING]
  OBVIOUS
<1>2. s \in Seq(X)
  BY <1>1, RequestAssumption
<1>3. \A i \in DOMAIN s : s[i].group \in STRING
  <2>1. DOMAIN s = 1 .. Len(s) /\ \A i \in 1 .. Len(s) : s[i] \in X
    BY <1>2
  <2> QED BY <1>1, <2>1
<1>4. groups(answer, s) \subseteq STRING
  <2>1. \A i \in {k \in DOMAIN s : matched(answer, s[k])} : s[i].group \in STRING
    BY <1>3
  <2>2. groups(answer, s) \subseteq
          {s[i].group : i \in {k \in DOMAIN s : matched(answer, s[k])}}
    BY DEF groups
  <2> QED BY <2>1, <2>2
<1>5. bodyParameters(r) \subseteq {"p"}
  <2>1. bodyParameters(r) = {"p"} \/ bodyParameters(r) = {}
    BY Zenon DEF bodyParameters
  <2> QED BY <2>1
<1> QED BY <1>1, <1>4, <1>5 DEF extractedParameters

\* What is signed is a claim.
LEMMA ClaimIsSomething ==
  ASSUME request \in Requests, NEW answer
  PROVE  newInfoOf(answer) # None /\ claimOf(newInfoOf(answer)) # None
<1> DEFINE Context == [extracted : SUBSET (STRING \cup {"p"}),
                       providerHash : {None} \cup {hashProviderParams(r) : r \in Requests}]
           Info == [parameters : Requests, context : Context]
           Claims == [parameters : Requests, context : Context, identifier : Info]
<1>1. None \notin Info /\ None \notin Claims
  BY NoneAssumption
<1>2. PICK extracted : extracted = extractedParameters(answer, request)
  OBVIOUS
<1>3. extracted \in SUBSET (STRING \cup {"p"})
  BY <1>2, GroupsAreStrings
<1>4. PICK context \in Context : newInfoOf(answer) = [parameters |-> request, context |-> context]
  <2>1. CASE extracted = {}
    <3>1. newInfoOf(answer) = info
      BY <1>2, <2>1 DEF newInfoOf
    <3>2. [extracted |-> {}, providerHash |-> None] \in Context
      OBVIOUS
    <3> HIDE DEF Context
    <3> QED BY <3>1, <3>2 DEF info
  <2>2. CASE extracted # {}
    <3>1. PICK context : context = [extracted |-> extracted,
                                    providerHash |-> hashProviderParams(request)]
      OBVIOUS
    <3>2. context \in Context
      BY <1>3, <3>1
    <3>3. newInfoOf(answer) = [info EXCEPT !.context = context]
      BY <1>2, <2>2, <3>1 DEF newInfoOf
    <3>4. newInfoOf(answer) = [parameters |-> request, context |-> context]
      BY <3>3 DEF info
    <3> HIDE DEF Context
    <3> QED BY <3>2, <3>4
  <2> QED BY <2>1, <2>2
<1> HIDE DEF Context
<1>5. newInfoOf(answer) \in Info
  BY <1>4
<1>6. claimOf(newInfoOf(answer)) \in Claims
  BY <1>4 DEF claimOf, getIdentifierFromClaimInfo
<1> QED BY <1>1, <1>5, <1>6

\* The packets read as before if nothing of them changes.
LEMMA SameView ==
  ASSUME UNCHANGED <<request, sections, transcript>>
  PROVE  view' = view
BY DEF view, seen, Bytes, data, redactions, isApplicationData

\* Each step keeps what is known of the answer.
LEMMA NextReceipt == Sections /\ Rest /\ Receipt /\ [Next]_vars => Receipt'
<1> SUFFICES ASSUME Sections, Rest, Receipt, [Next]_vars PROVE Receipt'
  OBVIOUS
<1>1. CASE Write \/ WriteUpdated \/ Mark \/ WriteFails \/ Written
  <2>1. pc \notin {"claiming", "claimed"} /\ pc' \notin {"claiming", "claimed"} /\ result' = result
    BY <1>1 DEF Write, WriteUpdated, Mark, WriteFails, Written
  <2> QED BY <2>1 DEF Receipt
<1>2. CASE AddReveals
  <2>1. /\ response' \in Answers /\ request' = request /\ result' = result
        /\ pc = "written" /\ pc' \in {"claiming", "failed"}
    BY <1>2 DEF AddReveals
  <2>2. ASSUME pc' = "claiming" PROVE matchesResponse(response', request)
    <3>1. PICK msgs : assertValidProviderReceipt(msgs, response', request, TRUE)
      BY <1>2, <2>2 DEF AddReveals
    <3> QED BY <3>1 DEF assertValidProviderReceipt
  <2>3. matchesResponse(response, request)' <=> matchesResponse(response', request)
    BY <2>1
  <2>4. pc # "claimed" /\ pc' # "claimed" /\ result = None
    BY <2>1 DEF Receipt
  <2> QED BY <2>1, <2>2, <2>3, <2>4 DEF Receipt
<1>3. CASE Claim
  <2>1. PICK isAhead \in BOOLEAN, isOld \in {TRUE, response.isOld} :
          LET newInfo == IF isAhead THEN None
                         ELSE assertValidClaimRequest(shownOf(response, isOld))
              claim == IF newInfo = None THEN None ELSE claimOf(newInfo)
          IN  result' = [claim |-> claim, isAhead |-> isAhead, isOld |-> isOld]
    BY <1>3 DEF Claim, shownOf
  <2>2. /\ pc = "claiming" /\ pc' = "claimed"
        /\ UNCHANGED <<request, sections, transcript, response>>
    BY <1>3 DEF Claim
  <2>3. view' = view
    BY <2>2, SameView
  <2>4. PICK b, new : b = shownOf(response, isOld) /\ new = newInfoOf(b)
    OBVIOUS
  <2>5. new # None /\ claimOf(new) # None
    BY <2>4, ClaimIsSomething DEF Sections
  <2>6. PICK valid : valid = assertValidProviderReceipt(view, b, request, FALSE)
    OBVIOUS
  <2>7. assertValidClaimRequest(b) = IF valid THEN new ELSE None
    BY <2>4, <2>6 DEF assertValidClaimRequest
  <2>8. /\ result'.isAhead = isAhead /\ result'.isOld = isOld
        /\ result'.claim # None <=> ~ isAhead /\ valid
    BY <2>1, <2>4, <2>5, <2>7
  <2>9. isReceipt(result.isOld)' <=> valid
    BY <2>2, <2>3, <2>4, <2>6, <2>8 DEF isReceipt, shownOf
  <2>10. matchesResponse(response, request)' <=> matchesResponse(response, request)
    BY <2>2
  <2> QED BY <2>2, <2>8, <2>9, <2>10 DEF Receipt
<1>4. CASE UNCHANGED vars
  <2>1. view' = view
    BY <1>4, SameView DEF vars
  <2> QED BY <1>4, <2>1 DEF vars, Receipt, isReceipt, shownOf
<1> QED BY <1>1, <1>2, <1>3, <1>4 DEF Next

-----------------------------------------------------------------------------
(* A request with no secret in its body.                                    *)

\* Nothing of its body is hidden.
LEMMA NothingHidden ==
  ASSUME NEW parts \in Seq(BodyPart), hasValues(parts, FALSE)
  PROVE  extractAndReplaceTemplateValues(parts).hiddenParts = <<>>
<1> DEFINE upTo[n \in 0 .. Len(parts)] ==
             IF n = 0 THEN NoneReplaced ELSE Replace(upTo[n - 1], parts[n])
<1>1. extractAndReplaceTemplateValues(parts) = upTo[Len(parts)]
  BY DEF extractAndReplaceTemplateValues, Replace, NoneReplaced
<1>2. upTo = [n \in 0 .. Len(parts) |->
                IF n = 0 THEN NoneReplaced ELSE Replace(upTo[n - 1], parts[n])]
  BY TemplateLoop
<1> HIDE DEF upTo
<1>3. /\ Len(parts) \in Nat
      /\ \A n \in 1 .. Len(parts) : parts[n] \in BodyPart /\ parts[n].kind # "secret"
  BY DEF hasValues
<1> DEFINE P == {n \in Nat : n <= Len(parts) =>
                   /\ upTo[n] \in Replaced /\ InPlace(upTo[n])
                   /\ upTo[n].hiddenParts = <<>>}
<1>4. 0 \in P
  <2>1. upTo[0] = NoneReplaced
    BY <1>2, <1>3
  <2>2. NoneReplaced \in Replaced /\ InPlace(NoneReplaced)
    BY DEF NoneReplaced, Replaced, InPlace, placeOf
  <2>3. NoneReplaced.hiddenParts = <<>>
    BY DEF NoneReplaced
  <2> QED BY <2>1, <2>2, <2>3
<1>5. \A n \in Nat : n \in P => n + 1 \in P
  <2> SUFFICES ASSUME NEW n \in Nat, n \in P, n + 1 <= Len(parts)
               PROVE  /\ upTo[n + 1] \in Replaced /\ InPlace(upTo[n + 1])
                      /\ upTo[n + 1].hiddenParts = <<>>
    OBVIOUS
  <2>1. PICK acc, part : acc = upTo[n] /\ part = parts[n + 1]
    OBVIOUS
  <2>2. n + 1 \in 1 .. Len(parts) /\ n + 1 # 0 /\ (n + 1) - 1 = n /\ n + 1 \in 0 .. Len(parts)
    BY <1>3
  <2>3. acc \in Replaced /\ InPlace(acc) /\ acc.hiddenParts = <<>>
    BY <1>3, <2>1, <2>2
  <2>4. part \in BodyPart /\ part.kind # "secret"
    BY <1>3, <2>1, <2>2
  <2>5. upTo[n + 1] = Replace(acc, part)
    BY <1>2, <2>1, <2>2
  <2> QED BY <2>3, <2>4, <2>5, ReplaceFields
<1>6. Len(parts) \in P
  <2> HIDE DEF P
  <2> QED BY <1>3, <1>4, <1>5, InductionOverNat
<1> QED BY <1>1, <1>3, <1>6

\* The bytes of the headers.
LEMMA HeaderBytes ==
  ASSUME NEW r, NEW secrets \in Nat, secrets = r.secrets
  PROVE  /\ headerStr(r)[1] = Top /\ headerStr(r)[secrets + 2] = Blank
         /\ \A k \in 2 .. secrets + 1 : headerStr(r)[k] = Secret
<1>1. PICK X, top, blank, byte : X = Byte /\ top = Top /\ blank = Blank /\ byte = Secret
  OBVIOUS
<1>2. top \in X /\ blank \in X /\ byte \in X
  BY ONLY <1>1 DEF Byte
<1>3. PICK h, a, b : h = [i \in 1 .. secrets |-> byte] /\ a = <<top>> /\ b = <<blank>>
  OBVIOUS
<1>4. h \in Seq(X) /\ Len(h) = secrets /\ \A i \in 1 .. secrets : h[i] = byte
  BY <1>2, <1>3
<1>5. a \in Seq(X) /\ b \in Seq(X) /\ Len(a) = 1 /\ Len(b) = 1 /\ a[1] = top /\ b[1] = blank
  BY <1>2, <1>3, OneElement
<1>6. PICK c : c = a \o h
  OBVIOUS
<1>7. /\ c \in Seq(X) /\ Len(c) = 1 + secrets /\ c[1] = top
      /\ \A k \in 2 .. secrets + 1 : c[k] = byte
  <2>1. /\ c \in Seq(X) /\ Len(c) = Len(a) + Len(h)
        /\ \A k \in 1 .. Len(a) : c[k] = a[k]
        /\ \A k \in Len(a) + 1 .. Len(c) : k - Len(a) \in 1 .. Len(h) /\ c[k] = h[k - Len(a)]
    <3>1. a \in Seq(X) /\ h \in Seq(X)
      BY <1>4, <1>5
    <3> QED BY ONLY <1>6, <3>1, Concatenation
  <2>2. \A k \in 2 .. secrets + 1 : c[k] = byte
    <3> SUFFICES ASSUME NEW k \in 2 .. secrets + 1 PROVE c[k] = byte
      OBVIOUS
    <3>1. k \in Len(a) + 1 .. Len(c)
      BY <1>4, <1>5, <2>1
    <3> QED BY <1>4, <2>1, <3>1
  <2> QED BY <1>4, <1>5, <2>1, <2>2
<1>8. PICK d : d = c \o b
  OBVIOUS
<1>9. /\ \A k \in 1 .. secrets + 1 : d[k] = c[k]
      /\ d[secrets + 2] = blank
  <2>1. /\ Len(d) = Len(c) + Len(b)
        /\ \A k \in 1 .. Len(c) : d[k] = c[k]
        /\ \A k \in Len(c) + 1 .. Len(d) : k - Len(c) \in 1 .. Len(b) /\ d[k] = b[k - Len(c)]
    <3>1. c \in Seq(X) /\ b \in Seq(X)
      BY <1>5, <1>7
    <3> QED BY ONLY <1>8, <3>1, Concatenation
  <2>2. secrets + 2 \in Len(c) + 1 .. Len(d) /\ secrets + 2 - Len(c) = 1
    <3>1. Len(c) = 1 + secrets /\ Len(d) = Len(c) + 1
      BY <1>5, <1>7, <2>1
    <3> QED BY ONLY <3>1, secrets \in Nat
  <2>3. d[secrets + 2] = b[1]
    BY <2>1, <2>2
  <2> QED BY <1>5, <1>7, <2>1, <2>3
<1>10. secHeadersStr(r) = h
  BY <1>1, <1>3 DEF secHeadersStr
<1>11. headerStr(r) = d
  BY <1>1, <1>3, <1>6, <1>8, <1>10 DEF headerStr
<1>12. 1 \in 1 .. secrets + 1 /\ \A k \in 2 .. secrets + 1 : k \in 1 .. secrets + 1
  OBVIOUS
<1> QED BY <1>1, <1>7, <1>9, <1>11, <1>12

bodyOf(r) == extractAndReplaceTemplateValues(r.body).newParam

\* What createRequest makes of it.
LEMMA PlainRequest ==
  ASSUME NEW r \in Requests, hasValues(r.body, FALSE)
  PROVE  /\ r.secrets \in Nat \ {0} /\ r.secretsLength \in 1 .. r.secrets
         /\ bodyOf(r) \in Seq(STRING)
         /\ createRequest(r).data = headerStr(r) \o bodyOf(r)
         /\ createRequest(r).redactions = <<Slice(1, 1 + r.secretsLength)>>
<1>1. PICK secrets, parts : secrets = r.secrets /\ parts = r.body
  OBVIOUS
<1>2. secrets \in Nat \ {0} /\ parts \in Seq(BodyPart) /\ secrets \in Nat
  BY <1>1, RequestAssumption, RequestParts
<1>3. PICK body : body = extractAndReplaceTemplateValues(parts)
  OBVIOUS
<1>4. body.newParam \in Seq(STRING)
  BY <1>2, <1>3, TemplateHides
<1>5. body.hiddenParts = <<>>
  BY <1>1, <1>2, <1>3, NothingHidden
<1>6. r.secretsLength \in 1 .. r.secrets
  BY RequestAssumption
<1>7. createRequest(r).data = headerStr(r) \o body.newParam
  BY <1>1, <1>3 DEF createRequest
<1>8. createRequest(r).redactions = <<Slice(1, 1 + r.secretsLength)>>
  <2> DEFINE Turn(n, x) == IF body.hiddenParts[n].length = 0 THEN x
                           ELSE Append(x, Slice(Len(headerStr(r)) + body.hiddenParts[n].index,
                                                Len(headerStr(r)) + body.hiddenParts[n].index
                                                  + body.hiddenParts[n].length))
             upTo[n \in 0 .. Len(body.hiddenParts)] ==
               IF n = 0 THEN <<Slice(1, 1 + r.secretsLength)>> ELSE Turn(n, upTo[n - 1])
  <2>1. createRequest(r).redactions = upTo[Len(body.hiddenParts)]
    BY <1>1, <1>3 DEF createRequest
  <2>2. \E f : f = [n \in 0 .. Len(body.hiddenParts) |->
                      IF n = 0 THEN <<Slice(1, 1 + r.secretsLength)>>
                      ELSE Turn(n, f[n - 1])]
    <3>1. PICK first, hidden : first = <<Slice(1, 1 + r.secretsLength)>>
                               /\ hidden = body.hiddenParts
      OBVIOUS
    <3>2. Len(hidden) = 0
      BY <1>5, <3>1
    <3> HIDE DEF Turn
    <3>3. PICK f : f = [n \in 0 .. 0 |-> first]
      OBVIOUS
    <3>4. f = [n \in 0 .. 0 |-> IF n = 0 THEN first ELSE Turn(n, f[n - 1])]
      BY <3>3
    <3> QED BY <3>1, <3>2, <3>4
  <2> HIDE DEF Turn
  <2>3. upTo = [n \in 0 .. Len(body.hiddenParts) |->
                  IF n = 0 THEN <<Slice(1, 1 + r.secretsLength)>>
                  ELSE Turn(n, upTo[n - 1])]
    BY <2>2
  <2> HIDE DEF upTo
  <2>4. Len(body.hiddenParts) = 0
    BY <1>5
  <2>5. upTo[0] = <<Slice(1, 1 + r.secretsLength)>>
    BY <2>3, <2>4
  <2> QED BY <2>1, <2>4, <2>5
<1> QED BY <1>1, <1>2, <1>3, <1>4, <1>6, <1>7, <1>8 DEF bodyOf

\* Two elements and one more.
LEMMA TwoElements ==
  ASSUME NEW X, NEW a \in X, NEW b \in X, NEW s, s = <<a>>, NEW u, u = <<b>>
  PROVE  s \o u = <<a, b>>
<1>1. PICK v, w : v = s \o u /\ w = <<a, b>>
  OBVIOUS
<1>2. s \in Seq(X) /\ u \in Seq(X) /\ Len(s) = 1 /\ Len(u) = 1 /\ s[1] = a /\ u[1] = b
  BY OneElement
<1>3. w \in Seq(X) /\ Len(w) = 2 /\ w[1] = a /\ w[2] = b
  BY <1>1
<1>4. /\ v \in Seq(X) /\ Len(v) = Len(s) + Len(u)
      /\ \A k \in 1 .. Len(s) : v[k] = s[k]
      /\ \A k \in Len(s) + 1 .. Len(v) : v[k] = u[k - Len(s)]
  BY <1>1, <1>2, Concatenation
<1>5. Len(v) = 2 /\ v[1] = a /\ v[2] = b
  <2>1. Len(v) = 2 /\ 1 \in 1 .. Len(s) /\ 2 \in Len(s) + 1 .. Len(v) /\ 2 - Len(s) = 1
    BY <1>2, <1>4
  <2> QED BY <1>2, <1>4, <2>1
<1>6. \A i \in 1 .. 2 : v[i] = w[i]
  <2>1. \A i \in 1 .. 2 : i = 1 \/ i = 2
    OBVIOUS
  <2> QED BY <1>3, <1>5, <2>1
<1> QED BY <1>1, <1>3, <1>4, <1>5, <1>6, SeqEqual

\* One element, as a function.
LEMMA OneMapped ==
  ASSUME NEW X, NEW a \in X, NEW p, p = [i \in 1 .. 1 |-> a]
  PROVE  p \in Seq(X) /\ Len(p) = 1 /\ p[1] = a
OBVIOUS

\* And another one.
LEMMA ThreeElements ==
  ASSUME NEW X, NEW a \in X, NEW b \in X, NEW c \in X, NEW s, s = <<a, b>>, NEW u, u = <<c>>
  PROVE  s \o u = <<a, b, c>>
<1>1. PICK v, w : v = s \o u /\ w = <<a, b, c>>
  OBVIOUS
<1>2. s \in Seq(X) /\ Len(s) = 2 /\ s[1] = a /\ s[2] = b
  OBVIOUS
<1>3. u \in Seq(X) /\ Len(u) = 1 /\ u[1] = c
  BY OneElement
<1>4. w \in Seq(X) /\ Len(w) = 3 /\ w[1] = a /\ w[2] = b /\ w[3] = c
  BY <1>1
<1>5. /\ v \in Seq(X) /\ Len(v) = Len(s) + Len(u)
      /\ \A k \in 1 .. Len(s) : v[k] = s[k]
      /\ \A k \in Len(s) + 1 .. Len(v) : v[k] = u[k - Len(s)]
  BY <1>1, <1>2, <1>3, Concatenation
<1>6. Len(v) = 3 /\ v[1] = a /\ v[2] = b /\ v[3] = c
  <2>1. /\ Len(v) = 3 /\ 1 \in 1 .. Len(s) /\ 2 \in 1 .. Len(s)
        /\ 3 \in Len(s) + 1 .. Len(v) /\ 3 - Len(s) = 1
    BY <1>2, <1>3, <1>5
  <2> QED BY <1>2, <1>3, <1>5, <2>1
<1>7. \A i \in 1 .. 3 : v[i] = w[i]
  <2>1. \A i \in 1 .. 3 : i = 1 \/ i = 2 \/ i = 3
    OBVIOUS
  <2> QED BY <1>4, <1>6, <2>1
<1> QED BY <1>1, <1>4, <1>5, <1>6, <1>7, SeqEqual

\* The bytes of its headers and of its body, and those that are hidden.
IsPlain(secrets, units, t, d, slices) ==
  /\ secrets \in Nat \ {0} /\ units \in 1 .. secrets /\ t \in Seq(Byte) /\ d \in Seq(Byte)
  /\ Len(d) = secrets + 2 + Len(t)
  /\ d[1] = Top /\ d[secrets + 2] = Blank
  /\ \A k \in 2 .. secrets + 1 : d[k] = Secret
  /\ SubSeq(d, secrets + 3, Len(d)) = t
  /\ \A k \in 1 .. Len(d) : isHidden(slices, k) <=> k \in 2 .. units + 1

\* Its body is what follows the headers, and only bytes of secret headers are hidden.
LEMMA PlainData ==
  ASSUME NEW r \in Requests, hasValues(r.body, FALSE)
  PROVE  IsPlain(r.secrets, r.secretsLength, bodyOf(r), createRequest(r).data,
                 createRequest(r).redactions)
<1>1. PICK secrets, units, t, d :
        secrets = r.secrets /\ units = r.secretsLength /\ t = bodyOf(r) /\ d = createRequest(r).data
  OBVIOUS
<1>2. /\ secrets \in Nat \ {0} /\ units \in 1 .. secrets /\ t \in Seq(STRING) /\ d = headerStr(r) \o t
      /\ createRequest(r).redactions = <<Slice(1, 1 + units)>>
  BY <1>1, PlainRequest
<1>3. PICK X, h : X = Byte /\ h = headerStr(r)
  OBVIOUS
<1>4. secrets \in Nat
  BY <1>2
<1>5. /\ h \in Seq(X) /\ Len(h) = secrets + 2
      /\ h[1] = Top /\ h[secrets + 2] = Blank /\ \A k \in 2 .. secrets + 1 : h[k] = Secret
  <2>1. h \in Seq(X) /\ Len(h) = secrets + 2
    BY <1>1, <1>3, <1>4, HeaderLength
  <2>2. h[1] = Top /\ h[secrets + 2] = Blank /\ \A k \in 2 .. secrets + 1 : h[k] = Secret
    BY <1>1, <1>3, <1>4, HeaderBytes
  <2> QED BY <2>1, <2>2
<1>6. t \in Seq(X)
  <2>1. PICK S : S = STRING
    OBVIOUS
  <2>2. S \subseteq X /\ t \in Seq(S)
    BY <1>2, <1>3, <2>1 DEF Byte
  <2> QED BY <2>2, SubsetOfSequences
<1>7. /\ d \in Seq(X) /\ Len(d) = Len(h) + Len(t) /\ Len(t) \in Nat
      /\ \A k \in 1 .. Len(h) : d[k] = h[k]
      /\ \A k \in Len(h) + 1 .. Len(d) : k - Len(h) \in 1 .. Len(t) /\ d[k] = t[k - Len(h)]
  <2>1. d = h \o t
    BY <1>2, <1>3
  <2>2. h \in Seq(X)
    BY <1>5
  <2> QED BY ONLY <1>6, <2>1, <2>2, Concatenation
<1>8. /\ d[1] = Top /\ d[secrets + 2] = Blank
      /\ \A k \in 2 .. secrets + 1 : d[k] = Secret
  <2>1. /\ 1 \in 1 .. Len(h) /\ secrets + 2 \in 1 .. Len(h)
        /\ \A k \in 2 .. secrets + 1 : k \in 1 .. Len(h)
    BY <1>4, <1>5
  <2> QED BY <1>5, <1>7, <2>1
<1>9. SubSeq(d, secrets + 3, Len(d)) = t
  <2>1. PICK p, n : p = SubSeq(d, secrets + 3, Len(d)) /\ n = Len(t)
    OBVIOUS
  <2>2. Len(d) = secrets + 2 + n /\ n \in Nat
    BY <1>5, <1>7, <2>1
  <2>3. Len(p) = n /\ p \in Seq(X) /\ \A k \in 1 .. n : p[k] = d[secrets + 2 + k]
    <3>1. PICK i, j : i = secrets + 3 /\ j = Len(d)
      OBVIOUS
    <3>2. i \in Nat /\ i >= 1 /\ j \in Nat /\ j - i + 1 = n /\ i <= j + 1
      BY <1>4, <2>2, <3>1
    <3>3. /\ SubSeq(d, i, j) \in Seq(X) /\ Len(SubSeq(d, i, j)) = n
          /\ \A k \in 1 .. n : SubSeq(d, i, j)[k] = d[i + k - 1]
      <4>1. \A k \in i .. j : d[k] \in X
        BY <1>7, <3>1, <3>2
      <4>2. /\ SubSeq(d, i, j) \in Seq(X)
            /\ Len(SubSeq(d, i, j)) = IF i <= j THEN j - i + 1 ELSE 0
            /\ \A k \in 1 .. j - i + 1 : SubSeq(d, i, j)[k] = d[i + k - 1]
        BY <3>2, <4>1, SubSeqProperties
      <4> QED BY <2>2, <3>2, <4>2
    <3>4. \A k \in 1 .. n : i + k - 1 = secrets + 2 + k
      BY <1>4, <3>1
    <3> QED BY <2>1, <3>1, <3>3, <3>4
  <2>4. \A k \in 1 .. n : p[k] = t[k]
    <3> SUFFICES ASSUME NEW k \in 1 .. n PROVE p[k] = t[k]
      OBVIOUS
    <3>1. secrets + 2 + k \in Len(h) + 1 .. Len(d) /\ (secrets + 2 + k) - Len(h) = k
      BY <1>4, <1>5, <2>2
    <3> QED BY <1>7, <2>3, <3>1
  <2> QED BY <1>6, <2>1, <2>3, <2>4, SeqEqual
<1>10. ASSUME NEW k \in 1 .. Len(d)
      PROVE  isHidden(createRequest(r).redactions, k) <=> k \in 2 .. units + 1
  <2>1. PICK slice, slices : slice = Slice(1, 1 + units) /\ slices = <<slice>>
    OBVIOUS
  <2>2. slices = createRequest(r).redactions /\ Len(slices) = 1 /\ slices[1] = slice
    BY <1>2, <2>1
  <2>3. slice.fromIndex = 1 /\ slice.toIndex = 1 + units
    BY <2>1 DEF Slice
  <2>4. isHidden(slices, k) <=> 1 < k /\ k <= 1 + units
    BY <2>2, <2>3 DEF isHidden, isIn
  <2> QED BY <1>2, <1>4, <2>2, <2>4
<1>11. Len(d) = secrets + 2 + Len(t)
  BY <1>5, <1>7
<1> QED BY <1>1, <1>2, <1>3, <1>6, <1>7, <1>8, <1>9, <1>10, <1>11 DEF IsPlain

\* It is written in three sections, or in one.
LEMMA PlainSections ==
  ASSUME NEW r \in Requests, hasValues(r.body, FALSE),
         NEW units, units = r.secretsLength, NEW length, length = Len(createRequest(r).data)
  PROVE  /\ sectionsOf(r) = <<Section(0, 1, TRUE), Section(1, 1 + units, FALSE),
                              Section(1 + units, length, TRUE)>>
         /\ wholeOf(r) = <<Section(0, length, TRUE)>>
<1>1. units \in Nat \ {0} /\ length \in Nat /\ units + 1 < length
  <2>1. PICK t, X, d : t = bodyOf(r) /\ X = Byte /\ d = createRequest(r).data
    OBVIOUS
  <2>2. PICK secrets : /\ t \in Seq(X) /\ secrets \in Nat \ {0} /\ units \in 1 .. secrets
                       /\ length = secrets + 2 + Len(t)
    <3>1. IsPlain(r.secrets, units, t, d, createRequest(r).redactions)
      BY <2>1, PlainData
    <3> QED BY <2>1, <3>1 DEF IsPlain
  <2>3. Len(t) \in Nat
    BY <2>2
  <2> QED BY <2>2, <2>3
<1>2. PICK a, b, c, top : a = Section(0, 1, TRUE) /\ b = Section(1, 1 + units, FALSE)
                          /\ c = Section(1 + units, length, TRUE) /\ top = <<a>>
  OBVIOUS
<1>3. PICK slices, slice : slices = createRequest(r).redactions /\ slice = Slice(1, 1 + units)
  OBVIOUS
<1>4. slices = <<slice>> /\ slice.fromIndex = 1 /\ slice.toIndex = 1 + units
  BY <1>3, PlainRequest DEF Slice
<1>5. Len(slices) = 1 /\ slices[1] = slice
  BY <1>4
<1>6. endOf(slices, 0) = 0 /\ endOf(slices, 1) = 1 + units
  BY <1>4, <1>5 DEF endOf
<1>7. Block(0, 1) = top /\ Block(1 + units, length) = <<c>>
  <2>1. 1 + units < length /\ 0 < 1
    BY <1>1
  <2>2. Block(0, 1) = <<Section(0, 1, TRUE)>>
    BY <2>1, Zenon DEF Block
  <2>3. Block(1 + units, length) = <<Section(1 + units, length, TRUE)>>
    BY <2>1, Zenon DEF Block
  <2> QED BY <1>2, <2>2, <2>3
<1>8. sectionsAt(slices, 1) = <<a, b>>
  <2>1. sectionsAt(slices, 1) = top \o <<b>>
    <3>1. 1 - 1 = 0
      OBVIOUS
    <3>2. sectionsAt(slices, 1) =
            Block(endOf(slices, 0), slices[1].fromIndex)
              \o <<Section(slices[1].fromIndex, endOf(slices, 1), FALSE)>>
      BY <3>1 DEF sectionsAt
    <3> QED BY <1>2, <1>4, <1>5, <1>6, <1>7, <3>2
  <2>2. PICK X, last : X = {a, b} /\ last = <<b>>
    OBVIOUS
  <2>3. top \o last = <<a, b>>
    <3>1. a \in X /\ b \in X
      BY <2>2
    <3>2. top = <<a>> /\ last = <<b>>
      BY <1>2, <2>2
    <3> QED BY ONLY <3>1, <3>2, TwoElements
  <2> QED BY <2>1, <2>2, <2>3
<1>9. PICK pieces, both : pieces = [i \in 1 .. 1 |-> sectionsAt(slices, i)] /\ both = <<a, b>>
  OBVIOUS
<1>10. FlattenSeq(pieces) = both
  <2>1. PICK X : X = {a, b}
    OBVIOUS
  <2>2. both \in Seq(X)
    BY <1>9, <2>1
  <2>3. pieces \in Seq(Seq(X)) /\ Len(pieces) = 1 /\ pieces[1] = both
    <3>1. pieces[1] = both /\ pieces = [i \in 1 .. 1 |-> both]
      BY <1>8, <1>9
    <3>2. PICK Y : Y = Seq(X)
      OBVIOUS
    <3>3. both \in Y
      BY <2>2, <3>2
    <3>4. pieces \in Seq(Y) /\ Len(pieces) = 1
      BY <3>1, <3>3, OneMapped
    <3> QED BY <3>1, <3>2, <3>4
  <2>4. PICK f \in [0 .. Len(pieces) -> Seq(X)] :
          /\ f[0] = <<>>
          /\ \A n \in 1 .. Len(pieces) : f[n] = f[n - 1] \o pieces[n]
          /\ FlattenSeq(pieces) = f[Len(pieces)]
    BY <2>3, Flattened
  <2>5. f[1] = f[0] \o both
    <3>1. 1 \in 1 .. Len(pieces) /\ 1 - 1 = 0
      BY <2>3
    <3> QED BY <2>3, <2>4, <3>1
  <2> QED BY <2>2, <2>3, <2>4, <2>5
<1>11. sectionsOf(r) = FlattenSeq(pieces) \o <<c>>
  <2>1. sectionsOf(r) = FlattenSeq([i \in 1 .. 1 |-> sectionsAt(slices, i)])
                          \o Block(1 + units, length)
    BY <1>3, <1>5, <1>6 DEF sectionsOf, sectionsAt, endOf
  <2> QED BY <1>7, <1>9, <2>1
<1>12. sectionsOf(r) = <<a, b, c>>
  <2>1. PICK X, last : X = {a, b, c} /\ last = <<c>>
    OBVIOUS
  <2>2. both \o last = <<a, b, c>>
    <3>1. a \in X /\ b \in X /\ c \in X
      BY <2>1
    <3> QED BY <1>9, <2>1, <3>1, ThreeElements
  <2> QED BY <1>10, <1>11, <2>1, <2>2
<1> QED BY <1>2, <1>12 DEF wholeOf

-----------------------------------------------------------------------------
(* What the witness reads before the last section: stars, and the first     *)
(* byte once.                                                               *)

TopFirst(s) ==
  /\ \A k \in 1 .. Len(s) : s[k] = Star \/ s[k] = Top
  /\ s # <<>> /\ s[1] = Top => \A k \in 2 .. Len(s) : s[k] = Star

\* Stars after stars.
LEMMA StarsOfStars ==
  ASSUME NEW X, NEW s \in Seq(X), NEW u \in Seq(X), Stars(s), Stars(u)
  PROVE  Stars(s \o u)
<1>1. PICK w : w = s \o u
  OBVIOUS
<1>2. /\ Len(w) = Len(s) + Len(u) /\ Len(s) \in Nat /\ Len(u) \in Nat
      /\ \A k \in 1 .. Len(s) : w[k] = s[k]
      /\ \A k \in Len(s) + 1 .. Len(w) : k - Len(s) \in 1 .. Len(u) /\ w[k] = u[k - Len(s)]
  BY <1>1, Concatenation
<1>3. ASSUME NEW k \in 1 .. Len(w) PROVE w[k] = Star
  <2>1. k \in 1 .. Len(s) \/ k \in Len(s) + 1 .. Len(w)
    BY <1>2
  <2> QED BY <1>2, <2>1 DEF Stars
<1> QED BY <1>1, <1>3 DEF Stars

\* Stars after a first byte.
LEMMA StarsAfterTop ==
  ASSUME NEW X, NEW s \in Seq(X), NEW u \in Seq(X), TopFirst(s), Stars(u)
  PROVE  TopFirst(s \o u)
<1>1. PICK w : w = s \o u
  OBVIOUS
<1>2. /\ Len(w) = Len(s) + Len(u) /\ Len(s) \in Nat /\ Len(u) \in Nat
      /\ \A k \in 1 .. Len(s) : w[k] = s[k]
      /\ \A k \in Len(s) + 1 .. Len(w) : k - Len(s) \in 1 .. Len(u) /\ w[k] = u[k - Len(s)]
  BY <1>1, Concatenation
<1>3. ASSUME NEW k \in Len(s) + 1 .. Len(w) PROVE w[k] = Star
  BY <1>2, <1>3 DEF Stars
<1>4. ASSUME NEW k \in 1 .. Len(w) PROVE k \in 1 .. Len(s) \/ k \in Len(s) + 1 .. Len(w)
  BY <1>2
<1>5. \A k \in 1 .. Len(w) : w[k] = Star \/ w[k] = Top
  BY <1>2, <1>3, <1>4 DEF TopFirst
<1>6. ASSUME w # <<>>, w[1] = Top, NEW k \in 2 .. Len(w) PROVE w[k] = Star
  <2>1. CASE Len(s) = 0
    <3>1. 1 \in Len(s) + 1 .. Len(w)
      BY <1>2, <1>6, <2>1
    <3> QED BY <1>3, <1>6, <3>1
  <2>2. CASE Len(s) # 0
    <3>1. s[1] = Top /\ s # <<>>
      <4>1. 1 \in 1 .. Len(s)
        BY <1>2, <2>2
      <4> QED BY <1>2, <1>6, <4>1
    <3>2. k \in 2 .. Len(s) \/ k \in Len(s) + 1 .. Len(w)
      BY <1>2, <1>6
    <3>3. k \in 2 .. Len(s) => w[k] = s[k] /\ s[k] = Star
      BY <1>2, <3>1 DEF TopFirst
    <3> QED BY <1>3, <3>2, <3>3
  <2> QED BY <2>1, <2>2
<1> QED BY <1>1, <1>5, <1>6 DEF TopFirst

\* A first byte after stars.
LEMMA TopAfterStars ==
  ASSUME NEW X, NEW s \in Seq(X), NEW u \in Seq(X), Stars(s), Len(u) = 1, u[1] = Top
  PROVE  TopFirst(s \o u)
<1>1. PICK w : w = s \o u
  OBVIOUS
<1>2. /\ Len(w) = Len(s) + 1 /\ Len(s) \in Nat
      /\ \A k \in 1 .. Len(s) : w[k] = s[k]
      /\ \A k \in Len(s) + 1 .. Len(w) : w[k] = u[k - Len(s)]
  <2>1. /\ Len(w) = Len(s) + Len(u) /\ Len(s) \in Nat /\ Len(u) \in Nat
        /\ \A k \in 1 .. Len(s) : w[k] = s[k]
        /\ \A k \in Len(s) + 1 .. Len(w) : k - Len(s) \in 1 .. Len(u) /\ w[k] = u[k - Len(s)]
    BY ONLY <1>1, s \in Seq(X), u \in Seq(X), Concatenation
  <2> QED BY <2>1
<1>3. w[Len(s) + 1] = Top
  <2>1. Len(s) + 1 \in Len(s) + 1 .. Len(w) /\ (Len(s) + 1) - Len(s) = 1
    BY <1>2
  <2> QED BY <1>2, <2>1
<1>4. \A k \in 1 .. Len(s) : w[k] = Star
  BY <1>2 DEF Stars
<1>5. \A k \in 1 .. Len(w) : w[k] = Star \/ w[k] = Top
  <2>1. \A k \in 1 .. Len(w) : k \in 1 .. Len(s) \/ k = Len(s) + 1
    BY <1>2
  <2> QED BY <1>3, <1>4, <2>1
<1>6. ASSUME w[1] = Top, NEW k \in 2 .. Len(w) PROVE w[k] = Star
  <2>1. CASE Len(s) = 0
    BY <1>2, <1>6, <2>1
  <2>2. CASE Len(s) # 0
    <3>1. w[1] = Star
      BY <1>2, <1>4, <2>2
    <3> QED BY <1>6, <3>1 DEF Star, Top
  <2> QED BY <2>1, <2>2
<1> QED BY <1>1, <1>5, <1>6 DEF TopFirst

\* The same of several strings.
LEMMA TopOnce ==
  ASSUME NEW X, NEW n \in Nat, NEW f \in [0 .. n -> Seq(X)], NEW v \in [1 .. n -> Seq(X)],
         f[0] = <<>>, \A i \in 1 .. n : f[i] = f[i - 1] \o v[i],
         \A i \in 1 .. n : \/ Stars(v[i])
                           \/ /\ Len(v[i]) = 1 /\ v[i][1] = Top
                              /\ \A j \in 1 .. i - 1 : Stars(v[j])
  PROVE  TopFirst(f[n])
<1> DEFINE Read(k) == TopFirst(f[k]) /\ ((\A j \in 1 .. k : Stars(v[j])) => Stars(f[k]))
           P == {k \in Nat : k <= n => Read(k)}
<1>1. 0 \in P
  BY DEF TopFirst, Stars
<1>2. ASSUME NEW k \in Nat, k \in P PROVE k + 1 \in P
  <2> SUFFICES ASSUME k + 1 <= n PROVE Read(k + 1)
    OBVIOUS
  <2>1. /\ k + 1 \in 1 .. n /\ (k + 1) - 1 = k /\ k \in 0 .. n /\ k <= n
        /\ \A j \in 1 .. k : j \in 1 .. k + 1
    OBVIOUS
  <2>2. PICK s, u : s = f[k] /\ u = v[k + 1]
    OBVIOUS
  <2>3. s \in Seq(X) /\ u \in Seq(X) /\ f[k + 1] = s \o u
    BY <2>1, <2>2
  <2>4. TopFirst(s) /\ ((\A j \in 1 .. k : Stars(v[j])) => Stars(s))
    BY <1>2, <2>1, <2>2
  <2>5. CASE Stars(u)
    <3>1. TopFirst(s \o u)
      BY <2>3, <2>4, <2>5, StarsAfterTop
    <3>2. Stars(s) => Stars(s \o u)
      BY <2>3, <2>5, StarsOfStars
    <3> QED BY <2>1, <2>3, <2>4, <3>1, <3>2
  <2>6. CASE ~ Stars(u)
    <3>1. Len(u) = 1 /\ u[1] = Top /\ \A j \in 1 .. k : Stars(v[j])
      BY <2>1, <2>2, <2>6
    <3>2. TopFirst(s \o u)
      BY <2>3, <2>4, <3>1, TopAfterStars
    <3>3. ~ \A j \in 1 .. k + 1 : Stars(v[j])
      BY <2>1, <2>2, <2>6
    <3> QED BY <2>3, <3>2, <3>3
  <2> QED BY <2>5, <2>6
<1>3. n \in P
  <2> HIDE DEF P
  <2> QED BY <1>1, <1>2, InductionOverNat
<1> QED BY <1>3

\* The three sections of a request with no secret in its body, or the one.
LEMMA PlainPlaces ==
  ASSUME Sections, hasValues(request.body, FALSE), NEW units, units = request.secretsLength
  PROVE  /\ units \in 1 .. request.secrets /\ request.secrets \in Nat \ {0}
         /\ redactionMode = "zk" => Len(sections) = 1
         /\ redactionMode # "zk" =>
              /\ Len(sections) = 3
              /\ sections[1].from = 0 /\ sections[1].to = 1
              /\ sections[2].from = 1 /\ sections[2].to = 1 + units
              /\ ~ sections[2].reveal
         /\ IsPlain(request.secrets, units, bodyOf(request), data, redactions)
<1>1. PICK length : length = Len(createRequest(request).data)
  OBVIOUS
<1>2. /\ sectionsOf(request) = <<Section(0, 1, TRUE), Section(1, 1 + units, FALSE),
                                 Section(1 + units, length, TRUE)>>
      /\ wholeOf(request) = <<Section(0, length, TRUE)>>
  BY <1>1, PlainSections DEF Sections
<1>3. redactionMode = "zk" => Len(sections) = 1
  BY <1>2 DEF Sections
<1>4. redactionMode # "zk" =>
        /\ Len(sections) = 3
        /\ sections[1] = Section(0, 1, TRUE) /\ sections[2] = Section(1, 1 + units, FALSE)
  BY <1>2 DEF Sections
<1>5. IsPlain(request.secrets, units, bodyOf(request), data, redactions)
  BY PlainData DEF Sections, data, redactions
<1>6. units \in 1 .. request.secrets /\ request.secrets \in Nat \ {0}
  BY <1>5, Zenon DEF IsPlain
<1> QED BY <1>3, <1>4, <1>5, <1>6 DEF Section

\* Before the last section the witness reads the first byte, or stars.
LEMMA SeenBefore ==
  ASSUME Inv, Sections, hasValues(request.body, FALSE),
         NEW i \in Sent, isData(i), number(i) < Len(sections),
         NEW v, v = seen(transcript[i])
  PROVE  Stars(v) \/ (number(i) = 1 /\ Len(v) = 1 /\ v[1] = Top)
<1>1. PICK secrets, units, X, r, d, star :
        /\ secrets = request.secrets /\ units = request.secretsLength /\ X = Readable
        /\ r = redacted /\ d = data /\ star = Star
  OBVIOUS
<1>2. /\ secrets \in Nat \ {0} /\ units \in 1 .. secrets
      /\ redactionMode = "zk" => Len(sections) = 1
      /\ redactionMode # "zk" =>
           /\ Len(sections) = 3
           /\ sections[1].from = 0 /\ sections[1].to = 1
           /\ sections[2].from = 1 /\ sections[2].to = 1 + units
           /\ ~ sections[2].reveal
      /\ IsPlain(secrets, units, bodyOf(request), d, redactions)
  BY <1>1, PlainPlaces
<1>3. number(i) \in 1 .. Len(sections)
  BY SectionNumber
<1>4. redactionMode # "zk" /\ (number(i) = 1 \/ number(i) = 2)
  <2>1. PICK m, count : m = number(i) /\ count = Len(sections)
    OBVIOUS
  <2>2. m \in 1 .. count /\ m < count
    BY <1>3, <2>1
  <2>3. CASE redactionMode = "zk"
    <3>1. count = 1
      BY <1>2, <2>1, <2>3
    <3> QED BY <2>2, <3>1
  <2>4. CASE redactionMode # "zk"
    <3>1. count = 3
      BY <1>2, <2>1, <2>4
    <3>2. m = 1 \/ m = 2
      BY ONLY <2>2, <3>1
    <3> QED BY <2>1, <2>4, <3>2
  <2> QED BY <2>3, <2>4
<1>5. /\ r \in Seq(X) /\ d \in Seq(X) /\ Len(r) = Len(d) /\ Len(d) \in Nat
      /\ \A k \in 1 .. Len(d) : r[k] = IF isHidden(redactions, k) THEN star ELSE d[k]
  BY <1>1, Redacted
<1>6. /\ d[1] = Top /\ Len(d) >= secrets + 2
      /\ \A k \in 1 .. Len(d) : isHidden(redactions, k) <=> k \in 2 .. units + 1
  <2>1. PICK t : t = bodyOf(request)
    OBVIOUS
  <2>2. t \in Seq(Byte) /\ Len(d) = secrets + 2 + Len(t)
    BY <1>2, <2>1 DEF IsPlain
  <2> QED BY <1>2, <2>2 DEF IsPlain
<1>7. PICK a, b, from, to : /\ a = sections[number(i)].from /\ b = sections[number(i)].to
                            /\ from = a + 1 /\ to = b
  OBVIOUS
<1>8. a \in 0 .. Len(d) /\ b \in 1 .. Len(d) /\ a < b
  <2>1. number(i) = 1 => a = 0 /\ b = 1
    BY <1>2, <1>4, <1>7
  <2>2. number(i) = 2 => a = 1 /\ b = 1 + units
    BY <1>2, <1>4, <1>7
  <2> QED BY <1>2, <1>4, <1>5, <1>6, <2>1, <2>2
<1>9. PICK p, q, s : /\ p = SubSeq(d, from, to) /\ q = SubSeq(r, from, to)
                     /\ s = [k \in DOMAIN p |-> star]
  OBVIOUS
<1>10. /\ Len(p) = b - a /\ p \in Seq(X) /\ \A k \in 1 .. b - a : p[k] = d[a + k]
       /\ Len(q) = b - a /\ q \in Seq(X)
       /\ \A k \in 1 .. b - a : q[k] = r[a + k] /\ a + k \in 1 .. Len(d)
  <2>1. p = SubSeq(d, a + 1, b) /\ q = SubSeq(r, a + 1, b)
    BY <1>7, <1>9
  <2> QED BY <1>5, <1>8, <2>1, PartOf
<1>11. Stars(s)
  <2>1. star \in X
    BY <1>1 DEF Readable
  <2>2. p \in Seq(X) /\ star = Star /\ s = [k \in DOMAIN p |-> star]
    BY <1>1, <1>9, <1>10
  <2> QED BY ONLY <2>1, <2>2, StarsOfAny
<1>12. /\ transcript[i].reveal = "none" => v = s
       /\ transcript[i].reveal = "complete" => v = p
       /\ transcript[i].reveal = "zk" => v = q
  <2>1. from = sections[number(i)].from + 1 /\ to = sections[number(i)].to
    BY <1>7
  <2> QED BY <1>1, <1>9, <2>1, SeenData
<1>13. transcript[i].reveal \in {"none", "complete", "zk"}
  BY PacketFields
<1>14. CASE number(i) = 1
  <2>1. a = 0 /\ b = 1 /\ 1 \in 1 .. b - a /\ b - a = 1
    BY <1>2, <1>4, <1>7, <1>14
  <2>2. Len(p) = 1 /\ p[1] = Top
    <3>1. p[1] = d[1] /\ Len(p) = 1
      BY <1>10, <2>1
    <3> QED BY <1>6, <3>1
  <2>3. Len(q) = 1 /\ q[1] = Top
    <3>1. ~ isHidden(redactions, 1) /\ 1 \in 1 .. Len(d)
      BY <1>2, <1>5, <1>6
    <3>2. q[1] = r[1] /\ r[1] = d[1] /\ Len(q) = 1
      BY <1>5, <1>10, <2>1, <3>1
    <3> QED BY <1>6, <3>2
  <2> QED BY <1>11, <1>12, <1>13, <1>14, <2>2, <2>3
<1>15. CASE number(i) = 2
  <2>1. a = 1 /\ b = 1 + units /\ ~ sections[2].reveal
    BY <1>2, <1>4, <1>7, <1>15
  <2>2. transcript[i].reveal # "complete"
    <3>1. ~ shown(i)
      BY <1>15, <2>1 DEF shown, number
    <3> QED BY <3>1 DEF Inv, Marks
  <2>3. Stars(q)
    <3>1. \A k \in 1 .. b - a : a + k \in 2 .. units + 1
      BY <1>2, <2>1
    <3>2. \A k \in 1 .. b - a : q[k] = star
      BY <1>5, <1>6, <1>10, <3>1
    <3> QED BY <1>1, <1>10, <3>2 DEF Stars
  <2> QED BY <1>11, <1>12, <1>13, <2>2, <2>3
<1> QED BY <1>4, <1>14, <1>15

\* Before the last section goes out, the first byte and stars.
LEMMA TopFirstBefore ==
  ASSUME Inv, Sections, Shape, hasValues(request.body, FALSE),
         NEW f \in [0 .. Latest -> Seq(Readable)], f[0] = <<>>,
         \A i \in Sent : f[i] = f[i - 1] \o seen(transcript[i]),
         NEW n \in 0 .. Latest,
         \A i \in Sent : i <= n /\ isData(i) => number(i) < Len(sections)
  PROVE  TopFirst(f[n])
<1>1. PICK X, last : X = Readable /\ last = Latest
  OBVIOUS
<1>2. last \in Nat /\ Sent = 1 .. last /\ n \in 0 .. last /\ n \in Nat
  BY <1>1, SomeSections DEF Sent, Latest
<1>3. PICK g, v : g = [k \in 0 .. n |-> f[k]] /\ v = [i \in 1 .. n |-> seen(transcript[i])]
  OBVIOUS
<1>4. \A k \in 0 .. n : k \in 0 .. last /\ g[k] = f[k]
  BY <1>2, <1>3
<1>5. \A i \in 1 .. n : i \in Sent /\ v[i] = seen(transcript[i]) /\ i - 1 \in 0 .. n /\ i \in 0 .. n
  BY <1>2, <1>3
<1>6. g \in [0 .. n -> Seq(X)]
  BY <1>1, <1>3, <1>4
<1>7. v \in [1 .. n -> Seq(X)]
  <2>1. \A i \in 1 .. n : seen(transcript[i]) \in Seq(X)
    BY <1>1, <1>5, SeenTyped
  <2> QED BY <1>3, <2>1
<1>8. g[0] = <<>> /\ \A i \in 1 .. n : g[i] = g[i - 1] \o v[i]
  <2>1. 0 \in 0 .. n
    BY <1>2
  <2> QED BY <1>4, <1>5, <2>1
<1>9. ASSUME NEW i \in 1 .. n, ~ isData(i) PROVE Stars(v[i])
  <2>1. v[i] = <<>> \/ v[i] = <<Star>>
    BY <1>5, <1>9, SeenOther
  <2>2. Stars(<<>>)
    BY DEF Stars
  <2>3. PICK one, star : star = Star /\ one = <<star>>
    OBVIOUS
  <2>4. Stars(one)
    <3>1. Len(one) = 1 /\ one[1] = star
      BY <2>3
    <3>2. \A k \in 1 .. Len(one) : one[k] = star
      BY <3>1
    <3> QED BY <2>3, <3>2 DEF Stars
  <2> QED BY <2>1, <2>2, <2>3, <2>4
<1>10. ASSUME NEW i \in 1 .. n
       PROVE  \/ Stars(v[i])
              \/ /\ Len(v[i]) = 1 /\ v[i][1] = Top
                 /\ \A j \in 1 .. i - 1 : Stars(v[j])
  <2>1. CASE isData(i)
    <3>1. i \in Sent /\ v[i] = seen(transcript[i])
      BY <1>5
    <3>2. i <= n
      BY <1>2
    <3>3. number(i) < Len(sections)
      BY <2>1, <3>1, <3>2
    <3>4. Stars(v[i]) \/ (number(i) = 1 /\ Len(v[i]) = 1 /\ v[i][1] = Top)
      BY <2>1, <3>1, <3>3, SeenBefore
    <3>5. number(i) = 1 => \A j \in 1 .. i - 1 : ~ isData(j)
      BY <2>1, <3>1 DEF Shape, Follows
    <3>6. \A j \in 1 .. i - 1 : j \in 1 .. n
      BY <1>2
    <3> QED BY <1>9, <3>4, <3>5, <3>6
  <2>2. CASE ~ isData(i)
    BY <1>9, <2>2
  <2> QED BY <2>1, <2>2
<1>11. TopFirst(g[n])
  BY ONLY <1>2, <1>6, <1>7, <1>8, <1>10, TopOnce
<1>12. n \in 0 .. n
  BY <1>2
<1> QED BY <1>4, <1>11, <1>12

\* A section goes out after those before it.
LEMMA SentInOrder ==
  ASSUME Sections, Shape, NEW i \in Sent, isData(i), NEW m \in 1 .. number(i)
  PROVE  \E j \in Sent : isData(j) /\ number(j) = m
<1>1. PICK last : last = number(i)
  OBVIOUS
<1>2. last \in Nat \ {0}
  <2>1. number(i) \in 1 .. Len(sections)
    BY SectionNumber
  <2> QED BY <1>1, <2>1, SomeSections
<1> DEFINE WasSent(k) == \E j \in Sent : isData(j) /\ number(j) = k
           P == {n \in Nat : n < last => WasSent(last - n)}
<1>3. 0 \in P
  <2>1. last - 0 = last
    BY <1>2
  <2> QED BY <1>1, <2>1
<1>4. ASSUME NEW n \in Nat, n \in P PROVE n + 1 \in P
  <2> SUFFICES ASSUME n + 1 < last PROVE WasSent(last - (n + 1))
    OBVIOUS
  <2>1. PICK k : k = last - n
    OBVIOUS
  <2>2. k - 1 = last - (n + 1) /\ k # 1 /\ n < last
    BY <1>2, <2>1
  <2>3. PICK j \in Sent : isData(j) /\ number(j) = k
    BY <1>4, <2>1, <2>2
  <2>4. /\ j > 1
        /\ \/ isData(j - 1) /\ number(j - 1) = k - 1
           \/ j > 2 /\ isData(j - 2) /\ number(j - 2) = k - 1
    BY <2>2, <2>3 DEF Shape, Follows
  <2>5. Latest \in Nat
    BY SomeSections
  <2>6. j - 1 \in Sent /\ (j > 2 => j - 2 \in Sent)
    BY <2>4, <2>5 DEF Sent, Latest
  <2>7. WasSent(k - 1)
    BY <2>4, <2>6
  <2> QED BY <2>2, <2>7
<1> HIDE DEF P
<1>5. Nat \subseteq P
  BY <1>3, <1>4, InductionOverNat
<1>6. last - m \in Nat /\ last - m < last /\ last - (last - m) = m
  BY <1>1, <1>2
<1> QED BY <1>5, <1>6 DEF P

\* Where lines are empty.
blanks(s) == {i \in DOMAIN s : s[i] = Blank}
afterBlank(s) == SubSeq(s, Min(blanks(s)) + 1, Len(s))

\* What the witness makes of the bytes that it reads.
LEMMA ReadRequest ==
  ASSUME NEW msgs, NEW buffer, buffer = FlattenSeq(msgs)
  PROVE  /\ getHttpRequestDataFromTranscript(msgs).isValid <=>
              msgs # <<>> /\ buffer # <<>> /\ buffer[1] = Top
         /\ blanks(buffer) = {} =>
              getHttpRequestDataFromTranscript(msgs).body = SubSeq(buffer, 2, Len(buffer))
         /\ blanks(buffer) # {} =>
              getHttpRequestDataFromTranscript(msgs).body = afterBlank(buffer)
BY DEF getHttpRequestDataFromTranscript, blanks, afterBlank

\* A first byte and stars are no body but stars.
LEMMA NoBlank ==
  ASSUME NEW X, NEW s \in Seq(X), TopFirst(s), s # <<>>, s[1] = Top,
         NEW b, b = SubSeq(s, 2, Len(s))
  PROVE  /\ blanks(s) = {}
         /\ b \in Seq(X) /\ (b # <<>> => b[1] = Star)
<1>1. DOMAIN s = 1 .. Len(s) /\ Len(s) \in Nat
  OBVIOUS
<1>2. Blank # Star /\ Blank # Top
  BY DEF Blank, Star, Top
<1>3. blanks(s) = {}
  BY <1>1, <1>2 DEF TopFirst, blanks
<1>4. /\ b \in Seq(X) /\ Len(b) = IF 2 <= Len(s) THEN Len(s) - 2 + 1 ELSE 0
      /\ \A k \in 1 .. Len(s) - 2 + 1 : b[k] = s[2 + k - 1]
  <2>1. 2 \in Int /\ Len(s) \in Int /\ \A k \in 2 .. Len(s) : s[k] \in X
    BY <1>1
  <2> QED BY ONLY <2>1, b = SubSeq(s, 2, Len(s)), SubSeqProperties
<1>5. ASSUME b # <<>> PROVE b[1] = Star
  <2>1. Len(b) # 0
    BY <1>4, <1>5
  <2>2. 2 <= Len(s) /\ 1 \in 1 .. Len(s) - 2 + 1 /\ 2 + 1 - 1 = 2 /\ 2 \in 2 .. Len(s)
    BY <1>1, <1>4, <2>1
  <2>3. b[1] = s[2]
    BY <1>4, <2>2
  <2> QED BY <2>2, <2>3 DEF TopFirst
<1> QED BY <1>3, <1>4, <1>5

\* What the witness claims was sent.
LEMMA ReceiptWasSent ==
  Inv /\ Sections /\ Shape /\ Receipt => ClaimedBodyWasSent
<1> SUFFICES ASSUME Inv, Sections, Shape, Receipt, result # None, result.claim # None,
                    ~ mayBeStars(bodyOf(request)), NEW m \in 1 .. Len(sections)
             PROVE  m \in {transcript[i].section : i \in DOMAIN transcript}
  BY DEF ClaimedBodyWasSent, bodyOf
<1>1. PICK t, r, X : /\ t = bodyOf(request) /\ X = Readable
                     /\ r = getHttpRequestDataFromTranscript(view).body
  OBVIOUS
<1>2. /\ hasValues(request.body, FALSE)
      /\ getHttpRequestDataFromTranscript(view).isValid
      /\ t # <<>> => matchRedactedStrings(t, r)
  <2>1. isReceipt(result.isOld)
    BY DEF Receipt
  <2> QED BY <1>1, <2>1 DEF isReceipt, assertValidProviderReceipt, bodyOf
<1>3. t # <<>> /\ t \in Seq(X) /\ ~ mayBeStars(t)
  <2>1. t \in Seq(STRING)
    BY <1>1, <1>2, PlainRequest DEF Sections
  <2>2. STRING \subseteq X
    BY <1>1 DEF Readable, Byte
  <2> QED BY <1>1, <2>1, <2>2, SubsetOfSequences DEF mayBeStars
<1>4. PICK f \in [0 .. Latest -> Seq(Readable)] :
        /\ f[0] = <<>> /\ FlattenSeq(view) = f[Latest]
        /\ \A i \in Sent : f[i] = f[i - 1] \o seen(transcript[i])
  BY ViewLoop
<1>5. PICK s : s = f[Latest]
  OBVIOUS
<1>6. Latest \in 0 .. Latest
  BY SomeSections
<1>7. s \in Seq(X) /\ s = FlattenSeq(view) /\ s # <<>> /\ s[1] = Top
  <2>1. s \in Seq(X) /\ s = FlattenSeq(view)
    BY <1>1, <1>4, <1>5, <1>6
  <2>2. getHttpRequestDataFromTranscript(view).isValid <=>
          view # <<>> /\ s # <<>> /\ s[1] = Top
    BY <2>1, ReadRequest
  <2> QED BY <1>2, <2>1, <2>2
<1>8. PICK count : count = Len(sections)
  OBVIOUS
<1>9. \E i \in Sent : isData(i) /\ number(i) = count
  <2> SUFFICES ASSUME \A i \in Sent : isData(i) => number(i) # count PROVE FALSE
    OBVIOUS
  <2>1. \A i \in Sent : i <= Latest /\ isData(i) => number(i) < Len(sections)
    <3> SUFFICES ASSUME NEW i \in Sent, isData(i) PROVE number(i) < Len(sections)
      OBVIOUS
    <3>1. number(i) \in 1 .. count /\ number(i) # count /\ count \in Nat
      BY <1>8, SectionNumber, SomeSections
    <3> QED BY <1>8, <3>1
  <2>2. TopFirst(s)
    BY <1>2, <1>4, <1>5, <1>6, <2>1, TopFirstBefore
  <2>3. PICK b : b = SubSeq(s, 2, Len(s))
    OBVIOUS
  <2>4. /\ blanks(s) = {}
        /\ b \in Seq(X) /\ (b # <<>> => b[1] = Star)
    BY <1>7, <2>2, <2>3, NoBlank
  <2>5. r = b
    BY <1>1, <1>7, <2>3, <2>4, ReadRequest
  <2>6. ~ matchRedactedStrings(t, b)
    BY <1>3, <2>4, StarsDoNotMatch
  <2> QED BY <1>2, <1>3, <2>5, <2>6
<1>10. PICK i \in Sent : isData(i) /\ number(i) = count
  BY <1>9
<1>11. PICK j \in Sent : isData(j) /\ number(j) = m
  <2>1. m \in 1 .. number(i)
    BY <1>8, <1>10
  <2> QED BY <1>10, <2>1, SentInOrder
<1>12. j \in DOMAIN transcript
  <2>1. PICK u, Y : u = transcript /\ Y = PacketOf(Len(sections), key)
    OBVIOUS
  <2>2. u \in Seq(Y)
    BY <2>1 DEF Sections
  <2> QED BY <2>1, <2>2 DEF Sent
<1> QED BY <1>11, <1>12 DEF number

\* The first byte is always kept.
LEMMA RunsKeepTheFirst ==
  ASSUME NEW X, NEW s \in Seq(X), s # <<>>
  PROVE  withoutRuns(s) # <<>> /\ withoutRuns(s)[1] = s[1]
<1>1. PICK n, w : n = Len(s) /\ w = withoutRuns(s)
  OBVIOUS
<1>2. n \in Nat /\ n # 0 /\ \A i \in 1 .. n : s[i] \in X
  BY <1>1
<1>3. PICK f \in [0 .. n -> Seq(X)] :
        /\ f[0] = <<>> /\ w = f[n]
        /\ \A i \in 1 .. n : f[i] = Collapse(s, i, f[i - 1])
  BY <1>1, RunsLoop
<1> DEFINE Kept(i) == f[i] # <<>> /\ f[i][1] = s[1]
           P == {i \in Nat : i \in 1 .. n => Kept(i)}
<1>4. 0 \in P
  OBVIOUS
<1>5. ASSUME NEW i \in Nat, i \in P PROVE i + 1 \in P
  <2> SUFFICES ASSUME i + 1 \in 1 .. n PROVE Kept(i + 1)
    OBVIOUS
  <2>1. PICK j, kept : j = i + 1 /\ kept = f[i]
    OBVIOUS
  <2>2. j \in 1 .. n /\ j - 1 = i /\ i \in 0 .. n /\ kept \in Seq(X)
    BY <1>2, <2>1
  <2>3. f[j] = Collapse(s, j, kept)
    BY <1>3, <2>1, <2>2
  <2>4. CASE Repeats(s, j)
    <3>1. i \in 1 .. n
      <4>1. j > 1
        BY <2>4 DEF Repeats
      <4> QED BY <2>2, <4>1
    <3>2. f[j] = kept
      BY <2>3, <2>4 DEF Collapse
    <3> QED BY <1>5, <2>1, <3>1, <3>2
  <2>5. CASE ~ Repeats(s, j)
    <3>1. PICK u, x : u = f[j] /\ x = s[j]
      OBVIOUS
    <3>2. u = Append(kept, x) /\ x \in X
      BY <1>2, <2>2, <2>3, <2>5, <3>1 DEF Collapse
    <3>3. /\ Len(u) = Len(kept) + 1 /\ u[Len(kept) + 1] = x /\ Len(kept) \in Nat
          /\ \A k \in 1 .. Len(kept) : u[k] = kept[k]
      BY <2>2, <3>2, Appended
    <3>4. u # <<>>
      BY <3>3
    <3>5. CASE i = 0
      <4>1. kept = <<>> /\ j = 1
        BY <1>3, <2>1, <3>5
      <4>2. u[1] = x
        BY <3>3, <4>1
      <4> QED BY <2>1, <3>1, <3>4, <4>1, <4>2
    <3>6. CASE i # 0
      <4>1. Kept(i)
        BY <1>5, <2>2, <3>6
      <4>2. 1 \in 1 .. Len(kept)
        BY <2>1, <2>2, <3>3, <4>1
      <4>3. u[1] = kept[1]
        BY <3>3, <4>2
      <4> QED BY <2>1, <3>1, <3>4, <4>1, <4>3
    <3> QED BY <3>5, <3>6
  <2> QED BY <2>4, <2>5
<1> HIDE DEF P
<1>6. n \in P
  BY <1>2, <1>4, <1>5, InductionOverNat
<1>7. Kept(n)
  BY <1>2, <1>6 DEF P
<1> QED BY <1>1, <1>3, <1>7

\* The least of some numbers, when it is known.
LEMMA LeastIs ==
  ASSUME NEW S, S \subseteq Nat, NEW a \in S, \A x \in S : a <= x
  PROVE  Min(S) = a
<1>1. \A y \in S : (\A x \in S : y <= x) => y = a
  <2> SUFFICES ASSUME NEW y \in S, \A x \in S : y <= x PROVE y = a
    OBVIOUS
  <2>1. y <= a /\ a <= y /\ y \in Nat /\ a \in Nat
    OBVIOUS
  <2> QED BY ONLY <2>1
<1> QED BY <1>1 DEF Min

\* The end of a string.
LEMMA EndOf ==
  ASSUME NEW X, NEW r \in Seq(X), NEW a \in 0 .. Len(r), NEW q, q = SubSeq(r, a + 1, Len(r))
  PROVE  /\ q \in Seq(X) /\ Len(q) = Len(r) - a
         /\ \A k \in 1 .. Len(r) - a : q[k] = r[a + k]
<1>1. PICK m : m = Len(r)
  OBVIOUS
<1>2. m \in Nat /\ a \in 0 .. m
  BY <1>1
<1>3. CASE a < m
  <2>1. m \in 1 .. Len(r) /\ q = SubSeq(r, a + 1, m)
    BY <1>1, <1>2, <1>3
  <2>2. q \in Seq(X) /\ Len(q) = m - a /\ \A k \in 1 .. m - a : q[k] = r[a + k]
    BY <1>3, <2>1, PartOf
  <2> QED BY <1>1, <2>2
<1>4. CASE a = m
  <2>1. q = <<>>
    BY <1>1, <1>2, <1>4
  <2>2. m - a = 0
    BY <1>2, <1>4
  <2> QED BY <1>1, <2>1, <2>2
<1> QED BY <1>2, <1>3, <1>4

Lacks(s, a, b) == \A k \in a .. b : s[k] # Blank

\* What is read is g and the bytes of r after from, with an empty line at a place
\* before which there is none.
EndsLines(X, g, r, from, place, s) ==
  /\ g \in Seq(X) /\ r \in Seq(X)
  /\ from \in 0 .. Len(r) /\ place \in from + 1 .. Len(r)
  /\ s = g \o SubSeq(r, from + 1, Len(r))
  /\ Lacks(g, 1, Len(g)) /\ Lacks(r, from + 1, place - 1)
  /\ r[place] = Blank

\* The bytes after the first empty line.
LEMMA BytesAfterBlank ==
  ASSUME NEW X, NEW g, NEW r, NEW from, NEW place, NEW s,
         EndsLines(X, g, r, from, place, s)
  PROVE  blanks(s) # {} /\ afterBlank(s) = SubSeq(r, place + 1, Len(r))
<1>1. PICK v : v = SubSeq(r, from + 1, Len(r))
  OBVIOUS
<1>2. /\ g \in Seq(X) /\ r \in Seq(X)
      /\ from \in 0 .. Len(r) /\ place \in from + 1 .. Len(r) /\ s = g \o v
      /\ Lacks(g, 1, Len(g)) /\ Lacks(r, from + 1, place - 1) /\ r[place] = Blank
  BY <1>1 DEF EndsLines
<1>3. PICK S : S = blanks(s)
  OBVIOUS
<1>4. PICK n, m : n = Len(g) /\ m = Len(r)
  OBVIOUS
<1>5. n \in Nat /\ m \in Nat /\ from \in Nat /\ place \in Nat /\ from < place /\ place <= m
  BY <1>2, <1>4
<1>6. /\ v \in Seq(X) /\ Len(v) = m - from
      /\ \A k \in 1 .. m - from : v[k] = r[from + k]
  <2>1. from \in 0 .. Len(r) /\ m \in 1 .. Len(r) /\ from < m /\ v = SubSeq(r, from + 1, m)
    BY <1>1, <1>2, <1>4, <1>5
  <2>2. r \in Seq(X)
    BY <1>2
  <2> QED BY ONLY <2>1, <2>2, PartOf
<1>7. /\ s \in Seq(X) /\ Len(s) = n + (m - from)
      /\ \A k \in 1 .. n : s[k] = g[k]
      /\ \A k \in n + 1 .. Len(s) : k - n \in 1 .. m - from /\ s[k] = v[k - n]
  <2>1. /\ s \in Seq(X) /\ Len(s) = Len(g) + Len(v)
        /\ \A k \in 1 .. Len(g) : s[k] = g[k]
        /\ \A k \in Len(g) + 1 .. Len(s) : k - Len(g) \in 1 .. Len(v) /\ s[k] = v[k - Len(g)]
    <3>1. g \in Seq(X) /\ v \in Seq(X)
      BY <1>2, <1>6
    <3>2. s = g \o v
      BY <1>2
    <3> QED BY ONLY <3>1, <3>2, Concatenation
  <2> QED BY <1>4, <1>6, <2>1
<1>8. \A k \in n + 1 .. Len(s) : s[k] = r[from + (k - n)]
  BY <1>6, <1>7
<1>9. PICK at : at = n + (place - from)
  OBVIOUS
<1>10. /\ at \in n + 1 .. Len(s) /\ at \in 1 .. Len(s) /\ from + (at - n) = place /\ at \in Nat
      /\ Len(s) \in Nat
  BY <1>5, <1>7, <1>9
<1>11. at \in S
  <2>1. s[at] = Blank
    BY <1>2, <1>8, <1>10
  <2> QED BY <1>3, <1>7, <1>10, <2>1 DEF blanks
<1>12. ASSUME NEW k \in S PROVE at <= k /\ k \in Nat
  <2>1. k \in 1 .. Len(s) /\ s[k] = Blank /\ k \in Nat
    BY <1>3, <1>7 DEF blanks
  <2>2. SUFFICES ASSUME k < at PROVE FALSE
    BY <1>10, <2>1
  <2>3. CASE k <= n
    <3>1. k \in 1 .. n /\ k \in 1 .. Len(g)
      BY <1>4, <1>5, <2>1, <2>3
    <3> QED BY <1>2, <1>7, <2>1, <3>1 DEF Lacks
  <2>4. CASE k > n
    <3>1. k \in n + 1 .. Len(s) /\ from + (k - n) \in from + 1 .. place - 1
      BY <1>5, <1>9, <2>1, <2>2, <2>4
    <3> QED BY <1>2, <1>8, <2>1, <3>1 DEF Lacks
  <2> QED BY <1>5, <2>1, <2>3, <2>4
<1>13. Min(S) = at
  BY <1>11, <1>12, LeastIs
<1>14. PICK p, q : p = SubSeq(s, at + 1, Len(s)) /\ q = SubSeq(r, place + 1, m)
  OBVIOUS
<1>15. /\ p \in Seq(X) /\ Len(p) = m - place
       /\ \A k \in 1 .. m - place : p[k] = s[at + k]
  <2>1. at \in 0 .. Len(s) /\ Len(s) - at = m - place
    BY <1>5, <1>7, <1>9, <1>10
  <2>2. /\ p \in Seq(X) /\ Len(p) = Len(s) - at
        /\ \A k \in 1 .. Len(s) - at : p[k] = s[at + k]
    <3>1. s \in Seq(X) /\ p = SubSeq(s, at + 1, Len(s))
      BY <1>7, <1>14
    <3> QED BY ONLY <2>1, <3>1, EndOf
  <2> QED BY <2>1, <2>2
<1>16. /\ q \in Seq(X) /\ Len(q) = m - place
       /\ \A k \in 1 .. m - place : q[k] = r[place + k]
  <2>1. place \in 0 .. Len(r) /\ q = SubSeq(r, place + 1, Len(r))
    BY <1>4, <1>5, <1>14
  <2>2. /\ q \in Seq(X) /\ Len(q) = Len(r) - place
        /\ \A k \in 1 .. Len(r) - place : q[k] = r[place + k]
    <3>1. r \in Seq(X)
      BY <1>2
    <3> QED BY ONLY <2>1, <3>1, EndOf
  <2> QED BY <1>4, <2>2
<1>17. \A k \in 1 .. m - place : s[at + k] = r[place + k]
  <2> SUFFICES ASSUME NEW k \in 1 .. m - place PROVE s[at + k] = r[place + k]
    OBVIOUS
  <2>1. at + k \in n + 1 .. Len(s) /\ from + ((at + k) - n) = place + k
    BY <1>5, <1>7, <1>9, <1>10
  <2> QED BY <1>8, <2>1
<1>18. p = q
  <2>1. \A k \in 1 .. Len(p) : p[k] = q[k]
    BY <1>15, <1>16, <1>17
  <2> QED BY ONLY <1>15, <1>16, <2>1
<1> QED BY <1>3, <1>4, <1>11, <1>13, <1>14, <1>18 DEF afterBlank

\* The sections go out in their order.
LEMMA Increasing ==
  ASSUME Sections, Shape, NEW i \in Sent, isData(i), NEW j \in Sent, isData(j), j < i
  PROVE  number(j) < number(i)
<1>1. PICK count : count = Len(sections)
  OBVIOUS
<1>2. count \in Nat /\ Latest \in Nat /\ \A k \in Sent : isData(k) => number(k) \in 1 .. count
  BY <1>1, SectionNumber, SomeSections
<1>3. \A k \in Sent : k \in Nat /\ k <= Latest /\ k >= 1
  BY <1>2 DEF Sent, Latest
<1> DEFINE After(m) == \A k \in Sent : isData(k) /\ number(k) = m =>
                         \A l \in Sent : isData(l) /\ l < k => number(l) < m
           P == {m \in Nat : After(m)}
<1>4. 0 \in P
  <2>1. \A k \in Sent : isData(k) => number(k) # 0
    BY <1>2
  <2> QED BY <2>1
<1>5. ASSUME NEW m \in Nat, m \in P PROVE m + 1 \in P
  <2> SUFFICES ASSUME NEW k \in Sent, isData(k), number(k) = m + 1,
                      NEW l \in Sent, isData(l), l < k
               PROVE  number(l) < m + 1
    OBVIOUS
  <2>1. l \in 1 .. k - 1
    BY <1>3
  <2>2. m # 0
    <3> SUFFICES ASSUME m = 0 PROVE FALSE
      OBVIOUS
    <3>1. number(k) = 1
      BY <1>3
    <3> QED BY <2>1, <3>1 DEF Shape, Follows
  <2>3. number(k) # 1 /\ number(k) - 1 = m
    BY <2>2
  <2>4. \/ isData(k - 1) /\ number(k - 1) = m
        \/ k > 2 /\ isData(k - 2) /\ number(k - 2) = m /\ ~ isData(k - 1)
    BY <2>3 DEF Shape, Follows
  <2>5. PICK n \in Sent : isData(n) /\ number(n) = m /\ (l < n \/ l = n)
    <3>1. CASE isData(k - 1) /\ number(k - 1) = m
      <4>1. k - 1 \in Sent /\ (l < k - 1 \/ l = k - 1)
        BY <1>2, <1>3, <2>1 DEF Sent, Latest
      <4> QED BY <3>1, <4>1
    <3>2. CASE k > 2 /\ isData(k - 2) /\ number(k - 2) = m /\ ~ isData(k - 1)
      <4>1. l # k - 1
        BY <3>2
      <4>2. k - 2 \in Sent /\ (l < k - 2 \/ l = k - 2)
        BY <1>2, <1>3, <2>1, <3>2, <4>1 DEF Sent, Latest
      <4> QED BY <3>2, <4>2
    <3> QED BY <2>4, <3>1, <3>2
  <2>6. l < n => number(l) < m
    BY <1>5, <2>5
  <2>7. number(l) \in Nat
    BY <1>2
  <2> QED BY <2>5, <2>6, <2>7
<1> HIDE DEF P
<1>6. Nat \subseteq P
  BY <1>4, <1>5, InductionOverNat
<1>7. number(i) \in Nat
  BY <1>2
<1> QED BY <1>6, <1>7 DEF P

\* The last section, when all of it went out.
LEMMA LastSection ==
  ASSUME Sections, Shape, wasWritten
  PROVE  /\ Latest \in Sent /\ isData(Latest) /\ number(Latest) = Len(sections)
         /\ Len(sections) \in 1 .. Len(sections)
         /\ \A i \in Sent : i <= Latest - 1 /\ isData(i) => number(i) < Len(sections)
<1>1. PICK last, count : last = Latest /\ count = Len(sections)
  OBVIOUS
<1>2. next = count + 1 /\ count \in Nat \ {0} /\ last \in Nat
  BY <1>1, SomeSections DEF wasWritten
<1>3. isData(last) /\ number(last) = count /\ last \in Sent
  <2>1. next > Len(sections)
    BY DEF wasWritten
  <2>2. isData(last) /\ number(last) = next - 1 /\ last > 0
    BY <1>1, <2>1 DEF Shape, Position
  <2> QED BY <1>1, <1>2, <2>2 DEF Sent, Latest
<1>4. ASSUME NEW i \in Sent, i <= last - 1, isData(i) PROVE number(i) < count
  <2>1. i \in Nat /\ i < last
    BY <1>1, <1>2, <1>4 DEF Sent, Latest
  <2> QED BY <1>3, <1>4, <2>1, Increasing
<1> QED BY <1>1, <1>2, <1>3, <1>4

\* The place of the empty line.
blankAt(r) == r.secrets + 2

\* The bytes that the witness can read of a plain request.
LEMMA PlainRedacted ==
  ASSUME Sections, hasValues(request.body, FALSE), NEW place, place = blankAt(request),
         NEW r, r = redacted, NEW t, t = bodyOf(request)
  PROVE  /\ place \in 1 .. Len(r) /\ r \in Seq(Readable) /\ t \in Seq(Readable)
         /\ r # <<>> /\ r[1] = Top /\ r[place] = Blank
         /\ \A k \in 1 .. place - 1 : r[k] # Blank
         /\ SubSeq(r, place + 1, Len(r)) = t
<1>1. PICK secrets, units, d, X : /\ secrets = request.secrets /\ units = request.secretsLength
                                 /\ d = data /\ X = Readable
  OBVIOUS
<1>2. /\ secrets \in Nat \ {0} /\ units \in 1 .. secrets
      /\ IsPlain(secrets, units, t, d, redactions)
  BY <1>1, PlainPlaces
<1>3. /\ t \in Seq(Byte) /\ Len(d) = secrets + 2 + Len(t)
      /\ d[1] = Top /\ d[secrets + 2] = Blank
      /\ \A k \in 2 .. secrets + 1 : d[k] = Secret
      /\ SubSeq(d, secrets + 3, Len(d)) = t
      /\ \A k \in 1 .. Len(d) : isHidden(redactions, k) <=> k \in 2 .. units + 1
  BY <1>2, Zenon DEF IsPlain
<1>4. /\ r \in Seq(X) /\ Len(r) = Len(d) /\ d \in Seq(X)
      /\ \A k \in 1 .. Len(d) : r[k] = IF isHidden(redactions, k) THEN Star ELSE d[k]
  BY <1>1, Redacted
<1>5. t \in Seq(X) /\ Len(t) \in Nat
  <2>1. Byte \subseteq X
    BY <1>1 DEF Readable
  <2>2. t \in Seq(X)
    BY <1>3, <2>1, SubsetOfSequences
  <2> QED BY <2>2
<1>6. place \in Nat /\ place = secrets + 2 /\ place \in 1 .. Len(d) /\ Len(d) \in Nat
  <2>1. PICK n, m : n = Len(t) /\ m = Len(d)
    OBVIOUS
  <2>2. n \in Nat /\ m = secrets + 2 + n /\ secrets \in Nat
    BY <1>2, <1>3, <1>5, <2>1
  <2>3. place = secrets + 2
    BY <1>1 DEF blankAt
  <2>4. place \in Nat /\ place \in 1 .. m /\ m \in Nat
    BY ONLY <2>2, <2>3
  <2> QED BY <2>1, <2>3, <2>4
<1>7. r[1] = Top /\ r[place] = Blank
  <2>1. 1 \in 1 .. Len(d) /\ 1 \notin 2 .. units + 1 /\ place \notin 2 .. units + 1
    BY <1>2, <1>6
  <2> QED BY <1>3, <1>4, <1>6, <2>1
<1>8. ASSUME NEW k \in 1 .. place - 1 PROVE r[k] # Blank
  <2>1. k \in 1 .. Len(d) /\ (k = 1 \/ k \in 2 .. secrets + 1)
    BY <1>2, <1>6
  <2>2. r[k] = Top \/ r[k] = Star \/ r[k] = Secret
    BY <1>3, <1>4, <1>7, <2>1
  <2> QED BY <2>2 DEF Blank, Top, Star, Secret
<1>9. SubSeq(r, place + 1, Len(r)) = t
  <2>1. \A k \in place + 1 .. Len(r) : d[k] = r[k]
    <3> SUFFICES ASSUME NEW k \in place + 1 .. Len(r) PROVE d[k] = r[k]
      OBVIOUS
    <3>1. k \in 1 .. Len(d) /\ k \notin 2 .. units + 1
      BY <1>2, <1>4, <1>6
    <3> QED BY <1>3, <1>4, <3>1
  <2>2. place \in 0 .. Len(r) /\ Len(r) \in place .. Len(r)
    BY <1>4, <1>6
  <2>3. PICK p, q, n : p = SubSeq(d, place + 1, n) /\ q = SubSeq(r, place + 1, n) /\ n = Len(r)
    OBVIOUS
  <2>4. p = q
    <3>1. n \in place .. Len(r) /\ place \in 0 .. Len(r) /\ Len(d) = Len(r)
          /\ \A k \in place + 1 .. n : r[k] = d[k]
      BY <1>4, <2>1, <2>2, <2>3
    <3>2. r \in Seq(X) /\ d \in Seq(X)
      BY <1>4
    <3> QED BY ONLY <2>3, <3>1, <3>2, SamePart
  <2>5. place + 1 = secrets + 3
    BY <1>2, <1>6
  <2> QED BY <1>3, <1>4, <2>3, <2>4, <2>5
<1>10. r # <<>>
  BY <1>4, <1>6
<1> QED BY <1>1, <1>4, <1>5, <1>6, <1>7, <1>8, <1>9, <1>10

\* The witness accepts what an honest client sent.
LEMMA HonestReceipt ==
  Sections /\ Rest /\ Shape /\ Receipt /\ Inv => HonestClaimIsAccepted
<1> SUFFICES ASSUME Sections, Rest, Shape, Receipt, Inv, result # None, wasWritten,
                    ~ result.isAhead, ~ result.isOld, hasValues(request.body, FALSE),
                    \A i \in DOMAIN request.matches :
                      request.matches[i].value \in response.texts \ response.shown
                        => request.matches[i].invert
             PROVE  result.claim # None
  BY DEF HonestClaimIsAccepted, isHonest
<1>1. pc = "claimed" /\ response \in Answers /\ matchesResponse(response, request)
  BY DEF Receipt
<1>2. matchesResponse(shownOf(response, result.isOld), request)
  BY <1>1, ShownMatches DEF Sections
<1>3. PICK t, r, X, place, count, last :
        /\ t = bodyOf(request) /\ r = redacted /\ X = Readable
        /\ place = blankAt(request) /\ count = Len(sections) /\ last = Latest
  OBVIOUS
<1>4. /\ place \in 1 .. Len(r) /\ r \in Seq(X) /\ t \in Seq(X)
      /\ r # <<>> /\ r[1] = Top /\ r[place] = Blank
      /\ \A k \in 1 .. place - 1 : r[k] # Blank
      /\ SubSeq(r, place + 1, Len(r)) = t
  <2>1. place = blankAt(request) /\ r = redacted /\ t = bodyOf(request)
    BY <1>3
  <2>2. /\ place \in 1 .. Len(r) /\ r \in Seq(Readable) /\ t \in Seq(Readable)
        /\ r # <<>> /\ r[1] = Top /\ r[place] = Blank
        /\ \A k \in 1 .. place - 1 : r[k] # Blank
        /\ SubSeq(r, place + 1, Len(r)) = t
    BY <2>1, PlainRedacted
  <2> QED BY <1>3, <2>2
<1>5. PICK f \in [0 .. Latest -> Seq(Readable)] :
        /\ f[0] = <<>> /\ FlattenSeq(view) = f[Latest]
        /\ \A i \in Sent : f[i] = f[i - 1] \o seen(transcript[i])
  BY ViewLoop
<1>6. /\ last \in Sent /\ isData(last) /\ number(last) = count /\ count \in 1 .. count
      /\ \A i \in Sent : i <= last - 1 /\ isData(i) => number(i) < Len(sections)
  BY <1>3, LastSection
<1>7. last \in Nat /\ last # 0 /\ last - 1 \in 0 .. last /\ last \in 0 .. last
  BY <1>3, <1>6, SomeSections DEF Sent, Latest
<1>8. PICK s, g, v : s = f[last] /\ g = f[last - 1] /\ v = seen(transcript[last])
  OBVIOUS
<1>9. s \in Seq(X) /\ g \in Seq(X) /\ s = FlattenSeq(view) /\ s = g \o v
  BY <1>3, <1>5, <1>6, <1>7, <1>8
<1>10. Lacks(g, 1, Len(g))
  <2>1. TopFirst(g)
    BY <1>3, <1>5, <1>6, <1>7, <1>8, TopFirstBefore
  <2> QED BY <2>1 DEF Lacks, TopFirst, Blank, Star, Top
<1>11. PICK from : from = sections[count].from
  OBVIOUS
<1>12. v = SubSeq(r, from + 1, Len(r)) /\ from \in 0 .. Len(r)
  <2>1. seen(transcript[last]) = SubSeq(redacted, sections[count].from + 1, sections[count].to)
    BY <1>3, <1>6, SeenSection
  <2>2. sections[count].to = Len(data) /\ sections[count].from \in 0 .. Len(data)
    BY <1>3, <1>6, SectionPlace
  <2>3. Len(r) = Len(data)
    BY <1>3, Redacted
  <2> QED BY <1>3, <1>8, <1>11, <2>1, <2>2, <2>3
<1>13. place \in from + 1 .. Len(r)
  <2>1. PICK secrets, units : secrets = request.secrets /\ units = request.secretsLength
    OBVIOUS
  <2>2. /\ secrets \in Nat \ {0} /\ units \in 1 .. secrets
        /\ redactionMode = "zk" => Len(sections) = 1
        /\ redactionMode # "zk" => Len(sections) = 3 /\ sections[2].to = 1 + units
    BY <2>1, PlainPlaces
  <2>3. sections[count].from = IF count = 1 THEN 0 ELSE sections[count - 1].to
    BY <1>3, <1>6, SectionPlace
  <2>4. from = 0 \/ from = 1 + units
    <3>1. CASE redactionMode = "zk"
      <4>1. count = 1
        BY <1>3, <2>2, <3>1
      <4> QED BY <1>11, <2>3, <4>1
    <3>2. CASE redactionMode # "zk"
      <4>1. count = 3
        BY <1>3, <2>2, <3>2
      <4>2. count - 1 = 2 /\ count # 1
        BY ONLY <4>1
      <4> QED BY <1>11, <2>2, <2>3, <3>2, <4>2
    <3> QED BY <3>1, <3>2
  <2>5. place = secrets + 2 /\ Len(r) \in Nat
    BY <1>3, <1>4, <2>1 DEF blankAt
  <2> QED BY <1>4, <2>2, <2>4, <2>5
<1>14. blanks(s) # {} /\ afterBlank(s) = t
  <2>1. Lacks(r, from + 1, place - 1)
    <3>1. \A k \in from + 1 .. place - 1 : k \in 1 .. place - 1
      BY <1>4, <1>12, <1>13
    <3> QED BY <1>4, <3>1 DEF Lacks
  <2>2. r[place] = Blank /\ r \in Seq(X) /\ SubSeq(r, place + 1, Len(r)) = t
    BY <1>4
  <2>3. EndsLines(X, g, r, from, place, s)
    BY <1>9, <1>10, <1>12, <1>13, <2>1, <2>2 DEF EndsLines
  <2>4. blanks(s) # {} /\ afterBlank(s) = SubSeq(r, place + 1, Len(r))
    BY <2>3, BytesAfterBlank
  <2> QED BY <2>2, <2>4
<1>15. getHttpRequestDataFromTranscript(view).body = t
  <2>1. getHttpRequestDataFromTranscript(view).body = afterBlank(s)
    BY <1>9, <1>14, ReadRequest
  <2> QED BY <1>14, <2>1
<1>16. getHttpRequestDataFromTranscript(view).isValid
  <2>1. withoutRuns(s) = withoutRuns(r)
    BY <1>1, <1>3, <1>9, ShapeIsSeen DEF WitnessSeesRequest, redacted
  <2>2. withoutRuns(r) # <<>> /\ withoutRuns(r)[1] = Top
    BY <1>4, RunsKeepTheFirst
  <2>3. s # <<>>
    BY <1>9, <2>1, <2>2, RunsKeepTheLast
  <2>4. s[1] = Top
    <3>1. s \in Seq(X)
      BY <1>9
    <3>2. withoutRuns(s)[1] = s[1]
      BY <2>3, <3>1, RunsKeepTheFirst
    <3> QED BY <2>1, <2>2, <3>2
  <2>5. view # <<>>
    <3>1. Len(view) = last
      BY <1>3, <1>7 DEF view, Latest
    <3> QED BY <1>7, <3>1
  <2> QED BY <1>9, <2>3, <2>4, <2>5, ReadRequest
<1>17. matchRedactedStrings(t, t)
  BY <1>4, MatchesItself
<1>18. isReceipt(result.isOld)
  BY <1>2, <1>3, <1>15, <1>16, <1>17 DEF isReceipt, assertValidProviderReceipt, bodyOf
<1> QED BY <1>18 DEF Receipt

\* Nothing is answered at first.
LEMMA InitReceipt == Init => Receipt
BY DEF Init, Receipt

\* What is known of the answer of the witness.
THEOREM ReceiptInvariance == Spec => [](Inv /\ Sections /\ Rest /\ Shape /\ Receipt)
<1>1. Init => Sections /\ Rest /\ Receipt
  BY InitSections, InitReceipt
<1>2. Sections /\ Rest /\ Receipt /\ [Next]_vars => Sections' /\ Rest' /\ Receipt'
  BY NextSections, NextReceipt
<1>3. Spec => [](Sections /\ Rest /\ Receipt)
  BY <1>1, <1>2, PTL DEF Spec
<1> QED BY <1>3, Invariance, ShapeInvariance, PTL

\* What a witness claims of a body was sent, for any requests and answers.
THEOREM BodyWasSent == Spec => []ClaimedBodyWasSent
BY ReceiptInvariance, ReceiptWasSent, PTL

\* The witness accepts an honest claim, for any requests and answers.
THEOREM HonestIsAccepted == Spec => []HonestClaimIsAccepted
BY ReceiptInvariance, HonestReceipt, PTL

-----------------------------------------------------------------------------
(* Where the parts of a flattened sequence are.                             *)

\* off[i] is the length of the parts before part i.
Offsets(off, seqs, n) ==
  /\ n = Len(seqs) /\ off \in [1 .. n + 1 -> Nat] /\ off[1] = 0
  /\ \A i \in 1 .. n : off[i + 1] = off[i] + Len(seqs[i])

\* The parts are in flat at their offsets, and there is nothing else.
Placed(flat, off, seqs, n) ==
  /\ Len(flat) = off[n + 1]
  /\ \A i \in 1 .. n : \A j \in 1 .. Len(seqs[i]) : flat[off[i] + j] = seqs[i][j]
  /\ \A k \in 1 .. off[n + 1] : \E i \in 1 .. n : off[i] < k /\ k <= off[i + 1]

\* A function on 1 .. n is a sequence.
LEMMA IsSequence ==
  ASSUME NEW S, NEW n \in Nat, NEW f, f = [i \in 1 .. n |-> f[i]],
         \A i \in 1 .. n : f[i] \in S
  PROVE  f \in Seq(S) /\ Len(f) = n
OBVIOUS

\* Where the parts of a flattened sequence are.
LEMMA FlattenedAt ==
  ASSUME NEW X, NEW seqs \in Seq(Seq(X)), NEW n \in Nat, NEW off, Offsets(off, seqs, n),
         NEW flat, flat = FlattenSeq(seqs)
  PROVE  flat \in Seq(X) /\ Placed(flat, off, seqs, n)
<1> USE DEF Offsets
<1>1. PICK f \in [0 .. n -> Seq(X)] :
        /\ f[0] = <<>> /\ FlattenSeq(seqs) = f[n]
        /\ \A i \in 1 .. n : f[i] = f[i - 1] \o seqs[i]
  BY Flattened
<1>2. \A i \in 1 .. n : seqs[i] \in Seq(X)
  OBVIOUS
<1> DEFINE Ends(m) == \A i \in 1 .. m : off[i + 1] <= off[m + 1]
           Holds(m) == \A i \in 1 .. m : \A j \in 1 .. Len(seqs[i]) :
                         f[m][off[i] + j] = seqs[i][j]
           Fills(m) == \A k \in 1 .. off[m + 1] : \E i \in 1 .. m :
                          off[i] < k /\ k <= off[i + 1]
           Places(m) == Len(f[m]) = off[m + 1] /\ Ends(m) /\ Holds(m) /\ Fills(m)
           P == {m \in Nat : m <= n => Places(m)}
<1>3. Places(0)
  BY <1>1
<1>4. ASSUME NEW m \in Nat, m + 1 <= n, Places(m) PROVE Places(m + 1)
  <2>1. m \in 0 .. n /\ m + 1 \in 1 .. n /\ m + 1 \in 1 .. n + 1 /\ m + 2 \in 1 .. n + 1
        /\ (m + 1) - 1 = m /\ (m + 1) + 1 = m + 2
    BY ONLY m \in Nat, n \in Nat, m + 1 <= n
  <2>2. PICK s, t, u : s = f[m] /\ t = seqs[m + 1] /\ u = f[m + 1]
    OBVIOUS
  <2>3. s \in Seq(X) /\ t \in Seq(X) /\ u = s \o t
    BY ONLY <1>1, <1>2, <2>1, <2>2
  <2>4. /\ Len(u) = Len(s) + Len(t) /\ Len(s) \in Nat /\ Len(t) \in Nat
        /\ \A k \in 1 .. Len(s) : u[k] = s[k]
        /\ \A k \in 1 .. Len(t) : u[Len(s) + k] = t[k]
    BY ONLY <2>3
  <2>5. PICK a, b : a = off[m + 1] /\ b = off[m + 2]
    OBVIOUS
  <2>6. a \in Nat /\ b \in Nat
    BY ONLY <2>1, <2>5, off \in [1 .. n + 1 -> Nat]
  <2>7. b = a + Len(t) /\ Len(s) = a
    BY <1>4, <2>1, <2>2, <2>5
  <2>8. Len(u) = b
    BY ONLY <2>4, <2>6, <2>7
  <2>9. ASSUME NEW i \in 1 .. m + 1 PROVE off[i + 1] <= b
    <3>1. CASE i = m + 1
      BY ONLY <2>1, <2>5, <2>6, <3>1
    <3>2. CASE i # m + 1
      <4>1. i \in 1 .. m /\ i + 1 \in 1 .. n + 1
        BY ONLY <2>1, <3>2, m \in Nat, n \in Nat
      <4>2. off[i + 1] <= a /\ off[i + 1] \in Nat
        BY ONLY <1>4, <2>5, <4>1, off \in [1 .. n + 1 -> Nat]
      <4> QED BY ONLY <2>4, <2>6, <2>7, <4>2
    <3> QED BY <3>1, <3>2
  <2>10. ASSUME NEW i \in 1 .. m + 1, NEW j \in 1 .. Len(seqs[i])
         PROVE  u[off[i] + j] = seqs[i][j]
    <3>1. CASE i = m + 1
      <4>1. j \in 1 .. Len(t) /\ off[i] = Len(s) /\ seqs[i] = t
        BY ONLY <2>2, <2>5, <2>7, <3>1, j \in 1 .. Len(seqs[i])
      <4>2. u[off[i] + j] = t[j]
        BY ONLY <2>4, <4>1
      <4> QED BY ONLY <4>1, <4>2
    <3>2. CASE i # m + 1
      <4>1. i \in 1 .. m /\ i + 1 \in 1 .. n + 1 /\ i \in 1 .. n + 1 /\ i \in 1 .. n
        BY ONLY <2>1, <3>2, m \in Nat, n \in Nat
      <4>2. PICK o, v : o = off[i] /\ v = seqs[i]
        OBVIOUS
      <4>3. o \in Nat /\ v \in Seq(X)
        BY ONLY <1>2, <4>1, <4>2, off \in [1 .. n + 1 -> Nat]
      <4>4. off[i + 1] = o + Len(v) /\ off[i + 1] <= a
        BY <1>4, <2>5, <4>1, <4>2
      <4>5. o + j \in 1 .. Len(s)
        <5>1. j \in Nat /\ 1 <= j /\ j <= Len(v) /\ Len(v) \in Nat
          BY ONLY <4>2, <4>3, j \in 1 .. Len(seqs[i])
        <5>2. o + Len(v) <= a
          BY ONLY <4>4
        <5>3. o + j >= 1 /\ o + j <= a /\ o + j \in Nat
          BY ONLY <2>6, <4>3, <5>1, <5>2
        <5> QED BY ONLY <2>6, <2>7, <5>3
      <4>6. s[o + j] = v[j]
        BY ONLY <1>4, <2>2, <4>1, <4>2, j \in 1 .. Len(seqs[i])
      <4> QED BY ONLY <2>4, <4>2, <4>5, <4>6
    <3> QED BY <3>1, <3>2
  <2>11. ASSUME NEW k \in 1 .. b
         PROVE  \E i \in 1 .. m + 1 : off[i] < k /\ k <= off[i + 1]
    <3>1. CASE k <= a
      <4>1. k \in 1 .. a
        BY ONLY <2>6, <3>1, k \in 1 .. b
      <4>2. PICK i \in 1 .. m : off[i] < k /\ k <= off[i + 1]
        BY ONLY <1>4, <2>5, <4>1
      <4> QED BY ONLY <4>2, m \in Nat
    <3>2. CASE k > a
      <4>1. m + 1 \in 1 .. m + 1 /\ off[m + 1] < k /\ k <= off[(m + 1) + 1]
        BY ONLY <2>1, <2>5, <2>6, <3>2, k \in 1 .. b, m \in Nat
      <4> QED BY ONLY <4>1
    <3> QED BY ONLY <2>6, <3>1, <3>2, k \in 1 .. b
  <2>12. Ends(m + 1) /\ Holds(m + 1) /\ Fills(m + 1)
    BY ONLY <2>1, <2>2, <2>5, <2>9, <2>10, <2>11
  <2> QED BY <2>1, <2>2, <2>5, <2>8, <2>12
<1> HIDE DEF Places
<1>5. n \in P
  <2>1. 0 \in P
    BY <1>3
  <2>2. ASSUME NEW m \in Nat, m \in P PROVE m + 1 \in P
    BY <1>4, <2>2
  <2> HIDE DEF P
  <2> QED BY <2>1, <2>2, InductionOverNat
<1>6. Places(n) /\ f[n] \in Seq(X) /\ flat = f[n]
  <2>1. n \in 0 .. n
    OBVIOUS
  <2>2. Places(n)
    BY ONLY <1>5, n \in Nat
  <2>3. f[n] \in Seq(X) /\ flat = f[n]
    BY ONLY <1>1, <2>1, flat = FlattenSeq(seqs), f \in [0 .. n -> Seq(X)]
  <2> QED BY ONLY <2>2, <2>3
<1> QED BY ONLY <1>6 DEF Places, Holds, Fills, Placed


\* The sums of the sizes before each place exist.
LEMMA PrefixSums ==
  ASSUME NEW n \in Nat, NEW size \in [1 .. n -> Nat]
  PROVE  \E b \in [1 .. n -> Nat] :
           \A i \in 1 .. n : b[i] = IF i = 1 THEN 0 ELSE b[i - 1] + size[i - 1]
<1> DEFINE Step(i, x) == IF i \in 1 .. n THEN x + size[i] ELSE x
           step == [a \in Nat \X Nat |-> Step(a[1], a[2])]
<1>1. step \in [Nat \X Nat -> Nat] /\ 0 \in Nat
  OBVIOUS
<1>2. \A i \in Nat, x \in Nat : step[<<i, x>>] = Step(i, x)
  OBVIOUS
<1> HIDE DEF step
<1>3. PICK f : IsLoop(f, Nat, step, 0, n)
  BY <1>1, LoopExists
<1>4. f \in [0 .. n -> Nat] /\ f[0] = 0 /\ \A i \in 1 .. n : f[i] = f[i - 1] + size[i]
  <2>1. f \in [0 .. n -> Nat] /\ f[0] = 0 /\ \A i \in 1 .. n : f[i] = step[<<i, f[i - 1]>>]
    BY <1>3 DEF IsLoop
  <2>2. \A i \in 1 .. n : i \in Nat /\ f[i - 1] \in Nat
    BY <2>1
  <2> QED BY <1>2, <2>1, <2>2
<1> DEFINE b == [i \in 1 .. n |-> f[i - 1]]
<1>5. b \in [1 .. n -> Nat]
  BY <1>4
<1>6. \A i \in 1 .. n : b[i] = IF i = 1 THEN 0 ELSE b[i - 1] + size[i - 1]
  BY <1>4
<1> QED BY <1>5, <1>6

\* SizesBefore sums the sizes of the chunks.

-----------------------------------------------------------------------------
(* The turns over a text and over a template.                               *)

\* f[n] is where the cursors are after n turns over t and s.
Turns(f, t, s) ==
  f[0] = FirstOf /\ \A n \in 1 .. Len(t) : f[n] = Compare(t, s, f[n - 1])

Final(t, s) == [ts |-> Len(t) + 1, rs |-> Len(s) + 1]
CursorsAt(a, c) == [ts |-> a + 1, rs |-> c + 1]

\* A turn over two characters, behind a of t and behind c of s.
LEMMA CompareAt ==
  ASSUME NEW X, NEW t \in Seq(X), NEW s \in Seq(X), NEW a \in Nat, NEW c \in Nat, a < Len(t)
  PROVE  /\ c < Len(s) /\ t[a + 1] = s[c + 1] =>
              Compare(t, s, CursorsAt(a, c)) = CursorsAt(a + 1, c + 1)
         /\ c < Len(s) /\ t[a + 1] # s[c + 1] /\ s[c + 1] = Star /\ opensTemplate(t, a + 1) =>
              Compare(t, s, CursorsAt(a, c)) =
                [ts |-> afterTemplate(t, a + 1), rs |-> afterStars(s, c + 1)]
         /\ \/ c >= Len(s)
            \/ t[a + 1] # s[c + 1] /\ (s[c + 1] # Star \/ ~ opensTemplate(t, a + 1))
            => Compare(t, s, CursorsAt(a, c)) = CursorsAt(a, c)
<1>1. PICK n, m, i, j : n = Len(t) /\ m = Len(s) /\ i = a + 1 /\ j = c + 1
  OBVIOUS
<1>2. n \in Nat /\ m \in Nat /\ i \in Nat /\ j \in Nat /\ i <= n /\ ~ (i > n)
  BY <1>1
<1>3. PICK at : at = [ts |-> i, rs |-> j]
  OBVIOUS
<1>4. at.ts = i /\ at.rs = j /\ CursorsAt(a, c) = at
  BY <1>1, <1>3 DEF CursorsAt
<1>5. CASE c >= m
  <2>1. j > m
    BY <1>1, <1>2, <1>5
  <2>2. Compare(t, s, at) = at
    BY <1>1, <1>4, <2>1 DEF Compare
  <2>3. ~ (c < m)
    BY <1>2, <1>5
  <2> QED BY <1>1, <1>4, <2>2, <2>3
<1>6. CASE c < m
  <2>1. j <= m /\ ~ (j > m)
    BY <1>1, <1>2, <1>6
  <2>2. t[i] = s[j] => Compare(t, s, at) = [ts |-> i + 1, rs |-> j + 1]
    BY <1>1, <1>2, <1>4, <2>1 DEF Compare
  <2>3. t[i] # s[j] => Compare(t, s, at) =
          IF opensTemplate(t, i) /\ s[j] = Star
          THEN [ts |-> afterTemplate(t, i), rs |-> afterStars(s, j)] ELSE at
    BY <1>1, <1>2, <1>4, <2>1 DEF Compare
  <2>4. ~ (c >= m)
    BY <1>2, <1>6
  <2> QED BY <1>1, <1>4, <2>2, <2>3, <2>4 DEF CursorsAt
<1> QED BY <1>2, <1>5, <1>6

\* Cursors that a turn does not move stay.
LEMMA CursorsStay ==
  ASSUME NEW t, NEW s, NEW f, Turns(f, t, s), Len(t) \in Nat,
         NEW q \in 0 .. Len(t), Compare(t, s, f[q]) = f[q]
  PROVE  f[Len(t)] = f[q]
<1>1. PICK n : n = Len(t)
  OBVIOUS
<1>2. n \in Nat /\ q \in 0 .. n /\ \A k \in 1 .. n : f[k] = Compare(t, s, f[k - 1])
  BY <1>1 DEF Turns
<1> DEFINE P == {k \in Nat : q + k <= n => f[q + k] = f[q]}
<1>3. 0 \in P
  BY <1>2
<1>4. ASSUME NEW k \in Nat, k \in P PROVE k + 1 \in P
  <2> SUFFICES ASSUME q + (k + 1) <= n PROVE f[q + (k + 1)] = f[q]
    OBVIOUS
  <2>1. f[q + k] = f[q]
    BY <1>2, <1>4
  <2>2. q + (k + 1) \in 1 .. n /\ (q + (k + 1)) - 1 = q + k
    BY <1>2
  <2>3. f[q + (k + 1)] = Compare(t, s, f[q + k])
    BY ONLY <1>2, <2>2
  <2> QED BY <2>1, <2>3
<1>5. Nat \subseteq P
  <2> HIDE DEF P
  <2> QED BY <1>3, <1>4, InductionOverNat
<1>6. PICK k : k = n - q
  OBVIOUS
<1>7. k \in Nat /\ q + k = n /\ q + k <= n
  BY <1>2, <1>6
<1>8. f[q + k] = f[q]
  BY <1>5, <1>7
<1> QED BY <1>1, <1>7, <1>8

\* Cursors that stay inside of t do not match.
LEMMA StuckInside ==
  ASSUME NEW t, NEW s, NEW f, Turns(f, t, s), Len(t) \in Nat,
         NEW q \in 0 .. Len(t), NEW a \in Nat, NEW c \in Nat, a < Len(t),
         f[q] = CursorsAt(a, c), Compare(t, s, CursorsAt(a, c)) = CursorsAt(a, c)
  PROVE  f[Len(t)] # Final(t, s)
<1>1. f[Len(t)] = CursorsAt(a, c)
  BY CursorsStay
<1>2. CursorsAt(a, c).ts = a + 1 /\ Final(t, s).ts = Len(t) + 1
  BY DEF CursorsAt, Final
<1>3. a + 1 # Len(t) + 1
  OBVIOUS
<1> QED BY <1>1, <1>2, <1>3

SameText(t, s, a, c, length) ==
  c + length <= Len(s) /\ \A k \in 1 .. length : s[c + k] = t[a + k]

\* The turns over a text.
LEMMA TextTurns ==
  ASSUME NEW X, NEW t \in Seq(X), NEW s \in Seq(X), NEW f, Turns(f, t, s),
         NEW a \in Nat, NEW length \in Nat, a + length <= Len(t), NEW q \in 0 .. a,
         NEW c \in 0 .. Len(s), f[q] = CursorsAt(a, c),
         \A k \in 1 .. length : ~ opensTemplate(t, a + k)
  PROVE  /\ SameText(t, s, a, c, length) => f[q + length] = CursorsAt(a + length, c + length)
         /\ ~ SameText(t, s, a, c, length) => f[Len(t)] # Final(t, s)
<1>1. PICK n, m : n = Len(t) /\ m = Len(s)
  OBVIOUS
<1>2. /\ n \in Nat /\ m \in Nat /\ q \in Nat /\ c \in Nat /\ c <= m /\ q <= a /\ a + length <= n
      /\ \A k \in 1 .. n : f[k] = Compare(t, s, f[k - 1])
  BY <1>1 DEF Turns
<1> DEFINE Reads(k) == SameText(t, s, a, c, k) /\ f[q + k] = CursorsAt(a + k, c + k)
           Fails(k) == ~ SameText(t, s, a, c, k) /\ f[n] # Final(t, s)
           P == {k \in Nat : k <= length => Reads(k) \/ Fails(k)}
<1>3. 0 \in P
  <2>1. SameText(t, s, a, c, 0)
    BY <1>1, <1>2 DEF SameText
  <2>2. q + 0 = q /\ a + 0 = a /\ c + 0 = c
    BY <1>2
  <2>3. f[q + 0] = CursorsAt(a + 0, c + 0)
    BY <2>2
  <2> QED BY <2>1, <2>3
<1>4. ASSUME NEW k \in Nat, k \in P PROVE k + 1 \in P
  <2> SUFFICES ASSUME k + 1 <= length PROVE Reads(k + 1) \/ Fails(k + 1)
    OBVIOUS
  <2>1. /\ k <= length /\ a + k \in Nat /\ c + k \in Nat /\ a + k < n /\ q + k \in 0 .. n
        /\ q + (k + 1) \in 1 .. n /\ (q + (k + 1)) - 1 = q + k
        /\ a + (k + 1) = (a + k) + 1 /\ c + (k + 1) = (c + k) + 1
        /\ k + 1 \in 1 .. length /\ k + 1 \in 1 .. k + 1 /\ \A x \in 1 .. k : x \in 1 .. k + 1
        /\ \A x \in 1 .. k + 1 : x \in 1 .. k \/ x = k + 1
    BY <1>2
  <2>2. SameText(t, s, a, c, k + 1) <=>
          /\ SameText(t, s, a, c, k)
          /\ c + k < m /\ t[(a + k) + 1] = s[(c + k) + 1]
    <3>1. SameText(t, s, a, c, k + 1) <=>
            /\ (c + k) + 1 <= m
            /\ \A x \in 1 .. k : s[c + x] = t[a + x]
            /\ s[(c + k) + 1] = t[(a + k) + 1]
      <4>1. SameText(t, s, a, c, k + 1) <=>
              c + (k + 1) <= m /\ \A x \in 1 .. k + 1 : s[c + x] = t[a + x]
        BY <1>1 DEF SameText
      <4>2. (\A x \in 1 .. k + 1 : s[c + x] = t[a + x]) <=>
              (\A x \in 1 .. k : s[c + x] = t[a + x]) /\ s[c + (k + 1)] = t[a + (k + 1)]
        <5>1. PICK j : j = k + 1
          OBVIOUS
        <5>2. /\ \A x \in 1 .. k : x \in 1 .. j
              /\ \A x \in 1 .. j : x \in 1 .. k \/ x = j
              /\ j \in 1 .. j
          BY <2>1, <5>1
        <5>3. (\A x \in 1 .. j : s[c + x] = t[a + x]) <=>
                (\A x \in 1 .. k : s[c + x] = t[a + x]) /\ s[c + j] = t[a + j]
          BY ONLY <5>2, Zenon
        <5> QED BY <5>1, <5>3
      <4> QED BY <2>1, <4>1, <4>2
    <3>2. SameText(t, s, a, c, k) <=> c + k <= m /\ \A x \in 1 .. k : s[c + x] = t[a + x]
      BY <1>1 DEF SameText
    <3>3. ((c + k) + 1 <= m <=> c + k < m) /\ ((c + k) + 1 <= m => c + k <= m)
      BY <1>2, <2>1
    <3> QED BY <3>1, <3>2, <3>3
  <2>3. CASE Fails(k)
    BY <2>2, <2>3
  <2>4. CASE Reads(k)
    <3>1. PICK u, v : u = a + k /\ v = c + k
      OBVIOUS
    <3>2. u \in Nat /\ v \in Nat /\ u < n /\ f[q + k] = CursorsAt(u, v)
      BY <2>1, <2>4, <3>1
    <3>3. f[q + (k + 1)] = Compare(t, s, CursorsAt(u, v))
      BY <1>2, <2>1, <3>2
    <3>4. CASE v < m /\ t[u + 1] = s[v + 1]
      <4>1. Compare(t, s, CursorsAt(u, v)) = CursorsAt(u + 1, v + 1)
        <5>1. u < Len(t) /\ v < Len(s)
          BY <1>1, <3>2, <3>4
        <5>2. v < Len(s) /\ t[u + 1] = s[v + 1] =>
                Compare(t, s, CursorsAt(u, v)) = CursorsAt(u + 1, v + 1)
          BY ONLY <3>2, <5>1, t \in Seq(X), s \in Seq(X), CompareAt
        <5> QED BY <3>4, <5>1, <5>2
      <4>2. f[q + (k + 1)] = CursorsAt(a + (k + 1), c + (k + 1))
        BY <2>1, <3>1, <3>3, <4>1
      <4>3. SameText(t, s, a, c, k + 1)
        BY <2>2, <2>4, <3>1, <3>4
      <4> QED BY <4>2, <4>3
    <3>5. CASE ~ (v < m /\ t[u + 1] = s[v + 1])
      <4>1. ~ opensTemplate(t, u + 1)
        BY <2>1, <3>1
      <4>2. v >= m \/ t[u + 1] # s[v + 1]
        BY <1>2, <3>2, <3>5
      <4>3. Compare(t, s, CursorsAt(u, v)) = CursorsAt(u, v)
        <5>1. u < Len(t) /\ (v >= Len(s) \/ t[u + 1] # s[v + 1])
          BY <1>1, <3>2, <4>2
        <5> QED BY <3>2, <4>1, <5>1, CompareAt
      <4>4. f[n] # Final(t, s)
        <5>1. u < Len(t) /\ Len(t) \in Nat /\ q + k \in 0 .. Len(t)
          BY <1>1, <1>2, <2>1, <3>2
        <5> QED BY <1>1, <3>2, <4>3, <5>1, StuckInside
      <4>5. ~ SameText(t, s, a, c, k + 1)
        BY <2>2, <3>1, <3>5
      <4> QED BY <4>4, <4>5
    <3> QED BY <3>4, <3>5
  <2>5. Reads(k) \/ Fails(k)
    BY <1>4, <2>1
  <2> QED BY <2>3, <2>4, <2>5
<1>5. length \in P
  <2> HIDE DEF P
  <2> QED BY <1>3, <1>4, InductionOverNat
<1>6. Reads(length) \/ Fails(length)
  BY <1>2, <1>5
<1> QED BY <1>1, <1>6

\* The stars behind c of s end at b.
StarsUpTo(s, c, b) ==
  /\ c < b /\ b <= Len(s)
  /\ \A k \in c + 1 .. b : s[k] = Star
  /\ b < Len(s) => s[b + 1] # Star

\* They are what a turn goes over.
LEMMA StarsAre ==
  ASSUME NEW X, NEW s \in Seq(X), NEW c \in Nat, c < Len(s), s[c + 1] = Star
  PROVE  /\ \E b \in Nat : StarsUpTo(s, c, b)
         /\ \A b \in Nat : StarsUpTo(s, c, b) => afterStars(s, c + 1) = b + 1
<1>1. PICK S, m : S = {k \in (c + 1) + 1 .. Len(s) : s[k] # Star} \cup {Len(s) + 1} /\ m = Len(s)
  OBVIOUS
<1>2. m \in Nat /\ c < m /\ S \subseteq c + 2 .. m + 1 /\ m + 1 \in S
  BY <1>1
<1>3. \A k \in c + 2 .. m : k \in S <=> s[k] # Star
  BY <1>1, <1>2
<1>4. S \subseteq Nat /\ S # {}
  BY <1>2
<1>5. afterStars(s, c + 1) = Min(S)
  BY <1>1, Zenon DEF afterStars
<1>6. PICK e : e = Min(S) /\ e \in S /\ \A y \in S : e <= y
  BY <1>4, LeastOfNumbers
<1>7. e \in Nat /\ c + 2 <= e /\ e <= m + 1
  BY <1>2, <1>6
<1>8. StarsUpTo(s, c, e - 1)
  <2>1. ASSUME NEW k \in c + 1 .. e - 1 PROVE s[k] = Star
    <3>1. CASE k = c + 1
      BY <3>1
    <3>2. CASE k # c + 1
      <4>1. k \in c + 2 .. m /\ ~ (e <= k)
        BY <1>2, <1>7, <3>2
      <4>2. k \notin S
        BY <1>6, <4>1
      <4> QED BY <1>3, <4>1, <4>2
    <3> QED BY <3>1, <3>2
  <2>2. e - 1 < m => s[(e - 1) + 1] # Star
    <3> SUFFICES ASSUME e - 1 < m PROVE s[(e - 1) + 1] # Star
      OBVIOUS
    <3>1. (e - 1) + 1 = e /\ e \in c + 2 .. m
      BY <1>2, <1>7
    <3>2. s[e] # Star
      BY <1>3, <1>6, <3>1
    <3> QED BY <3>1, <3>2
  <2>3. c < e - 1 /\ e - 1 <= m
    BY <1>2, <1>7
  <2> QED BY <1>1, <2>1, <2>2, <2>3 DEF StarsUpTo
<1>9. ASSUME NEW b \in Nat, StarsUpTo(s, c, b) PROVE afterStars(s, c + 1) = b + 1
  <2>1. /\ c < b /\ b <= m /\ \A k \in c + 1 .. b : s[k] = Star
        /\ b < m => s[b + 1] # Star
    BY <1>1, <1>9 DEF StarsUpTo
  <2>2. b + 1 \in S
    <3>1. CASE b = m
      BY <1>2, <3>1
    <3>2. CASE b < m
      <4>1. b + 1 \in c + 2 .. m
        BY <1>2, <2>1, <3>2
      <4> QED BY <1>3, <2>1, <3>2, <4>1
    <3> QED BY <1>2, <2>1, <3>1, <3>2
  <2>3. ASSUME NEW x \in S PROVE b + 1 <= x
    <3>1. x \in c + 2 .. m + 1
      BY <1>2
    <3>2. CASE x \in c + 2 .. b
      <4>1. x \in c + 2 .. m /\ s[x] = Star
        BY <1>2, <2>1, <3>2
      <4> QED BY <1>3, <4>1
    <3> QED BY <1>2, <2>1, <3>1, <3>2
  <2>4. Min(S) = b + 1
    BY <1>4, <2>2, <2>3, LeastIs
  <2> QED BY <1>5, <2>4
<1>10. e - 1 \in Nat
  BY <1>7
<1> QED BY <1>8, <1>9, <1>10

\* The template of a secret is behind a of t.
BracesAt(t, a) ==
  /\ a + 5 <= Len(t) /\ t[a + 1] = Open
  /\ opensTemplate(t, a + 1) /\ afterTemplate(t, a + 1) = (a + 5) + 1
  /\ t[a + 2] = Open /\ ~ opensTemplate(t, a + 2)

\* The turns over a template.
LEMMA SecretTurns ==
  ASSUME NEW X, NEW t \in Seq(X), NEW s \in Seq(X), NEW f, Turns(f, t, s),
         NEW a \in Nat, BracesAt(t, a), NEW q \in 0 .. a,
         NEW c \in 0 .. Len(s), f[q] = CursorsAt(a, c), opens(s) = {}
  PROVE  /\ \A b \in Nat : StarsUpTo(s, c, b) => f[q + 1] = CursorsAt(a + 5, b)
         /\ (~ \E b \in Nat : StarsUpTo(s, c, b)) => f[Len(t)] # Final(t, s)
<1>1. PICK n, m : n = Len(t) /\ m = Len(s)
  OBVIOUS
<1>2. /\ n \in Nat /\ m \in Nat /\ q \in Nat /\ c \in Nat /\ c <= m /\ q <= a /\ a + 5 <= n
      /\ \A k \in 1 .. n : f[k] = Compare(t, s, f[k - 1])
  BY <1>1 DEF Turns, BracesAt
<1>3. /\ t[a + 1] = Open /\ opensTemplate(t, a + 1) /\ afterTemplate(t, a + 1) = (a + 5) + 1
      /\ t[a + 2] = Open /\ ~ opensTemplate(t, a + 2)
  BY DEF BracesAt
<1>4. q + 1 \in 1 .. n /\ (q + 1) - 1 = q /\ a < n /\ q \in 0 .. n /\ q + 1 \in 0 .. n
      /\ a + 1 \in Nat /\ a + 1 < n /\ (a + 1) + 1 = a + 2 /\ c + 1 \in Nat /\ (c + 1) + 1 = c + 2
  BY <1>2
<1>5. f[q + 1] = Compare(t, s, CursorsAt(a, c))
  BY <1>2, <1>4
<1>6. Open # Star
  BY DEF Open, Star
<1>7. CASE c < m /\ s[c + 1] = Star
  <2>1. Compare(t, s, CursorsAt(a, c)) = [ts |-> (a + 5) + 1, rs |-> afterStars(s, c + 1)]
    <3>1. c < Len(s) /\ a < Len(t)
      BY <1>1, <1>4, <1>7
    <3>2. t[a + 1] # s[c + 1]
      BY <1>3, <1>6, <1>7
    <3>3. c < Len(s) /\ t[a + 1] # s[c + 1] /\ s[c + 1] = Star /\ opensTemplate(t, a + 1) =>
              Compare(t, s, CursorsAt(a, c)) =
                [ts |-> afterTemplate(t, a + 1), rs |-> afterStars(s, c + 1)]
      BY ONLY <1>2, <3>1, t \in Seq(X), s \in Seq(X), a \in Nat, CompareAt
    <3> QED BY <1>3, <1>7, <3>1, <3>2, <3>3
  <2>2. c < Len(s)
    BY <1>1, <1>7
  <2>3. /\ \E b \in Nat : StarsUpTo(s, c, b)
        /\ \A b \in Nat : StarsUpTo(s, c, b) => afterStars(s, c + 1) = b + 1
    BY ONLY <1>2, <1>7, <2>2, s \in Seq(X), StarsAre
  <2> QED BY <1>5, <2>1, <2>3 DEF CursorsAt
<1>8. CASE ~ (c < m /\ s[c + 1] = Star)
  <2>1. ~ \E b \in Nat : StarsUpTo(s, c, b)
    <3> SUFFICES ASSUME NEW b \in Nat, StarsUpTo(s, c, b) PROVE FALSE
      OBVIOUS
    <3>1. c < b /\ b <= m /\ \A k \in c + 1 .. b : s[k] = Star
      BY <1>1 DEF StarsUpTo
    <3>2. c < m /\ c + 1 \in c + 1 .. b
      BY <1>2, <3>1
    <3> QED BY <1>8, <3>1, <3>2
  <2>2. f[n] # Final(t, s)
    <3>1. CASE c < m /\ s[c + 1] = Open
      <4>1. f[q + 1] = CursorsAt(a + 1, c + 1)
        <5>1. c < Len(s) /\ a < Len(t)
          BY <1>1, <1>4, <3>1
        <5>2. c < Len(s) /\ t[a + 1] = s[c + 1] =>
                Compare(t, s, CursorsAt(a, c)) = CursorsAt(a + 1, c + 1)
          BY ONLY <1>2, <5>1, t \in Seq(X), s \in Seq(X), a \in Nat, CompareAt
        <5> QED BY <1>3, <1>5, <3>1, <5>1, <5>2
      <4>2. c + 1 >= m \/ t[a + 2] # s[c + 2]
        <5> SUFFICES ASSUME c + 1 < m, s[c + 2] = Open PROVE FALSE
          BY <1>2, <1>3
        <5>1. c + 1 \in 1 .. m - 1
          BY <1>2
        <5>2. c + 1 \in opens(s)
          BY <1>1, <1>4, <3>1, <5>1 DEF opens
        <5> QED BY <5>2
      <4>3. PICK u, v : u = a + 1 /\ v = c + 1
        OBVIOUS
      <4>4. /\ u \in Nat /\ v \in Nat /\ u < n /\ ~ opensTemplate(t, u + 1)
            /\ v >= m \/ t[u + 1] # s[v + 1]
        BY <1>3, <1>4, <4>2, <4>3
      <4>5. Compare(t, s, CursorsAt(u, v)) = CursorsAt(u, v)
        <5>1. u < Len(t) /\ (v >= Len(s) \/ t[u + 1] # s[v + 1])
          BY <1>1, <4>4
        <5> QED BY ONLY <4>4, <5>1, t \in Seq(X), s \in Seq(X), CompareAt
      <4> QED BY ONLY <1>1, <1>2, <1>4, <4>1, <4>3, <4>4, <4>5, Turns(f, t, s), StuckInside
    <3>2. CASE ~ (c < m /\ s[c + 1] = Open)
      <4>1. c >= m \/ (t[a + 1] # s[c + 1] /\ s[c + 1] # Star)
        BY <1>2, <1>3, <1>8, <3>2
      <4>2. Compare(t, s, CursorsAt(a, c)) = CursorsAt(a, c)
        <5>1. a < Len(t) /\ (c >= Len(s) \/ (t[a + 1] # s[c + 1] /\ s[c + 1] # Star))
          BY <1>1, <1>4, <4>1
        <5> QED BY ONLY <1>2, <5>1, a \in Nat, t \in Seq(X), s \in Seq(X), CompareAt
      <4>3. f[q] = CursorsAt(a, c)
        OBVIOUS
      <4> QED BY ONLY <1>1, <1>2, <1>4, <4>2, <4>3, a \in Nat, Turns(f, t, s), StuckInside
    <3> QED BY <3>1, <3>2
  <2>3. \A b \in Nat : ~ StarsUpTo(s, c, b)
    BY <2>1
  <2> QED BY <1>1, <2>2, <2>3
<1> QED BY <1>7, <1>8

-----------------------------------------------------------------------------
(* Where the parts of a body are in its template.                           *)

Letter == Readable \cup {Open, "p", Close}

\* The braces end at the second of those that close them.
LEMMA BracesAre ==
  ASSUME NEW X, NEW t \in Seq(X), NEW a \in Nat, a + 5 <= Len(t),
         t[a + 1] = Open, t[a + 2] = Open, t[a + 3] = "p", t[a + 4] = Close, t[a + 5] = Close
  PROVE  BracesAt(t, a)
<1>1. PICK n, i : n = Len(t) /\ i = a + 1
  OBVIOUS
<1>2. n \in Nat /\ i \in Nat /\ i + 2 = a + 3 /\ i + 1 = a + 2 /\ i < n /\ a + 5 <= n
  BY <1>1
<1>3. Open # Close /\ "p" # Open /\ "p" # Close
  BY DEF Open, Close
<1>4. PICK S : S = closing(t, i)
  OBVIOUS
<1>5. S = {k \in a + 3 .. n : t[k] = Close}
  BY <1>1, <1>2, <1>4 DEF closing
<1>6. PICK x, y : x = a + 4 /\ y = a + 5
  OBVIOUS
<1>7. x \in Nat /\ y \in Nat /\ x < y /\ x \in a + 3 .. n /\ y \in a + 3 .. n
  BY <1>2, <1>6
<1>8. x \in S /\ y \in S /\ a + 3 \notin S /\ S \subseteq a + 3 .. n
  BY <1>3, <1>5, <1>6, <1>7
<1>9. ASSUME NEW k \in S PROVE k \in Nat /\ x <= k /\ (k # x => y <= k)
  <2>1. k \in a + 3 .. n /\ k # a + 3
    BY <1>8
  <2> QED BY <1>2, <1>6, <2>1
<1>10. Min(S) = x
  <2>1. S \subseteq Nat /\ \A k \in S : x <= k
    BY <1>9
  <2> QED BY <1>8, <2>1, LeastIs
<1>11. Min(S \ {x}) = y
  <2>1. PICK R : R = S \ {x}
    OBVIOUS
  <2>2. R \subseteq Nat /\ y \in R /\ \A k \in R : y <= k
    BY <1>7, <1>8, <1>9, <2>1
  <2>3. Min(R) = y
    BY <2>2, LeastIs
  <2> QED BY <2>1, <2>3
<1>12. Cardinality(S) > 1
  <2>1. IsFiniteSet(a + 3 .. n)
    BY <1>2, FS_Interval
  <2>2. IsFiniteSet(S)
    BY <1>8, <2>1, FS_Subset
  <2>3. IsFiniteSet(S \ {x}) /\ Cardinality(S \ {x}) = Cardinality(S) - 1
    BY <1>8, <2>2, FS_RemoveElement
  <2>4. S \ {x} # {}
    BY <1>7, <1>8
  <2>5. PICK R : R = S \ {x}
    OBVIOUS
  <2>6. Cardinality(R) # 0 /\ Cardinality(R) \in Nat
    BY <2>3, <2>4, <2>5, FS_EmptySet, FS_CardinalityType
  <2>7. Cardinality(S) \in Nat
    BY <2>2, FS_CardinalityType
  <2> QED BY <2>3, <2>5, <2>6, <2>7
<1>13. opensTemplate(t, i)
  BY <1>1, <1>2, <1>4, <1>12 DEF opensTemplate
<1>14. afterTemplate(t, i) = y + 1
  BY <1>4, <1>10, <1>11, Zenon DEF afterTemplate
<1>15. ~ opensTemplate(t, a + 2)
  <2>1. (a + 2) + 1 = a + 3
    BY <1>2
  <2>2. t[(a + 2) + 1] # Open
    BY <1>3, <2>1
  <2> QED BY <2>2 DEF opensTemplate
<1> QED BY <1>1, <1>2, <1>6, <1>13, <1>14, <1>15 DEF BracesAt

PartFieldsOf(part) ==
  part.kind \in {"text", "param", "secret"} /\ part.value \in Seq(STRING)

\* What a part of a template is made of.
LEMMA TemplateOfPart ==
  ASSUME NEW part \in BodyPart
  PROVE  /\ PartFieldsOf(part)
         /\ templateOf(part) \in Seq(Letter)
         /\ part.kind # "secret" => templateOf(part) = part.value
         /\ part.kind = "secret" =>
              /\ Len(templateOf(part)) = 5
              /\ templateOf(part)[1] = Open /\ templateOf(part)[2] = Open
              /\ templateOf(part)[3] = "p"
              /\ templateOf(part)[4] = Close /\ templateOf(part)[5] = Close
<1>1. PartFieldsOf(part)
  BY DEF BodyPart, PartFieldsOf
<1>2. PICK X, o, p, c : X = Letter /\ o = Open /\ p = "p" /\ c = Close
  OBVIOUS
<1>3. o \in X /\ p \in X /\ c \in X
  BY ONLY <1>2 DEF Letter
<1>4. PICK b : b = <<o, o, p, c, c>>
  OBVIOUS
<1>5. /\ b \in Seq(X) /\ Len(b) = 5
      /\ b[1] = o /\ b[2] = o /\ b[3] = p /\ b[4] = c /\ b[5] = c
  BY <1>3, <1>4
<1>6. Braces = b
  BY <1>2, <1>4 DEF Braces
<1>7. part.value \in Seq(X)
  <2>1. part.value \in Seq(STRING) /\ STRING \subseteq X
    BY <1>1, <1>2 DEF PartFieldsOf, Letter, Readable, Byte
  <2> QED BY <2>1, SubsetOfSequences
<1>8. templateOf(part) = IF part.kind = "secret" THEN b ELSE part.value
  BY <1>6 DEF templateOf
<1> QED BY <1>1, <1>2, <1>5, <1>7, <1>8

\* Part i of a body is behind off[i] of its template.
InTemplate(t, off, body, n) ==
  /\ off \in [1 .. n + 1 -> Nat] /\ off[1] = 0 /\ off[n + 1] = Len(t)
  /\ \A i \in 1 .. n : off[i + 1] <= Len(t)
  /\ \A i \in 1 .. n : body[i].kind = "secret" =>
       off[i + 1] = off[i] + 5 /\ BracesAt(t, off[i])
  /\ \A i \in 1 .. n : body[i].kind # "secret" =>
       /\ off[i + 1] = off[i] + Len(body[i].value)
       /\ \A k \in 1 .. Len(body[i].value) :
            t[off[i] + k] = body[i].value[k] /\ ~ opensTemplate(t, off[i] + k)

\* The parts of a body are in its template, and nothing but a secret opens one.
LEMMA TemplatePlaces ==
  ASSUME NEW n \in Nat, NEW body \in Seq(BodyPart), n = Len(body), isPlain(body),
         NEW t, t = template(body)
  PROVE  t \in Seq(Letter) /\ \E off : InTemplate(t, off, body, n)
<1>1. PICK b : b = [i \in 1 .. n |-> templateOf(body[i])]
  OBVIOUS
<1>2. \A i \in 1 .. n : body[i] \in BodyPart
  OBVIOUS
<1>3. /\ \A i \in 1 .. n : b[i] = templateOf(body[i]) /\ b[i] \in Seq(Letter) /\ Len(b[i]) \in Nat
      /\ b \in Seq(Seq(Letter)) /\ Len(b) = n
  <2>1. \A i \in 1 .. n : b[i] = templateOf(body[i]) /\ b[i] \in Seq(Letter)
    BY <1>1, <1>2, TemplateOfPart
  <2>2. PICK Y : Y = Seq(Letter)
    OBVIOUS
  <2>3. b = [i \in 1 .. n |-> b[i]] /\ \A i \in 1 .. n : b[i] \in Y
    BY <1>1, <2>1, <2>2
  <2>4. b \in Seq(Y) /\ Len(b) = n
    BY ONLY <2>3, n \in Nat, IsSequence
  <2> QED BY <2>1, <2>2, <2>4
<1>4. PICK mask : mask = [i \in 1 .. n |-> [k \in 1 .. Len(b[i]) |-> body[i].kind = "secret"]]
  OBVIOUS
<1>5. ASSUME NEW i \in 1 .. n
      PROVE  /\ mask[i] \in Seq(BOOLEAN) /\ Len(mask[i]) = Len(b[i])
             /\ \A k \in 1 .. Len(b[i]) : mask[i][k] = (body[i].kind = "secret")
  <2>1. PICK m, u : m = mask[i] /\ u = Len(b[i])
    OBVIOUS
  <2>2. m = [k \in 1 .. u |-> body[i].kind = "secret"] /\ u \in Nat
    BY <1>3, <1>4, <2>1
  <2>3. \A k \in 1 .. u : m[k] = (body[i].kind = "secret")
    BY ONLY <2>2, Zenon
  <2>4. \A k \in 1 .. u : m[k] \in BOOLEAN
    BY ONLY <2>3, Zenon
  <2>5. m = [k \in 1 .. u |-> m[k]]
    BY <2>2
  <2>6. m \in Seq(BOOLEAN) /\ Len(m) = u
    <3>1. PICK Y : Y = BOOLEAN
      OBVIOUS
    <3>2. u \in Nat
      BY <2>2
    <3>3. \A k \in 1 .. u : m[k] \in Y
      BY ONLY <2>4, <3>1, Zenon
    <3>4. m \in Seq(Y) /\ Len(m) = u
      BY ONLY <2>5, <3>2, <3>3, IsSequence
    <3> QED BY <3>1, <3>4
  <2> QED BY <2>1, <2>3, <2>6
<1>6. mask \in Seq(Seq(BOOLEAN)) /\ Len(mask) = n
  <2>1. PICK Y : Y = Seq(BOOLEAN)
    OBVIOUS
  <2>2. mask = [i \in 1 .. n |-> mask[i]] /\ \A i \in 1 .. n : mask[i] \in Y
    BY <1>4, <1>5, <2>1
  <2>3. mask \in Seq(Y) /\ Len(mask) = n
    BY ONLY <2>2, n \in Nat, IsSequence
  <2> QED BY <2>1, <2>3
<1>7. PICK off : Offsets(off, b, n)
  <2> DEFINE size == [i \in 1 .. n + 1 |-> IF i <= n THEN Len(b[i]) ELSE 0]
  <2>1. size \in [1 .. n + 1 -> Nat] /\ n + 1 \in Nat /\ \A i \in 1 .. n : size[i] = Len(b[i])
    BY <1>3
  <2> HIDE DEF size
  <2>2. PICK o \in [1 .. n + 1 -> Nat] :
          \A i \in 1 .. n + 1 : o[i] = IF i = 1 THEN 0 ELSE o[i - 1] + size[i - 1]
    BY ONLY <2>1, PrefixSums
  <2>3. ASSUME NEW i \in 1 .. n PROVE o[i + 1] = o[i] + Len(b[i])
    <3>1. i + 1 \in 1 .. n + 1 /\ i + 1 # 1 /\ (i + 1) - 1 = i
      OBVIOUS
    <3>2. o[i + 1] = o[i] + size[i]
      BY <2>2, <3>1
    <3> QED BY <2>1, <3>2
  <2>4. o[1] = 0
    BY <2>2
  <2> QED BY <1>3, <2>2, <2>3, <2>4 DEF Offsets
<1>8. /\ off \in [1 .. n + 1 -> Nat] /\ off[1] = 0
      /\ \A i \in 1 .. n : off[i + 1] = off[i] + Len(b[i])
  BY <1>7 DEF Offsets
<1>9. Offsets(off, mask, n)
  BY <1>5, <1>6, <1>8 DEF Offsets
<1>10. t \in Seq(Letter) /\ Placed(t, off, b, n)
  <2>1. t = FlattenSeq(b)
    BY <1>1 DEF template
  <2> QED BY ONLY <1>3, <1>7, <2>1, n \in Nat, FlattenedAt
<1>11. Placed(inSecret(body), off, mask, n)
  <2>1. inSecret(body) = FlattenSeq(mask)
    <3>1. mask = [i \in 1 .. n |->
                    [k \in 1 .. Len(templateOf(body[i])) |-> body[i].kind = "secret"]]
      BY <1>3, <1>4
    <3> QED BY <3>1 DEF inSecret
  <2>2. PICK flat : flat = inSecret(body)
    OBVIOUS
  <2>3. Placed(flat, off, mask, n)
    BY ONLY <1>6, <1>9, <2>1, <2>2, n \in Nat, FlattenedAt
  <2> QED BY <2>2, <2>3
<1>12. /\ off[n + 1] = Len(t) /\ Len(t) \in Nat
       /\ \A i \in 1 .. n : \A k \in 1 .. Len(b[i]) : t[off[i] + k] = b[i][k]
  BY <1>10 DEF Placed
<1>13. \A i \in 1 .. n : off[i + 1] <= Len(t)
  <2> DEFINE P == {m \in Nat : m <= n => off[(n - m) + 1] <= Len(t)}
  <2>1. 0 \in P
    BY <1>12
  <2>2. ASSUME NEW m \in Nat, m \in P PROVE m + 1 \in P
    <3> SUFFICES ASSUME m + 1 <= n PROVE off[(n - (m + 1)) + 1] <= Len(t)
      OBVIOUS
    <3>1. PICK j : j = n - m
      OBVIOUS
    <3>2. j \in 1 .. n /\ j + 1 \in 1 .. n + 1 /\ j \in 1 .. n + 1 /\ (n - (m + 1)) + 1 = j
      BY <3>1
    <3>3. off[j + 1] <= Len(t)
      BY <2>2, <3>1
    <3>4. off[j + 1] = off[j] + Len(b[j]) /\ off[j] \in Nat /\ Len(b[j]) \in Nat
      BY <1>3, <1>8, <3>2
    <3>5. off[j] <= Len(t)
      BY <1>12, <3>3, <3>4
    <3> QED BY <3>2, <3>5
  <2>3. Nat \subseteq P
    <3> HIDE DEF P
    <3> QED BY <2>1, <2>2, InductionOverNat
  <2> SUFFICES ASSUME NEW i \in 1 .. n PROVE off[i + 1] <= Len(t)
    OBVIOUS
  <2>4. PICK m : m = n - i
    OBVIOUS
  <2>5. m \in Nat /\ m <= n /\ n - m = i
    BY <2>4
  <2> QED BY <2>3, <2>5
<1>14. ASSUME NEW i \in 1 .. n, body[i].kind = "secret"
       PROVE  off[i + 1] = off[i] + 5 /\ BracesAt(t, off[i])
  <2>1. PICK a : a = off[i]
    OBVIOUS
  <2>2. a \in Nat /\ Len(b[i]) = 5 /\ off[i + 1] = a + 5 /\ a + 5 <= Len(t)
    <3>1. i \in 1 .. n + 1
      OBVIOUS
    <3>2. Len(b[i]) = 5
      BY <1>2, <1>3, <1>14, TemplateOfPart
    <3> QED BY <1>8, <1>13, <2>1, <3>1, <3>2
  <2>3. \A k \in 1 .. 5 : t[a + k] = templateOf(body[i])[k]
    BY <1>3, <1>12, <2>1, <2>2
  <2>4. /\ t[a + 1] = Open /\ t[a + 2] = Open /\ t[a + 3] = "p"
        /\ t[a + 4] = Close /\ t[a + 5] = Close
    BY <1>2, <1>14, <2>3, TemplateOfPart
  <2>5. BracesAt(t, a)
    BY <1>10, <2>2, <2>4, BracesAre
  <2> QED BY <2>1, <2>2, <2>5
<1>15. ASSUME NEW i \in 1 .. n, body[i].kind # "secret"
       PROVE  /\ off[i + 1] = off[i] + Len(body[i].value)
              /\ \A k \in 1 .. Len(body[i].value) :
                   t[off[i] + k] = body[i].value[k] /\ ~ opensTemplate(t, off[i] + k)
  <2>1. b[i] = body[i].value
    BY <1>2, <1>3, <1>15, TemplateOfPart
  <2>2. ASSUME NEW k \in 1 .. Len(b[i]) PROVE ~ opensTemplate(t, off[i] + k)
    <3>1. PICK p : p = off[i] + k
      OBVIOUS
    <3>2. p \in Nat /\ 1 <= p
      <4>1. off[i] \in Nat /\ Len(b[i]) \in Nat
        <5>1. i \in 1 .. n + 1
          OBVIOUS
        <5> QED BY <1>3, <1>8, <5>1
      <4> QED BY <3>1, <4>1
    <3>3. inSecret(body)[p] = FALSE
      <4>1. inSecret(body)[p] = mask[i][k]
        BY <1>5, <1>11, <3>1 DEF Placed
      <4>2. mask[i][k] = (body[i].kind = "secret")
        BY <1>5
      <4>3. (body[i].kind = "secret") = FALSE
        BY <1>15
      <4> QED BY <4>1, <4>2, <4>3, Zenon
    <3> SUFFICES ASSUME opensTemplate(t, p) PROVE FALSE
      BY <3>1
    <3>4. p \in 1 .. Len(t) - 1 /\ t[p] = Open /\ t[p + 1] = Open
      BY <1>12, <3>2 DEF opensTemplate
    <3>5. p \in opens(t)
      BY <3>4 DEF opens
    <3>6. inSecret(body)[p]
      BY <3>5 DEF isPlain
    <3> QED BY <3>3, <3>6, Zenon
  <2> QED BY <1>8, <1>12, <2>1, <2>2
<1>16. InTemplate(t, off, body, n)
  BY <1>8, <1>12, <1>13, <1>14, <1>15 DEF InTemplate
<1> QED BY <1>10, <1>16

-----------------------------------------------------------------------------
(* A template matches what can be cut into the parts of its body.           *)

\* What is between a and b of s may be a part.
IsPart(part, s, a, b) ==
  IF part.kind = "secret"
  THEN a < b /\ \A k \in a + 1 .. b : s[k] = Star
  ELSE b = a + Len(part.value) /\ \A k \in 1 .. Len(part.value) : s[a + k] = part.value[k]

\* What hasParts says of one part.
Fits(part, p, a, b) ==
  /\ a <= b
  /\ IF part.kind = "secret" THEN p # <<>> /\ \A k \in DOMAIN p : p[k] = Star
     ELSE p = part.value

LEMMA PartOfString ==
  ASSUME NEW X, NEW s \in Seq(X), NEW part, PartFieldsOf(part),
         NEW a \in 0 .. Len(s), NEW b \in 0 .. Len(s), NEW p, p = SubSeq(s, a + 1, b)
  PROVE  Fits(part, p, a, b) <=> IsPart(part, s, a, b)
<1>1. PICK m, u : m = Len(s) /\ u = part.value
  OBVIOUS
<1>2. m \in Nat /\ a \in 0 .. m /\ b \in 0 .. m /\ u \in Seq(STRING) /\ Len(u) \in Nat
  BY <1>1 DEF PartFieldsOf
<1>3. CASE a < b
  <2>1. /\ p \in Seq(X) /\ Len(p) = b - a /\ DOMAIN p = 1 .. b - a
        /\ \A k \in 1 .. b - a : p[k] = s[a + k]
    <3>1. b \in 1 .. Len(s)
      BY <1>1, <1>2, <1>3
    <3>2. /\ p \in Seq(X) /\ Len(p) = b - a
          /\ \A k \in 1 .. b - a : p[k] = s[a + k]
      BY <1>3, <3>1, PartOf
    <3> QED BY <3>2
  <2>2. p # <<>>
    <3>1. Len(p) # 0
      BY <1>2, <1>3, <2>1
    <3> QED BY <3>1
  <2>3. (\A k \in DOMAIN p : p[k] = Star) <=> \A k \in a + 1 .. b : s[k] = Star
    <3>1. ASSUME \A k \in DOMAIN p : p[k] = Star, NEW k \in a + 1 .. b PROVE s[k] = Star
      <4>1. PICK j : j = k - a
        OBVIOUS
      <4>2. j \in 1 .. b - a /\ a + j = k
        BY <1>2, <4>1
      <4>3. p[j] = Star /\ p[j] = s[a + j]
        BY <2>1, <3>1, <4>2
      <4> QED BY <4>2, <4>3
    <3>2. ASSUME \A k \in a + 1 .. b : s[k] = Star, NEW k \in DOMAIN p PROVE p[k] = Star
      <4>1. k \in 1 .. b - a /\ a + k \in a + 1 .. b
        BY <1>2, <2>1
      <4> QED BY <2>1, <3>2, <4>1
    <3> QED BY <3>1, <3>2
  <2>4. p = u <=> b = a + Len(u) /\ \A k \in 1 .. Len(u) : s[a + k] = u[k]
    <3>1. ASSUME p = u PROVE b = a + Len(u) /\ \A k \in 1 .. Len(u) : s[a + k] = u[k]
      BY <1>2, <2>1, <3>1
    <3>2. ASSUME b = a + Len(u), \A k \in 1 .. Len(u) : s[a + k] = u[k] PROVE p = u
      <4>1. Len(p) = Len(u) /\ b - a = Len(u)
        BY <1>2, <2>1, <3>2
      <4>2. \A k \in 1 .. Len(u) : p[k] = u[k]
        BY <2>1, <3>2, <4>1
      <4>3. p = [k \in 1 .. Len(u) |-> p[k]] /\ u = [k \in 1 .. Len(u) |-> u[k]]
        BY <1>2, <2>1, <4>1
      <4> QED BY <4>2, <4>3
    <3> QED BY <3>1, <3>2
  <2>5. a <= b
    BY <1>2, <1>3
  <2> QED BY <1>1, <1>3, <2>2, <2>3, <2>4, <2>5 DEF IsPart, Fits
<1>4. CASE a = b
  <2>1. p = <<>>
    <3>1. p = SubSeq(s, a + 1, a) /\ a \in Nat /\ ~ (a + 1 <= a)
      BY <1>2, <1>4
    <3> QED BY ONLY <3>1
  <2>2. p = u <=> Len(u) = 0
    <3>1. u \in Seq(STRING) /\ Len(<<>>) = 0
      BY <1>2
    <3>2. Len(u) = 0 => u = <<>>
      BY ONLY <3>1, EmptySeq
    <3> QED BY <2>1, <3>1, <3>2
  <2>3. a <= b /\ ~ (a < b) /\ (b = a + Len(u) <=> Len(u) = 0)
    BY <1>2, <1>4
  <2>4. Len(u) = 0 => \A k \in 1 .. Len(u) : s[a + k] = u[k]
    OBVIOUS
  <2> QED BY <1>1, <2>1, <2>2, <2>3, <2>4 DEF IsPart, Fits
<1>5. CASE b < a
  <2>1. ~ (a <= b) /\ ~ (a < b) /\ b # a + Len(u)
    BY <1>2, <1>5
  <2>2. ~ Fits(part, p, a, b)
    BY <2>1 DEF Fits
  <2>3. ~ IsPart(part, s, a, b)
    BY <1>1, <2>1 DEF IsPart
  <2> QED BY <2>2, <2>3
<1> QED BY <1>2, <1>3, <1>4, <1>5

\* s is cut into the first m parts.
CutInto(cut, body, s, m) ==
  /\ cut \in [0 .. m -> 0 .. Len(s)] /\ cut[0] = 0
  /\ \A i \in 1 .. m : IsPart(body[i], s, cut[i - 1], cut[i])

LEMMA PartsOfString ==
  ASSUME NEW X, NEW s \in Seq(X), NEW body \in Seq(BodyPart), NEW n \in Nat, n = Len(body)
  PROVE  hasParts(body, s) <=> \E cut : CutInto(cut, body, s, n) /\ cut[n] = Len(s)
<1> DEFINE FitsIn(cut, i) ==
             Fits(body[i], SubSeq(s, cut[i - 1] + 1, cut[i]), cut[i - 1], cut[i])
<1>1. ASSUME NEW cut \in [0 .. n -> 0 .. Len(s)], NEW i \in 1 .. n
      PROVE  FitsIn(cut, i) <=> IsPart(body[i], s, cut[i - 1], cut[i])
  <2>1. PICK a, b, part : a = cut[i - 1] /\ b = cut[i] /\ part = body[i]
    OBVIOUS
  <2>2. a \in 0 .. Len(s) /\ b \in 0 .. Len(s)
    <3>1. i - 1 \in 0 .. n /\ i \in 0 .. n
      OBVIOUS
    <3> QED BY <2>1, <3>1
  <2>3. PartFieldsOf(part)
    BY <2>1, TemplateOfPart
  <2>4. PICK p : p = SubSeq(s, a + 1, b)
    OBVIOUS
  <2>5. Fits(part, p, a, b) <=> IsPart(part, s, a, b)
    BY ONLY <2>2, <2>3, <2>4, s \in Seq(X), PartOfString
  <2> QED BY <2>1, <2>4, <2>5
<1>2. hasParts(body, s) <=>
        \E cut \in [0 .. n -> 0 .. Len(s)] :
          cut[0] = 0 /\ cut[n] = Len(s) /\ \A i \in 1 .. n : FitsIn(cut, i)
  <2>1. DOMAIN body = 1 .. n
    OBVIOUS
  <2> QED BY <2>1, Zenon DEF hasParts, Fits
<1> HIDE DEF FitsIn
<1> QED BY <1>1, <1>2 DEF CutInto

\* The cursors get behind a of the template and behind c of the string in time.
LandsAt(f, a, c) == \E q \in 0 .. a : f[q] = CursorsAt(a, c)

\* The template of a body is compared with a string that opens no template.
Comparison(X, t, s, f, body, n, off) ==
  /\ t \in Seq(X) /\ s \in Seq(X) /\ opens(s) = {} /\ Turns(f, t, s)
  /\ n \in Nat /\ body \in Seq(BodyPart) /\ n = Len(body) /\ InTemplate(t, off, body, n)

\* The turns over a part: over what the part is, and over nothing else.
LEMMA PartTurns ==
  ASSUME NEW X, NEW t, NEW s, NEW f, NEW body, NEW n, NEW off,
         Comparison(X, t, s, f, body, n, off),
         NEW i \in 1 .. n, NEW c \in 0 .. Len(s), LandsAt(f, off[i], c)
  PROVE  /\ \A b \in 0 .. Len(s) :
              IsPart(body[i], s, c, b)
                /\ (body[i].kind = "secret" /\ b < Len(s) => s[b + 1] # Star)
              => LandsAt(f, off[i + 1], b)
         /\ f[Len(t)] = Final(t, s) =>
              \E b \in 0 .. Len(s) :
                /\ IsPart(body[i], s, c, b)
                /\ LandsAt(f, off[i + 1], b)
<1>given. /\ t \in Seq(X) /\ s \in Seq(X) /\ opens(s) = {} /\ Turns(f, t, s)
      /\ n \in Nat /\ body \in Seq(BodyPart) /\ n = Len(body) /\ InTemplate(t, off, body, n)
  BY DEF Comparison
<1>1. PICK a, part, m : a = off[i] /\ part = body[i] /\ m = Len(s)
  OBVIOUS
<1>cursors. PICK q \in 0 .. off[i] : f[q] = CursorsAt(off[i], c)
  BY DEF LandsAt
<1>2. /\ a \in Nat /\ off[i + 1] \in Nat /\ off[i + 1] <= Len(t) /\ m \in Nat /\ Len(t) \in Nat
      /\ q \in 0 .. a /\ c \in 0 .. m /\ c \in 0 .. Len(s) /\ f[q] = CursorsAt(a, c)
  <2>1. i \in 1 .. n + 1 /\ i + 1 \in 1 .. n + 1
    BY <1>given
  <2> QED BY <1>given, <1>1, <1>cursors, <2>1 DEF InTemplate
<1>3. PartFieldsOf(part)
  BY <1>given, <1>1, TemplateOfPart
<1>4. CASE part.kind = "secret"
  <2>1. off[i + 1] = a + 5 /\ BracesAt(t, a)
    BY <1>given, <1>1, <1>4 DEF InTemplate
  <2>2. /\ \A b \in Nat : StarsUpTo(s, c, b) => f[q + 1] = CursorsAt(a + 5, b)
        /\ (~ \E b \in Nat : StarsUpTo(s, c, b)) => f[Len(t)] # Final(t, s)
    <3>1. a \in Nat /\ q \in 0 .. a /\ c \in 0 .. Len(s) /\ f[q] = CursorsAt(a, c)
      BY ONLY <1>2
    <3>2. BracesAt(t, a)
      BY ONLY <2>1
    <3> QED BY ONLY <3>1, <3>2, <1>given,
                    SecretTurns, Zenon
  <2>3. q + 1 \in 0 .. off[i + 1]
    BY <1>2, <2>1
  <2>4. ASSUME NEW b \in 0 .. Len(s), IsPart(part, s, c, b), b < Len(s) => s[b + 1] # Star
        PROVE  LandsAt(f, off[i + 1], b)
    <3>1. StarsUpTo(s, c, b)
      BY <1>4, <2>4 DEF IsPart, StarsUpTo
    <3>2. f[q + 1] = CursorsAt(off[i + 1], b)
      BY <2>1, <2>2, <3>1
    <3> QED BY <2>3, <3>2 DEF LandsAt
  <2>5. ASSUME f[Len(t)] = Final(t, s)
        PROVE  \E b \in 0 .. Len(s) :
                 /\ IsPart(part, s, c, b)
                 /\ LandsAt(f, off[i + 1], b)
    <3>1. PICK b \in Nat : StarsUpTo(s, c, b)
      BY <2>2, <2>5
    <3>2. IsPart(part, s, c, b) /\ b \in 0 .. Len(s)
      BY <1>4, <3>1 DEF IsPart, StarsUpTo
    <3>3. f[q + 1] = CursorsAt(off[i + 1], b)
      BY <2>1, <2>2, <3>1
    <3> QED BY <2>3, <3>2, <3>3 DEF LandsAt
  <2> QED BY <1>1, <1>4, <2>4, <2>5
<1>5. CASE part.kind # "secret"
  <2>1. PICK u, length : u = part.value /\ length = Len(u)
    OBVIOUS
  <2>2. length \in Nat
    BY <1>3, <2>1 DEF PartFieldsOf
  <2>3. /\ off[i + 1] = a + length
        /\ \A k \in 1 .. length : t[a + k] = u[k] /\ ~ opensTemplate(t, a + k)
    BY <1>given, <1>1, <1>5, <2>1 DEF InTemplate
  <2>4. a + length <= Len(t)
    BY <1>2, <2>3
  <2>5. /\ SameText(t, s, a, c, length) => f[q + length] = CursorsAt(a + length, c + length)
        /\ ~ SameText(t, s, a, c, length) => f[Len(t)] # Final(t, s)
    <3>1. a \in Nat /\ q \in 0 .. a /\ c \in 0 .. Len(s) /\ f[q] = CursorsAt(a, c)
      BY ONLY <1>2
    <3>2. \A k \in 1 .. length : ~ opensTemplate(t, a + k)
      BY ONLY <2>3
    <3> QED BY ONLY <2>2, <2>4, <3>1, <3>2, <1>given,
                    TextTurns, Zenon
  <2>6. SameText(t, s, a, c, length) <=>
          c + length <= m /\ \A k \in 1 .. length : s[c + k] = u[k]
    BY <1>1, <2>3 DEF SameText
  <2>7. \A b : IsPart(part, s, c, b) <=>
                 b = c + length /\ \A k \in 1 .. length : s[c + k] = u[k]
    BY <1>5, <2>1 DEF IsPart
  <2>8. q + length \in 0 .. off[i + 1]
    BY <1>2, <2>2, <2>3
  <2>9. ASSUME NEW b \in 0 .. Len(s), IsPart(part, s, c, b)
        PROVE  LandsAt(f, off[i + 1], b)
    <3>1. b = c + length /\ b <= m
      BY <1>1, <1>2, <2>7, <2>9
    <3>2. SameText(t, s, a, c, length)
      BY <2>6, <2>7, <2>9, <3>1
    <3>3. f[q + length] = CursorsAt(off[i + 1], b)
      BY <2>3, <2>5, <3>1, <3>2
    <3> QED BY <2>8, <3>3 DEF LandsAt
  <2>10. ASSUME f[Len(t)] = Final(t, s)
         PROVE  \E b \in 0 .. Len(s) :
                  /\ IsPart(part, s, c, b)
                  /\ LandsAt(f, off[i + 1], b)
    <3>1. SameText(t, s, a, c, length)
      BY <2>5, <2>10
    <3>2. PICK b : b = c + length
      OBVIOUS
    <3>3. b \in 0 .. Len(s) /\ IsPart(part, s, c, b)
      <4>1. b \in 0 .. m
        BY <1>2, <2>2, <2>6, <3>1, <3>2
      <4> QED BY <1>1, <2>6, <2>7, <3>1, <3>2, <4>1
    <3>4. f[q + length] = CursorsAt(off[i + 1], b)
      BY <2>3, <2>5, <3>1, <3>2
    <3> QED BY <2>8, <3>3, <3>4 DEF LandsAt
  <2> QED BY <1>1, <2>9, <2>10
<1> QED BY <1>4, <1>5

\* When all of t is read, so is a cut of s.
LEMMA PartsAreRead ==
  ASSUME NEW X, NEW t, NEW s, NEW f, NEW body, NEW n, NEW off,
         Comparison(X, t, s, f, body, n, off), f[Len(t)] = Final(t, s)
  PROVE  \E cut : CutInto(cut, body, s, n) /\ cut[n] = Len(s)
<1>given. /\ t \in Seq(X) /\ s \in Seq(X) /\ Turns(f, t, s)
      /\ n \in Nat /\ InTemplate(t, off, body, n)
  BY DEF Comparison
<1>1. PICK L : L = Len(s)
  OBVIOUS
<1>2. L \in Nat /\ off \in [1 .. n + 1 -> Nat] /\ off[1] = 0 /\ off[n + 1] = Len(t) /\ Len(t) \in Nat
  BY <1>given, <1>1 DEF InTemplate
<1> DEFINE Reads(m, cut) ==
             /\ CutInto(cut, body, s, m)
             /\ LandsAt(f, off[m + 1], cut[m])
           P == {m \in Nat : m <= n => \E cut : Reads(m, cut)}
<1>3. 0 \in P
  <2> DEFINE cut == [i \in 0 .. 0 |-> 0]
  <2>1. cut \in [0 .. 0 -> 0 .. Len(s)] /\ cut[0] = 0
    BY <1>1, <1>2
  <2> HIDE DEF cut
  <2>2. CutInto(cut, body, s, 0)
    BY <2>1 DEF CutInto
  <2>3. f[0] = CursorsAt(0, 0)
    BY <1>given DEF Turns, FirstOf, CursorsAt
  <2>4. 0 \in 0 .. off[0 + 1] /\ f[0] = CursorsAt(off[0 + 1], cut[0])
    BY <1>2, <2>1, <2>3
  <2>5. Reads(0, cut)
    BY <2>2, <2>4 DEF LandsAt
  <2> HIDE DEF Reads
  <2> QED BY <2>5
<1>4. ASSUME NEW m \in Nat, m \in P PROVE m + 1 \in P
  <2> SUFFICES ASSUME m + 1 <= n PROVE \E cut : Reads(m + 1, cut)
    OBVIOUS
  <2>1. PICK cut : Reads(m, cut)
    BY <1>given, <1>4
  <2>2. PICK i : i = m + 1
    OBVIOUS
  <2>3. i \in 1 .. n /\ i \in Nat /\ i - 1 = m /\ m \in 0 .. m /\ i \in 1 .. n + 1
    BY <1>given, <2>2
  <2>5. cut \in [0 .. m -> 0 .. L] /\ cut[0] = 0 /\ \A j \in 1 .. m : IsPart(body[j], s, cut[j - 1], cut[j])
    BY <1>1, <2>1 DEF CutInto
  <2>6. PICK c : c = cut[m] /\ c \in 0 .. Len(s)
    BY <1>1, <2>3, <2>5
  <2>7. PICK b \in 0 .. Len(s) :
          /\ IsPart(body[i], s, c, b)
          /\ LandsAt(f, off[i + 1], b)
    <3>1. LandsAt(f, off[i], c) /\ c \in 0 .. Len(s) /\ i \in 1 .. n
      BY <2>1, <2>2, <2>3, <2>6
    <3>2. f[Len(t)] = Final(t, s) =>
              \E b \in 0 .. Len(s) : IsPart(body[i], s, c, b) /\ LandsAt(f, off[i + 1], b)
      BY ONLY <3>1, Comparison(X, t, s, f, body, n, off), PartTurns
    <3> QED BY ONLY <3>2, f[Len(t)] = Final(t, s)
  <2> DEFINE new == [j \in 0 .. i |-> IF j = i THEN b ELSE cut[j]]
  <2>8. /\ new \in [0 .. i -> 0 .. L] /\ new[i] = b /\ \A j \in 0 .. m : new[j] = cut[j]
    BY <1>1, <2>2, <2>5
  <2> HIDE DEF new
  <2>9. new[0] = 0
    BY <2>5, <2>8
  <2>10. ASSUME NEW j \in 1 .. i PROVE IsPart(body[j], s, new[j - 1], new[j])
    <3>1. CASE j = i
      <4>1. new[j - 1] = c
        BY <2>3, <2>6, <2>8, <3>1
      <4> QED BY <2>7, <2>8, <3>1, <4>1
    <3>2. CASE j # i
      <4>1. j \in 1 .. m /\ j \in 0 .. m /\ j - 1 \in 0 .. m
        BY <2>2, <3>2
      <4>2. new[j - 1] = cut[j - 1] /\ new[j] = cut[j]
        BY <2>8, <4>1
      <4> QED BY <2>5, <4>1, <4>2
    <3> QED BY <3>1, <3>2
  <2>11. CutInto(new, body, s, i)
    BY <1>1, <2>8, <2>9, <2>10 DEF CutInto
  <2>12. Reads(i, new)
    BY <2>7, <2>8, <2>11
  <2> HIDE DEF Reads
  <2> QED BY <2>2, <2>12
<1>5. PICK cut : Reads(n, cut)
  <2>1. n \in P
    <3> HIDE DEF P
    <3> QED BY <1>given, <1>3, <1>4, InductionOverNat
  <2> HIDE DEF Reads
  <2> QED BY <2>1
<1>6. PICK q \in 0 .. Len(t) : f[q] = CursorsAt(Len(t), cut[n])
  BY <1>2, <1>5 DEF LandsAt
<1>7. Compare(t, s, f[q]) = f[q]
  <2>1. PICK at : at = f[q]
    OBVIOUS
  <2>2. at.ts = Len(t) + 1
    BY <1>6, <2>1 DEF CursorsAt
  <2>3. at.ts > Len(t)
    BY <1>2, <2>2
  <2>4. Compare(t, s, at) = at
    BY ONLY <1>2, <2>2, <2>3 DEF Compare
  <2> QED BY <2>1, <2>4
<1>8. f[Len(t)] = f[q]
  BY <1>given, <1>2, <1>7, CursorsStay
<1>9. cut[n] + 1 = L + 1
  <2>1. f[q].rs = cut[n] + 1 /\ f[q].rs = L + 1
    BY <1>1, <1>6, <1>8 DEF CursorsAt, Final
  <2> QED BY <2>1
<1>10. cut[n] \in Nat
  <2>1. cut \in [0 .. n -> 0 .. L]
    BY <1>1, <1>5 DEF CutInto
  <2> QED BY <1>given, <1>2, <2>1
<1>11. cut[n] = L
  BY <1>2, <1>9, <1>10
<1> QED BY <1>1, <1>5, <1>11

\* When s is cut into the parts, all of t is read.
LEMMA CutIsRead ==
  ASSUME NEW X, NEW t, NEW s, NEW f, NEW body, NEW n, NEW off,
         Comparison(X, t, s, f, body, n, off), isPlain(body),
         NEW cut, CutInto(cut, body, s, n), cut[n] = Len(s)
  PROVE  f[Len(t)] = Final(t, s)
<1>1. PICK L : L = Len(s)
  OBVIOUS
<1>2. /\ t \in Seq(X) /\ s \in Seq(X) /\ Turns(f, t, s) /\ n \in Nat /\ n = Len(body)
      /\ body \in Seq(BodyPart) /\ InTemplate(t, off, body, n)
  BY DEF Comparison
<1>3. /\ L \in Nat /\ off \in [1 .. n + 1 -> Nat] /\ off[1] = 0 /\ off[n + 1] = Len(t)
      /\ Len(t) \in Nat
  BY <1>1, <1>2 DEF InTemplate
<1>4. /\ cut \in [0 .. n -> 0 .. L] /\ cut[0] = 0 /\ cut[n] = L
      /\ \A i \in 1 .. n : IsPart(body[i], s, cut[i - 1], cut[i])
  BY <1>1 DEF CutInto
<1>5. ASSUME NEW i \in 1 .. n, body[i].kind = "secret", cut[i] < L PROVE s[cut[i] + 1] # Star
  <2>1. i # n /\ i + 1 \in 1 .. n /\ (i + 1) - 1 = i /\ i < n
    BY <1>2, <1>3, <1>4, <1>5
  <2>2. PICK part : part = body[i + 1]
    OBVIOUS
  <2>3. part.kind # "secret" /\ part.value # <<>> /\ part.value[1] # Star
    <3>1. i \in DOMAIN body
      BY <1>2
    <3> QED BY <1>2, <1>5, <2>1, <2>2, <3>1 DEF isPlain
  <2>4. 1 \in 1 .. Len(part.value)
    <3>1. PICK u : u = part.value
      OBVIOUS
    <3>2. u \in Seq(STRING) /\ u # <<>>
      BY <1>2, <2>1, <2>2, <2>3, <3>1, TemplateOfPart DEF PartFieldsOf
    <3>3. Len(u) \in Nat /\ Len(u) # 0
      BY ONLY <3>2, EmptySeq
    <3> QED BY <3>1, <3>3
  <2>5. IsPart(part, s, cut[i], cut[i + 1])
    BY <1>4, <2>1, <2>2
  <2>6. s[cut[i] + 1] = part.value[1]
    BY <2>3, <2>4, <2>5 DEF IsPart
  <2> QED BY <2>3, <2>6
<1> DEFINE P == {m \in Nat : m <= n => LandsAt(f, off[m + 1], cut[m])}
<1>6. 0 \in P
  <2>1. f[0] = CursorsAt(0, 0)
    BY <1>2 DEF Turns, FirstOf, CursorsAt
  <2>2. LandsAt(f, 0, 0)
    BY <2>1 DEF LandsAt
  <2> QED BY <1>3, <1>4, <2>2
<1>7. ASSUME NEW m \in Nat, m \in P PROVE m + 1 \in P
  <2> SUFFICES ASSUME m + 1 <= n PROVE LandsAt(f, off[(m + 1) + 1], cut[m + 1])
    OBVIOUS
  <2>1. PICK i, c, b : i = m + 1 /\ c = cut[m] /\ b = cut[i]
    OBVIOUS
  <2>2. i \in 1 .. n /\ i - 1 = m /\ m \in 0 .. n /\ i \in 0 .. n /\ m <= n
    BY <1>2, <2>1
  <2>3. c \in 0 .. Len(s) /\ b \in 0 .. Len(s)
    BY <1>1, <1>4, <2>1, <2>2
  <2>4. IsPart(body[i], s, c, b) /\ (body[i].kind = "secret" /\ b < Len(s) => s[b + 1] # Star)
    BY <1>1, <1>4, <1>5, <2>1, <2>2
  <2>5. LandsAt(f, off[i], c)
    BY <1>7, <2>1, <2>2
  <2>6. IsPart(body[i], s, c, b) /\ (body[i].kind = "secret" /\ b < Len(s) => s[b + 1] # Star)
          => LandsAt(f, off[i + 1], b)
    <3>1. i \in 1 .. n
      BY <2>2
    <3>2. \A x \in 0 .. Len(s) :
            IsPart(body[i], s, c, x) /\ (body[i].kind = "secret" /\ x < Len(s) => s[x + 1] # Star)
              => LandsAt(f, off[i + 1], x)
      BY ONLY <2>3, <2>5, <3>1, Comparison(X, t, s, f, body, n, off), PartTurns
    <3> QED BY ONLY <2>3, <3>2
  <2> QED BY <2>1, <2>4, <2>6
<1>8. LandsAt(f, Len(t), L)
  <2>1. n \in P
    <3> HIDE DEF P
    <3> QED BY <1>2, <1>6, <1>7, InductionOverNat
  <2> QED BY <1>2, <1>3, <1>4, <2>1
<1>9. PICK q \in 0 .. Len(t) : f[q] = CursorsAt(Len(t), L)
  BY <1>8 DEF LandsAt
<1>10. Compare(t, s, f[q]) = f[q]
  <2>1. PICK at : at = f[q]
    OBVIOUS
  <2>2. at.ts = Len(t) + 1
    BY <1>9, <2>1 DEF CursorsAt
  <2>3. at.ts > Len(t)
    BY <1>3, <2>2
  <2>4. Compare(t, s, at) = at
    BY ONLY <1>3, <2>2, <2>3 DEF Compare
  <2> QED BY <2>1, <2>4
<1>11. f[Len(t)] = f[q]
  BY <1>2, <1>3, <1>10, CursorsStay
<1> QED BY <1>1, <1>9, <1>11 DEF CursorsAt, Final

\* A template matches the strings that have the parts of its body, and no other.
LEMMA TemplateMatches ==
  ASSUME NEW body \in Seq(BodyPart), isPlain(body), NEW s \in Seq(Letter), opens(s) = {}
  PROVE  matchRedactedStrings(template(body), s) <=> hasParts(body, s)
<1>1. PICK X, t, n : X = Letter /\ t = template(body) /\ n = Len(body)
  OBVIOUS
<1>2. n \in Nat
  BY <1>1
<1>3. t \in Seq(X) /\ \E off : InTemplate(t, off, body, n)
  BY ONLY <1>1, <1>2, body \in Seq(BodyPart), isPlain(body), TemplatePlaces
<1>4. PICK off : InTemplate(t, off, body, n)
  BY <1>3
<1>5. PICK f : /\ f[0] = FirstOf
               /\ \A k \in 1 .. Len(t) : f[k] = Compare(t, s, f[k - 1])
               /\ matchRedactedStrings(t, s) <=>
                    f[Len(t)] = [ts |-> Len(t) + 1, rs |-> Len(s) + 1]
  BY <1>1, <1>3, MatchLoop
<1>6. matchRedactedStrings(t, s) <=> f[Len(t)] = Final(t, s)
  BY <1>5 DEF Final
<1>7. Comparison(X, t, s, f, body, n, off)
  BY <1>1, <1>2, <1>3, <1>4, <1>5 DEF Comparison, Turns
<1>8. hasParts(body, s) <=> \E cut : CutInto(cut, body, s, n) /\ cut[n] = Len(s)
  BY <1>1, <1>2, PartsOfString
<1>9. ASSUME f[Len(t)] = Final(t, s)
      PROVE  \E cut : CutInto(cut, body, s, n) /\ cut[n] = Len(s)
  BY ONLY <1>7, <1>9, PartsAreRead
<1>10. ASSUME NEW cut, CutInto(cut, body, s, n), cut[n] = Len(s)
       PROVE  f[Len(t)] = Final(t, s)
  BY ONLY <1>7, <1>10, isPlain(body), CutIsRead
<1> QED BY <1>1, <1>6, <1>8, <1>9, <1>10

\* The body of a request, redacted, is a string.
LEMMA RedactedBody ==
  ASSUME NEW r \in Requests
  PROVE  redactedBody(r) \in Seq(Letter)
<1>1. IsRequest(r)
  BY RequestAssumption, RequestParts DEF IsRequest
<1>2. PICK d, slices, h : /\ d = createRequest(r).data /\ slices = createRequest(r).redactions
                          /\ h = Len(headerStr(r))
  OBVIOUS
<1>3. d \in Seq(Byte) /\ Len(d) \in Nat
  BY <1>1, <1>2, RequestHides DEF RedactsSecrets
<1>4. h \in Nat
  <2>1. PICK secrets : secrets = r.secrets
    OBVIOUS
  <2>2. secrets \in Nat
    BY <1>1, <2>1 DEF IsRequest
  <2>3. h = secrets + 2
    BY <1>2, <2>1, <2>2, HeaderLength
  <2> QED BY <2>2, <2>3
<1>5. PICK whole : whole = redactSlices(d, slices)
  OBVIOUS
<1>6. PICK X, star : X = Letter /\ star = Star
  OBVIOUS
<1>7. star \in X /\ Byte \subseteq X
  BY <1>6 DEF Letter, Readable
<1>8. whole \in Seq(X) /\ Len(whole) \in Nat
  <2>1. PICK Hides : Hides = {i \in 1 .. Len(d) :
                        \E k \in DOMAIN slices : slices[k].fromIndex < i /\ i <= slices[k].toIndex}
    OBVIOUS
  <2>2. whole = [i \in 1 .. Len(d) |-> IF i \in Hides THEN star ELSE d[i]]
    BY <1>5, <1>6, <2>1 DEF redactSlices
  <2>3. \A i \in 1 .. Len(d) : d[i] \in X
    BY <1>3, <1>7
  <2>4. whole = [i \in 1 .. Len(d) |-> whole[i]] /\ \A i \in 1 .. Len(d) : whole[i] \in X
    BY <1>7, <2>2, <2>3
  <2>5. whole \in Seq(X) /\ Len(whole) = Len(d)
    BY ONLY <1>3, <2>4, IsSequence
  <2> QED BY <1>3, <2>5
<1>9. SubSeq(whole, h + 1, Len(whole)) \in Seq(X)
  <2>1. \A k \in h + 1 .. Len(whole) : whole[k] \in X
    BY <1>4, <1>8
  <2>2. h + 1 \in Int /\ Len(whole) \in Int
    BY <1>4, <1>8
  <2> QED BY ONLY <1>8, <2>1, <2>2, SubSeqProperties
<1> QED BY <1>2, <1>5, <1>6, <1>9 DEF redactedBody

LEMMA TypeMatches == TypeOK => MatchesAsDocumented
<1> SUFFICES ASSUME request \in Requests, isPlain(request.body), NEW r \in Requests,
                    opens(redactedBody(r)) = {}
             PROVE  matchRedactedStrings(template(request.body), redactedBody(r))
                      <=> hasParts(request.body, redactedBody(r))
  BY DEF TypeOK, MatchesAsDocumented
<1>1. PICK body, s : body = request.body /\ s = redactedBody(r)
  OBVIOUS
<1>2. body \in Seq(BodyPart)
  BY <1>1, RequestParts
<1>3. s \in Seq(Letter)
  BY <1>1, RedactedBody
<1> QED BY <1>1, <1>2, <1>3, TemplateMatches

\* A template matches what is redacted of a body as its comment says, for any
\* requests whose bodies are plain.
THEOREM TemplatesMatchAsDocumented == Spec => []MatchesAsDocumented
BY TypeCorrect, TypeMatches, PTL
=============================================================================
