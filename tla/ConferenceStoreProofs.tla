----------------------- MODULE ConferenceStoreProofs -----------------------
(***************************************************************************)
(* For any people, rooms and number of steps: the store of a waiting room  *)
(* catches up with the server, and lists the rooms it shows people in.     *)
(*                                                                         *)
(* The server changes nothing without word of it, and the last word it has *)
(* sent of a person's status, or of their room while it counts, is so.     *)
(* Hence whatever is said on the wire is so or is followed by another word *)
(* (WordsLeadToTruth), and from that follow the same of what is shown      *)
(* (ShownLeadsToTruth) and of the answer to a load, which is shown later   *)
(* but knows of no word sent behind it (AnswerLeadsToTruth).               *)
(***************************************************************************)
EXTENDS ConferenceStore, SequenceTheorems, TLAPS

Places == Rooms \cup {NoRoom}
StatusNames == {"Unknown", "Available", "InHearing", "InConsultation", "Disconnected"}
EntryRecords == [status : StatusNames, room : Places, locked : BOOLEAN]

\* The server has everyone's room locked.
ServerEntries ==
  {e \in [People -> EntryRecords] :
     \A x \in People : e[x].locked <=> e[x].room # NoRoom}

\* What a message may be.
Told ==
  [kind : {"RoomTransfer"}, who : People, from : Places, to : Places]
    \cup [kind : {"Status"}, who : People, status : StatusNames]
    \cup [kind : {"RoomUpdate"}, room : Rooms, locked : BOOLEAN]
    \cup [kind : {"List"}, entries : ServerEntries, some : {Participants, Endpoints}]
    \cup [kind : {"Details"}, entries : ServerEntries]
    \cup [kind : Calls]

Wire == [what : Told, late : BOOLEAN]

Answers ==
  [stage : {"answered"}, entries : ServerEntries, lost : BOOLEAN, late : BOOLEAN]

\* StoreTypeOK, its flags apart from its other variables.
StoreFlags ==
  /\ hubUp \in BOOLEAN /\ loaded \in BOOLEAN /\ movingIn \in BOOLEAN
  /\ asksWho \in BOOLEAN /\ missed \in BOOLEAN /\ overtaken \in BOOLEAN
  /\ forgotten \in BOOLEAN /\ broken \in BOOLEAN

StoreSorts ==
  /\ truth \in [People -> [status : StatusNames, room : Places]]
  /\ messages \in Seq(Wire)
  /\ load \in {NoLoad, [stage |-> "asked"]} \cup Answers
  /\ shown \in [People -> EntryRecords]
  /\ listed \in [Rooms -> {"no", "open", "locked"}]
  /\ ops \in 0..MaxOps

LEMMA ToldKinds ==
  ASSUME NEW m \in Told
  PROVE  /\ m.kind = "RoomTransfer" => m.who \in People /\ m.from \in Places /\ m.to \in Places
         /\ m.kind = "Status" => m.who \in People /\ m.status \in StatusNames
         /\ m.kind = "RoomUpdate" => m.room \in Rooms /\ m.locked \in BOOLEAN
         /\ m.kind = "List" => m.entries \in ServerEntries /\ m.some \in {Participants, Endpoints}
         /\ m.kind = "Details" => m.entries \in ServerEntries
<1>1. CASE m \in [kind : {"RoomTransfer"}, who : People, from : Places, to : Places]
  BY <1>1
<1>2. CASE m \in [kind : {"Status"}, who : People, status : StatusNames]
  BY <1>2
<1>3. CASE m \in [kind : {"RoomUpdate"}, room : Rooms, locked : BOOLEAN]
  BY <1>3
<1>4. CASE m \in [kind : {"List"}, entries : ServerEntries, some : {Participants, Endpoints}]
  BY <1>4
<1>5. CASE m \in [kind : {"Details"}, entries : ServerEntries]
  BY <1>5
<1>6. CASE m \in [kind : Calls]
  BY <1>6 DEF Calls
<1>7. QED
  BY <1>1, <1>2, <1>3, <1>4, <1>5, <1>6 DEF Told

LEMMA EntriesOfTheServer ==
  ASSUME StoreSorts PROVE Entries \in ServerEntries
BY DEF StoreSorts, Entries, ServerEntries, EntryRecords, Places

\* What is sent is on the wire, or lost.
LEMMA Sent ==
  ASSUME messages \in Seq(Wire), NEW sent \in Seq(Told), NEW late \in BOOLEAN
  PROVE  LET wire == [i \in DOMAIN sent |-> [what |-> sent[i], late |-> late]]
         IN  /\ messages \o wire \in Seq(Wire)
             /\ Len(messages \o wire) = Len(messages) + Len(sent)
             /\ \A i \in 1 .. Len(messages) : (messages \o wire)[i] = messages[i]
             /\ \A i \in 1 .. Len(sent) :
                  (messages \o wire)[Len(messages) + i] = [what |-> sent[i], late |-> late]
<1> DEFINE wire == [i \in DOMAIN sent |-> [what |-> sent[i], late |-> late]]
<1>1. Len(sent) \in Nat /\ DOMAIN sent = 1 .. Len(sent) /\ Len(messages) \in Nat
      /\ \A i \in 1 .. Len(sent) : sent[i] \in Told
  BY LenProperties, ElementOfSeq
<1>2. wire \in [1 .. Len(sent) -> Wire]
  BY <1>1 DEF Wire
<1>3. wire \in Seq(Wire) /\ Len(wire) = Len(sent)
  BY <1>1, <1>2, SeqDef, LenProperties
<1>4. \A i \in 1 .. Len(sent) : wire[i] = [what |-> sent[i], late |-> late]
  BY <1>1
<1> HIDE DEF wire
<1>5. /\ messages \o wire \in Seq(Wire) /\ Len(messages \o wire) = Len(messages) + Len(sent)
      /\ \A i \in 1 .. Len(messages) + Len(sent) :
           (messages \o wire)[i] = IF i <= Len(messages) THEN messages[i] ELSE wire[i - Len(messages)]
  <2>1. /\ messages \o wire \in Seq(Wire) /\ Len(messages \o wire) = Len(messages) + Len(wire)
        /\ \A i \in 1 .. Len(messages) + Len(wire) :
             (messages \o wire)[i] = IF i <= Len(messages) THEN messages[i] ELSE wire[i - Len(messages)]
    BY <1>3, ConcatProperties
  <2>2. QED
    BY <1>3, <2>1
<1>6. \A i \in 1 .. Len(messages) : (messages \o wire)[i] = messages[i]
  BY <1>1, <1>5
<1>7. ASSUME NEW i \in 1 .. Len(sent)
      PROVE  (messages \o wire)[Len(messages) + i] = [what |-> sent[i], late |-> late]
  <2>1. Len(messages) + i \in 1 .. Len(messages) + Len(sent) /\ ~(Len(messages) + i <= Len(messages))
        /\ Len(messages) + i - Len(messages) = i
    BY <1>1
  <2>2. QED
    BY <1>4, <1>5, <2>1
<1>8. QED
  BY <1>3, <1>5, <1>6, <1>7 DEF wire

\* What a message says of a person: the status, the room, or both.
Aspects == {"status", "room"}

Sets(a, m, x) ==
  \/ m.kind = "List" /\ x \in m.some
  \/ m.kind = "Details"
  \/ a = "status" /\ m.kind = "Status" /\ m.who = x
  \/ a = "room" /\ m.kind = "Status" /\ m.who = x /\ m.status = "Disconnected"
  \/ a = "room" /\ m.kind = "RoomTransfer" /\ m.who = x

Aspect(a, entry) == IF a = "status" THEN entry.status ELSE entry.room

Says(a, m, x) ==
  IF m.kind \in {"List", "Details"} THEN Aspect(a, m.entries[x])
  ELSE IF a = "status" THEN m.status
  ELSE IF m.kind = "Status" THEN NoRoom
  ELSE m.to

\* Each message changes of everyone's entry what it says, and nothing else.
LEMMA Reduced ==
  ASSUME StoreSorts, NEW m \in Told, Reduce(m)
  PROVE  /\ shown' \in [People -> EntryRecords]
         /\ listed' \in [Rooms -> {"no", "open", "locked"}]
         /\ \A x \in People, a \in Aspects :
              Aspect(a, shown'[x]) = IF Sets(a, m, x) THEN Says(a, m, x)
                                                      ELSE Aspect(a, shown[x])
<1> USE ToldKinds DEF StoreSorts
<1>1. CASE m.kind = "RoomTransfer"
  <2>1. UpdateParticipantRoom(m.who, m.from, m.to)
    BY <1>1 DEF Reduce
  <2>2. shown' = [shown EXCEPT ![m.who].room = m.to,
                               ![m.who].locked = m.to # NoRoom /\ ListedLock(m.to)]
    BY <2>1 DEF UpdateParticipantRoom, ShowWith, ShowOnly
  <2>3. m.who \in People /\ m.to \in Places
    BY <1>1
  <2>4. \A x \in People :
          shown'[x] = IF x = m.who
                        THEN [shown[x] EXCEPT !.room = m.to,
                                  !.locked = m.to # NoRoom /\ ListedLock(m.to)]
                        ELSE shown[x]
    BY <2>2, <2>3
  <2>5. shown' \in [People -> EntryRecords]
    <3>1. \A b \in BOOLEAN, e \in EntryRecords :
            [e EXCEPT !.room = m.to, !.locked = b] \in EntryRecords
      BY <2>3 DEF EntryRecords
    <3>2. PICK b \in BOOLEAN : b = (m.to # NoRoom /\ ListedLock(m.to))
      OBVIOUS
    <3>3. \A x \in People : shown'[x] = IF x = m.who
                                         THEN [shown[x] EXCEPT !.room = m.to, !.locked = b]
                                         ELSE shown[x]
      BY <2>4, <3>2
    <3>4. \A x \in People : shown'[x] \in EntryRecords
      BY <3>1, <3>3
    <3>5. QED
      BY <2>2, <3>4
  <2>6. listed' \in [Rooms -> {"no", "open", "locked"}]
    BY <2>1, <2>3 DEF UpdateParticipantRoom, Places
  <2>7. ASSUME NEW x \in People, NEW a \in Aspects
        PROVE  Aspect(a, shown'[x]) = IF Sets(a, m, x) THEN Says(a, m, x)
                                                       ELSE Aspect(a, shown[x])
    BY <1>1, <2>3, <2>4 DEF Aspect, Aspects, Sets, Says, EntryRecords
  <2>8. QED
    BY <2>5, <2>6, <2>7
<1>2. CASE m.kind = "Status"
  <2>1. UpdateStatus(m.who, m.status) /\ listed' = listed
    BY <1>2 DEF Reduce
  <2> DEFINE room == IF m.status = "Disconnected" THEN NoRoom ELSE shown[m.who].room
  <2>2. shown' = [shown EXCEPT ![m.who] = [@ EXCEPT !.status = m.status, !.room = room]]
    BY <2>1 DEF UpdateStatus, ShowWith, ShowOnly
  <2>3. m.who \in People /\ m.status \in StatusNames /\ room \in Places
    BY <1>2 DEF EntryRecords, Places
  <2> HIDE DEF room
  <2>4. \A x \in People :
          shown'[x] = IF x = m.who
                        THEN [shown[x] EXCEPT !.status = m.status, !.room = room]
                        ELSE shown[x]
    BY <2>2, <2>3
  <2>5. shown' \in [People -> EntryRecords]
    <3>1. \A x \in People : shown'[x] \in EntryRecords
      BY <2>3, <2>4 DEF EntryRecords
    <3>2. shown' = [x \in People |-> shown'[x]]
      BY <2>2
    <3>3. QED
      BY <3>1, <3>2
  <2>6. ASSUME NEW x \in People, NEW a \in Aspects
        PROVE  Aspect(a, shown'[x]) = IF Sets(a, m, x) THEN Says(a, m, x)
                                                       ELSE Aspect(a, shown[x])
    <3>1. CASE x = m.who
      <4>1. shown'[x].status = m.status /\ shown'[x].room = room
        BY <2>3, <2>4, <3>1 DEF EntryRecords
      <4>2. QED
        BY <1>2, <3>1, <4>1 DEF Aspect, Aspects, Sets, Says, room
    <3>2. CASE x # m.who
      BY <1>2, <2>4, <3>2 DEF Aspect, Aspects, Sets
    <3>3. QED
      BY <3>1, <3>2
  <2>7. QED
    BY <2>1, <2>5, <2>6
<1>3. CASE m.kind = "RoomUpdate"
  <2>1. UpdateRoom(m.room, m.locked)
    BY <1>3 DEF Reduce
  <2>2. shown' = [x \in People |->
                    IF listed[m.room] # "no" /\ shown[x].room = m.room
                      THEN [shown[x] EXCEPT !.locked = m.locked] ELSE shown[x]]
    BY <2>1 DEF UpdateRoom, ShowWith
  <2>3. m.room \in Rooms /\ m.locked \in BOOLEAN
    BY <1>3
  <2>4. shown' \in [People -> EntryRecords]
    BY <2>2, <2>3 DEF EntryRecords
  <2>5. listed' \in [Rooms -> {"no", "open", "locked"}]
    BY <2>1, <2>3 DEF UpdateRoom, Listing
  <2>6. \A x \in People, a \in Aspects :
          /\ Aspect(a, shown'[x]) = Aspect(a, shown[x])
          /\ ~Sets(a, m, x)
    BY <1>3, <2>2 DEF Aspect, Aspects, Sets, EntryRecords
  <2>7. QED
    BY <2>4, <2>5, <2>6
<1>4. CASE m.kind = "List"
  <2>1. UpdateList(m.entries, m.some)
    BY <1>4 DEF Reduce
  <2>2. shown' = [x \in People |-> IF x \in m.some THEN m.entries[x] ELSE shown[x]]
        /\ listed' = RoomsOf(shown', m.some)
    BY <2>1 DEF UpdateList, ShowOnly
  <2>3. m.entries \in [People -> EntryRecords]
    BY <1>4 DEF ServerEntries
  <2>4. shown' \in [People -> EntryRecords]
    BY <2>2, <2>3
  <2>5. listed' \in [Rooms -> {"no", "open", "locked"}]
    BY <2>2 DEF RoomsOf, Listing
  <2>6. \A x \in People, a \in Aspects :
          Aspect(a, shown'[x]) = IF Sets(a, m, x) THEN Says(a, m, x)
                                                  ELSE Aspect(a, shown[x])
    BY <1>4, <2>2 DEF Sets, Says
  <2>7. QED
    BY <2>4, <2>5, <2>6
<1>5. CASE m.kind \in Calls
  BY <1>5 DEF Reduce, ShowWith, ShowOnly, Sets, Calls
<1>6. QED
  BY <1>1, <1>2, <1>3, <1>4, <1>5 DEF Reduce, Calls

\* In a consultation the room counts, and away a participant is in none.
Placed(x, there) ==
  \/ there.status = "InConsultation"
  \/ x \in Participants /\ there.status = "Disconnected"

\* What is said of a person is so on the server.
IsSo(a, x, there, value) ==
  IF a = "status" THEN value = there.status
                  ELSE Placed(x, there) => value = there.room

\* There is word of a person on the wire, after the i-th message.
WordAfter(a, x, i) ==
  \E j \in i + 1 .. Len(messages) : Sets(a, messages[j].what, x)

\* There is word that the answer on its way does not know of.
LateWord(a, x) ==
  \E j \in 1 .. Len(messages) :
    messages[j].late /\ Sets(a, messages[j].what, x)

WordsLeadToTruth ==
  /\ \A x \in Participants :
       truth[x].status = "Disconnected" => truth[x].room = NoRoom
  /\ \A x \in People, a \in Aspects, i \in 1 .. Len(messages) :
       Sets(a, messages[i].what, x) =>
         IsSo(a, x, truth[x], Says(a, messages[i].what, x)) \/ WordAfter(a, x, i)
  /\ ~hubUp => messages = <<>>

ShownLeadsToTruth ==
  loaded /\ ~missed /\ ~overtaken /\ ~broken =>
    \A x \in People, a \in Aspects :
      IsSo(a, x, truth[x], Aspect(a, shown[x])) \/ WordAfter(a, x, 0)

AnswerLeadsToTruth ==
  Answered /\ ~load.lost /\ ~load.late =>
    \A x \in People, a \in Aspects :
      IsSo(a, x, truth[x], Aspect(a, load.entries[x])) \/ LateWord(a, x)

\* Whatever the server changes it tells in the same step, its last word being
\* the truth.
Telling(sent) ==
  /\ \A x \in Participants :
       truth'[x].status = "Disconnected" => truth'[x].room = NoRoom
  /\ \A x \in People, a \in Aspects :
       \/ \A value : IsSo(a, x, truth[x], value) => IsSo(a, x, truth'[x], value)
       \/ \E i \in 1 .. Len(sent) : Sets(a, sent[i], x)
  /\ \A x \in People, a \in Aspects, i \in 1 .. Len(sent) :
       Sets(a, sent[i], x) =>
         \/ IsSo(a, x, truth'[x], Says(a, sent[i], x))
         \/ \E j \in i + 1 .. Len(sent) : Sets(a, sent[j], x)

LEMMA SendStep ==
  ASSUME StoreFlags, StoreSorts, NEW sent \in Seq(Told), Telling(sent), Send(sent),
         UNCHANGED <<loaded, shown, broken>>,
         WordsLeadToTruth, ShownLeadsToTruth, AnswerLeadsToTruth
  PROVE  /\ messages' \in Seq(Wire)
         /\ load' \in {NoLoad, [stage |-> "asked"]} \cup Answers
         /\ WordsLeadToTruth' /\ ShownLeadsToTruth' /\ AnswerLeadsToTruth'
<1>1. CASE hubUp
  <2> DEFINE late == Answered
             wire == [i \in DOMAIN sent |-> [what |-> sent[i], late |-> late]]
             n == Len(messages)
             k == Len(sent)
  <2>1. messages' = messages \o wire /\ UNCHANGED <<hubUp, load, missed, overtaken>>
    BY <1>1 DEF Send
  <2>2. messages \in Seq(Wire) /\ late \in BOOLEAN /\ (Answered => late = TRUE)
    BY DEF StoreSorts, Answered
  <2> HIDE DEF late
  <2>3. \A t \in Told : [what |-> t, late |-> late] \in Wire
    BY <2>2 DEF Wire
  <2>4. /\ messages \o wire \in Seq(Wire)
        /\ Len(messages \o wire) = n + k
        /\ \A i \in 1 .. n : (messages \o wire)[i] = messages[i]
        /\ \A i \in 1 .. k : (messages \o wire)[n + i] = [what |-> sent[i], late |-> late]
    BY <2>2, Sent DEF n, k, wire
  <2>5. /\ messages' \in Seq(Wire)
        /\ n \in Nat /\ k \in Nat /\ Len(messages') = n + k
        /\ \A i \in 1 .. n : messages'[i] = messages[i]
        /\ \A i \in 1 .. k : messages'[n + i].what = sent[i] /\ messages'[n + i].late = late
    BY <2>1, <2>2, <2>4, LenProperties
  <2> HIDE DEF wire, n, k
  <2>6. ASSUME NEW x \in People, NEW a \in Aspects, NEW i \in 0 .. n, NEW value,
               IsSo(a, x, truth[x], value) \/ WordAfter(a, x, i)
        PROVE  IsSo(a, x, truth'[x], value) \/ WordAfter(a, x, i)'
    <3>1. CASE WordAfter(a, x, i)
      <4>1. PICK j \in i + 1 .. n : Sets(a, messages[j].what, x)
        BY <3>1 DEF WordAfter, n
      <4>2. j \in i + 1 .. Len(messages') /\ messages'[j] = messages[j]
        BY <2>5, <4>1
      <4>3. QED
        BY <4>1, <4>2 DEF WordAfter
    <3>2. CASE \E j \in 1 .. k : Sets(a, sent[j], x)
      <4>1. PICK j \in 1 .. k : Sets(a, sent[j], x)
        BY <3>2
      <4>2. n + j \in i + 1 .. Len(messages') /\ messages'[n + j].what = sent[j]
        BY <2>5, <4>1
      <4>3. QED
        BY <4>1, <4>2 DEF WordAfter
    <3>3. QED
      BY <2>6, <3>1, <3>2 DEF Telling, k
  <2>7. ASSUME NEW x \in People, NEW a \in Aspects, Answered, NEW value,
               IsSo(a, x, truth[x], value) \/ LateWord(a, x)
        PROVE  IsSo(a, x, truth'[x], value) \/ LateWord(a, x)'
    <3>1. CASE LateWord(a, x)
      BY <2>5, <3>1 DEF LateWord, n
    <3>2. CASE \E j \in 1 .. k : Sets(a, sent[j], x)
      <4>1. PICK j \in 1 .. k : Sets(a, sent[j], x)
        BY <3>2
      <4>2. n + j \in 1 .. Len(messages') /\ messages'[n + j].what = sent[j]
        BY <2>5, <4>1
      <4>3. messages'[n + j].late = TRUE
        BY <2>2, <2>5, <2>7, <4>1
      <4>4. QED
        BY <4>1, <4>2, <4>3 DEF LateWord
    <3>3. QED
      BY <2>7, <3>1, <3>2 DEF Telling, k
  <2>8. ASSUME NEW x \in People, NEW a \in Aspects, NEW i \in 1 .. Len(messages'),
               Sets(a, messages'[i].what, x)
        PROVE  IsSo(a, x, truth'[x], Says(a, messages'[i].what, x)) \/ WordAfter(a, x, i)'
    <3>1. CASE i \in 1 .. n
      <4>1. messages'[i] = messages[i] /\ i \in 0 .. n
        BY <2>5, <3>1
      <4>2. IsSo(a, x, truth[x], Says(a, messages[i].what, x)) \/ WordAfter(a, x, i)
        BY <2>8, <3>1, <4>1 DEF WordsLeadToTruth, n
      <4>3. IsSo(a, x, truth'[x], Says(a, messages'[i].what, x)) \/ WordAfter(a, x, i)'
        BY <2>6, <4>1, <4>2
      <4>4. QED
        BY <4>1, <4>3
    <3>2. CASE i \in n + 1 .. n + k
      <4>1. i - n \in 1 .. k /\ n + (i - n) = i
        BY <2>5, <3>2
      <4>2. messages'[i].what = sent[i - n]
        BY <2>5, <4>1
      <4>3. CASE \E j \in (i - n) + 1 .. k : Sets(a, sent[j], x)
        <5>1. PICK j \in (i - n) + 1 .. k : Sets(a, sent[j], x)
          BY <4>3
        <5>2. n + j \in i + 1 .. Len(messages') /\ j \in 1 .. k
          BY <2>5, <4>1, <5>1
        <5>3. messages'[n + j].what = sent[j]
          BY <2>5, <5>2
        <5>4. QED
          BY <5>1, <5>2, <5>3 DEF WordAfter
      <4>4. QED
        BY <2>8, <4>1, <4>2, <4>3 DEF Telling, k
    <3>3. QED
      BY <2>5, <3>1, <3>2
  <2>9. WordsLeadToTruth'
    <3>1. hubUp'
      BY <1>1, <2>1
    <3>2. \A x \in Participants :
            truth'[x].status = "Disconnected" => truth'[x].room = NoRoom
      BY DEF Telling
    <3>3. QED
      BY <2>8, <3>1, <3>2 DEF WordsLeadToTruth
  <2>10. ShownLeadsToTruth'
    <3> SUFFICES ASSUME loaded, ~missed, ~overtaken, ~broken,
                        NEW x \in People, NEW a \in Aspects
                 PROVE  \/ IsSo(a, x, truth'[x], Aspect(a, shown[x]))
                        \/ WordAfter(a, x, 0)'
      BY <2>1 DEF ShownLeadsToTruth
    <3>1. 0 \in 0 .. n
      BY <2>5
    <3>2. QED
      BY <2>6, <3>1 DEF ShownLeadsToTruth
  <2>11. AnswerLeadsToTruth'
    BY <2>1, <2>7 DEF AnswerLeadsToTruth, Answered
  <2>12. QED
    BY <2>1, <2>5, <2>9, <2>10, <2>11 DEF StoreSorts
<1>2. CASE ~hubUp
  <2>1. /\ missed' = TRUE /\ UNCHANGED <<hubUp, messages, overtaken>>
        /\ load' = IF Answered THEN [load EXCEPT !.lost = TRUE] ELSE load
        /\ messages = <<>>
    BY <1>2 DEF Send, WordsLeadToTruth
  <2>2. load' \in {NoLoad, [stage |-> "asked"]} \cup Answers /\ (Answered' => load'.lost)
    <3>1. CASE Answered
      <4>1. load \in Answers
        BY <3>1 DEF StoreSorts, Answered, NoLoad
      <4>2. QED
        BY <2>1, <3>1, <4>1 DEF Answers
    <3>2. CASE ~Answered
      BY <2>1, <3>2 DEF StoreSorts, Answered
    <3>3. QED
      BY <3>1, <3>2
  <2>3. 1 .. Len(messages') = {}
    BY <2>1, EmptySeq
  <2>4. WordsLeadToTruth'
    BY <2>1, <2>3 DEF WordsLeadToTruth, Telling
  <2>5. ShownLeadsToTruth' /\ AnswerLeadsToTruth'
    BY <2>1, <2>2 DEF ShownLeadsToTruth, AnswerLeadsToTruth
  <2>6. QED
    BY <2>1, <2>2, <2>4, <2>5 DEF StoreSorts
<1>3. QED
  BY <1>1, <1>2

\* One message, or two.
LEMMA OneOrTwo ==
  ASSUME NEW m \in Told, NEW o \in Told
  PROVE  /\ <<m>> \in Seq(Told) /\ Len(<<m>>) = 1 /\ <<m>>[1] = m
         /\ <<m, o>> \in Seq(Told) /\ Len(<<m, o>>) = 2
         /\ <<m, o>>[1] = m /\ <<m, o>>[2] = o
OBVIOUS

\* The server's steps send what they do.
LEMMA TransferTells ==
  ASSUME StoreSorts, WordsLeadToTruth, NEW who \in People, NEW room \in Places,
         ServerTransfers(who, room)
  PROVE  \E sent \in Seq(Told) : Telling(sent) /\ Send(sent)
<1>1. PICK status \in {"Available", "InHearing"} :
        /\ truth' = [truth EXCEPT ![who] =
                       [status |-> StatusIn(room, status), room |-> room]]
        /\ Send(<<[kind |-> "RoomTransfer", who |-> who,
                   from |-> truth[who].room, to |-> room],
                  [kind |-> "Status", who |-> who, status |-> StatusIn(room, status)]>>)
  BY DEF ServerTransfers
<1> DEFINE new == StatusIn(room, status)
           move == [kind |-> "RoomTransfer", who |-> who,
                    from |-> truth[who].room, to |-> room]
           said == [kind |-> "Status", who |-> who, status |-> new]
           sent == <<move, said>>
<1>2. new \in StatusNames /\ new # "Disconnected" /\ truth[who].room \in Places
  BY DEF StatusIn, StatusNames, StoreSorts
<1>3. \A x \in People : truth'[x] = IF x = who THEN [status |-> new, room |-> room]
                                              ELSE truth[x]
  BY <1>1 DEF StoreSorts
<1> HIDE DEF new
<1>4. move \in Told /\ said \in Told
  BY <1>2 DEF Told
<1>5. sent \in Seq(Told) /\ Len(sent) = 2 /\ sent[1] = move /\ sent[2] = said
  BY <1>4, OneOrTwo
<1>6. \A x \in People : /\ Sets("status", said, x) <=> x = who
                        /\ Sets("room", move, x) <=> x = who
                        /\ ~Sets("status", move, x)
                        /\ ~Sets("room", said, x)
  BY <1>2 DEF Sets
<1>7. /\ Says("status", said, who) = new /\ Says("room", move, who) = room
  BY DEF Says
<1> HIDE DEF move, said, sent
<1>8. \A x \in Participants :
        truth'[x].status = "Disconnected" => truth'[x].room = NoRoom
  BY <1>2, <1>3 DEF WordsLeadToTruth, People
<1>9. ASSUME NEW x \in People, NEW a \in Aspects
      PROVE  \/ \A value : IsSo(a, x, truth[x], value) => IsSo(a, x, truth'[x], value)
             \/ \E i \in 1 .. Len(sent) : Sets(a, sent[i], x)
  <2>1. CASE x = who
    BY <1>5, <1>6, <2>1 DEF Aspects
  <2>2. CASE x # who
    BY <1>3, <2>2
  <2>3. QED
    BY <2>1, <2>2
<1>10. ASSUME NEW x \in People, NEW a \in Aspects, NEW i \in 1 .. Len(sent), Sets(a, sent[i], x)
       PROVE  IsSo(a, x, truth'[x], Says(a, sent[i], x))
  <2>1. x = who /\ ((i = 1 /\ a = "room") \/ (i = 2 /\ a = "status"))
    <3>1. CASE i = 1
      <4>1. Sets(a, move, x)
        BY <1>5, <1>10, <3>1
      <4>2. CASE a = "status"
        BY <1>6, <4>1, <4>2
      <4>3. CASE a = "room"
        <5>1. Sets("room", move, x)
          BY <4>1, <4>3
        <5>2. QED
          BY <1>6, <3>1, <4>3, <5>1
      <4>4. QED
        BY <4>2, <4>3 DEF Aspects
    <3>2. CASE i = 2
      <4>1. Sets(a, said, x) /\ (a = "status" \/ a = "room")
        BY <1>5, <1>10, <3>2 DEF Aspects
      <4>2. QED
        BY <1>6, <3>2, <4>1
    <3>3. QED
      BY <1>5, <3>1, <3>2
  <2>2. QED
    BY <1>3, <1>5, <1>7, <2>1 DEF IsSo
<1>11. Telling(sent) /\ Send(sent)
  BY <1>1, <1>8, <1>9, <1>10 DEF Telling, move, said, sent, new
<1>12. QED
  BY <1>5, <1>11

LEMMA SetsStatusTells ==
  ASSUME StoreSorts, WordsLeadToTruth, NEW who \in People,
         NEW status \in {"Available", "Disconnected"}, ServerSetsStatus(who, status)
  PROVE  \E sent \in Seq(Told) : Telling(sent) /\ Send(sent)
<1> DEFINE said == [kind |-> "Status", who |-> who, status |-> status]
           sent == <<said>>
           room == IF who \in Endpoints THEN truth[who].room ELSE NoRoom
<1>1. Send(sent)
  BY DEF ServerSetsStatus
<1>2. \A x \in People : truth'[x] = IF x = who THEN [status |-> status, room |-> room]
                                              ELSE truth[x]
  BY DEF ServerSetsStatus, StoreSorts
<1>3. said \in Told
  BY DEF Told, StatusNames
<1>4. sent \in Seq(Told) /\ Len(sent) = 1 /\ sent[1] = said
  BY <1>3, OneOrTwo
<1>5. \A x \in People : /\ Sets("status", said, x) <=> x = who
                        /\ Sets("room", said, x) <=> x = who /\ status = "Disconnected"
  BY DEF Sets
<1>6. /\ Says("status", said, who) = status /\ Says("room", said, who) = NoRoom
  BY DEF Says
<1> HIDE DEF said, sent
<1>7. who \in Participants => room = NoRoom
  BY ConferenceStoreAssumption
<1>8. who \notin Participants => ~Placed(who, [status |-> status, room |-> room])
  BY DEF Placed
<1> HIDE DEF room
<1>9. \A x \in Participants :
        truth'[x].status = "Disconnected" => truth'[x].room = NoRoom
  BY <1>2, <1>7 DEF WordsLeadToTruth, People
<1>10. ASSUME NEW x \in People, NEW a \in Aspects
       PROVE  \/ \A value : IsSo(a, x, truth[x], value) => IsSo(a, x, truth'[x], value)
              \/ \E i \in 1 .. Len(sent) : Sets(a, sent[i], x)
  <2>1. CASE x = who /\ (a = "status" \/ status = "Disconnected")
    BY <1>4, <1>5, <2>1 DEF Aspects
  <2>2. CASE x = who /\ a = "room" /\ status = "Available"
    BY <1>2, <2>2 DEF IsSo, Placed
  <2>3. CASE x # who
    BY <1>2, <2>3
  <2>4. QED
    BY <2>1, <2>2, <2>3 DEF Aspects
<1>11. ASSUME NEW x \in People, NEW a \in Aspects, NEW i \in 1 .. Len(sent), Sets(a, sent[i], x)
       PROVE  IsSo(a, x, truth'[x], Says(a, sent[i], x))
  <2>1. x = who /\ i = 1
    BY <1>4, <1>5, <1>11 DEF Aspects
  <2>2. QED
    BY <1>2, <1>4, <1>6, <1>7, <1>8, <2>1 DEF IsSo, Aspects
<1>12. Telling(sent)
  BY <1>9, <1>10, <1>11 DEF Telling
<1>13. QED
  BY <1>1, <1>4, <1>12

\* What says nothing of anybody, or what is so.
LEMMA SameTruthTells ==
  ASSUME StoreSorts, WordsLeadToTruth, truth' = truth, NEW m \in Told,
         \A x \in People, a \in Aspects :
           Sets(a, m, x) => IsSo(a, x, truth[x], Says(a, m, x))
  PROVE  <<m>> \in Seq(Told) /\ Telling(<<m>>)
<1>1. <<m>> \in Seq(Told) /\ Len(<<m>>) = 1 /\ <<m>>[1] = m
  BY OneOrTwo
<1>2. QED
  BY <1>1 DEF Telling, WordsLeadToTruth

LEMMA UpdatesListTells ==
  ASSUME StoreSorts, WordsLeadToTruth, NEW some \in {Participants, Endpoints},
         ServerUpdatesList(some)
  PROVE  \E sent \in Seq(Told) : Telling(sent) /\ Send(sent)
<1> DEFINE m == [kind |-> "List", entries |-> Entries, some |-> some]
<1>1. Send(<<m>>) /\ truth' = truth
  BY DEF ServerUpdatesList
<1>2. Entries \in ServerEntries /\ \A x \in People : Entries[x].status = truth[x].status
                                                    /\ Entries[x].room = truth[x].room
  BY EntriesOfTheServer DEF Entries
<1>3. m \in Told
  BY <1>2 DEF Told
<1>4. \A x \in People, a \in Aspects : Says(a, m, x) = Aspect(a, Entries[x])
  BY DEF Says
<1>5. \A x \in People, a \in Aspects : IsSo(a, x, truth[x], Says(a, m, x))
  BY <1>2, <1>4 DEF IsSo, Aspect
<1>6. QED
  BY <1>1, <1>3, <1>5, SameTruthTells

LEMMA UpdatesDetailsTells ==
  ASSUME StoreSorts, WordsLeadToTruth, ServerUpdatesDetails
  PROVE  \E sent \in Seq(Told) : Telling(sent) /\ Send(sent)
<1> DEFINE m == [kind |-> "Details", entries |-> Entries]
<1>1. Send(<<m>>) /\ truth' = truth
  BY DEF ServerUpdatesDetails
<1>2. Entries \in ServerEntries /\ \A x \in People : Entries[x].status = truth[x].status
                                                    /\ Entries[x].room = truth[x].room
  BY EntriesOfTheServer DEF Entries
<1>3. m \in Told
  BY <1>2 DEF Told
<1>4. \A x \in People, a \in Aspects : Says(a, m, x) = Aspect(a, Entries[x])
  BY DEF Says
<1>5. \A x \in People, a \in Aspects : IsSo(a, x, truth[x], Says(a, m, x))
  BY <1>2, <1>4 DEF IsSo, Aspect
<1>6. QED
  BY <1>1, <1>3, <1>5, SameTruthTells

LEMMA NoWordTells ==
  ASSUME StoreSorts, WordsLeadToTruth,
         \/ \E r \in Rooms, locked \in BOOLEAN : ServerLocks(r, locked)
         \/ \E kind \in Calls : ServerCalls(kind)
  PROVE  \E sent \in Seq(Told) : Telling(sent) /\ Send(sent)
<1>1. ASSUME NEW r \in Rooms, NEW locked \in BOOLEAN, ServerLocks(r, locked)
      PROVE  \E sent \in Seq(Told) : Telling(sent) /\ Send(sent)
  <2> DEFINE m == [kind |-> "RoomUpdate", room |-> r, locked |-> locked]
  <2>1. Send(<<m>>) /\ truth' = truth
    BY <1>1 DEF ServerLocks
  <2>2. m \in Told /\ \A x \in People, a \in Aspects : ~Sets(a, m, x)
    BY DEF Told, Sets
  <2>3. QED
    BY <2>1, <2>2, SameTruthTells
<1>2. ASSUME NEW kind \in Calls, ServerCalls(kind)
      PROVE  \E sent \in Seq(Told) : Telling(sent) /\ Send(sent)
  <2> DEFINE m == [kind |-> kind]
  <2>1. Send(<<m>>) /\ truth' = truth
    BY <1>2 DEF ServerCalls
  <2>2. m \in Told /\ \A x \in People, a \in Aspects : ~Sets(a, m, x)
    BY DEF Told, Sets, Calls
  <2>3. QED
    BY <2>1, <2>2, SameTruthTells
<1>3. QED
  BY <1>1, <1>2

\* The load is marked by what comes or is lost behind its answer.
LEMMA MarkedLoad ==
  ASSUME StoreSorts, Answered
  PROVE  /\ [load EXCEPT !.late = TRUE] \in Answers /\ [load EXCEPT !.late = TRUE].late
         /\ [load EXCEPT !.lost = TRUE] \in Answers /\ [load EXCEPT !.lost = TRUE].lost
<1>1. load \in Answers
  BY DEF StoreSorts, Answered, NoLoad
<1>2. QED
  BY <1>1 DEF Answers

LEMMA ReceiveStep ==
  ASSUME StoreFlags, StoreSorts, WordsLeadToTruth, ShownLeadsToTruth,
         AnswerLeadsToTruth, Receive \/ ReceiveDetails
  PROVE  StoreSorts' /\ WordsLeadToTruth' /\ ShownLeadsToTruth' /\ AnswerLeadsToTruth'
<1> DEFINE m == Head(messages).what
<1>1. /\ messages # <<>> /\ messages' = Tail(messages) /\ messages \in Seq(Wire)
      /\ UNCHANGED <<truth, ops, hubUp>>
  BY DEF Receive, ReceiveDetails, StoreSorts, truthVars
<1>2. /\ messages' \in Seq(Wire)
      /\ Len(messages) \in Nat \ {0} /\ Len(messages') = Len(messages) - 1
      /\ \A i \in 1 .. Len(messages') : messages'[i] = messages[i + 1]
      /\ Head(messages) = messages[1] /\ Head(messages) \in Wire
  BY <1>1, HeadTailProperties, EmptySeq
<1>3. m \in Told /\ Head(messages).late \in BOOLEAN
  BY <1>2 DEF Wire
<1> HIDE DEF m
<1>4. ASSUME NEW a, NEW x, NEW i \in 0 .. Len(messages'), WordAfter(a, x, i + 1)
      PROVE  WordAfter(a, x, i)'
  <2>1. PICK j \in i + 2 .. Len(messages) : Sets(a, messages[j].what, x)
    BY <1>2, <1>4 DEF WordAfter
  <2>2. j - 1 \in i + 1 .. Len(messages') /\ messages'[j - 1] = messages[j]
    BY <1>2, <2>1
  <2>3. QED
    BY <2>1, <2>2 DEF WordAfter
<1>5. WordsLeadToTruth'
  <2>1. ASSUME NEW x \in People, NEW a \in Aspects, NEW i \in 1 .. Len(messages'),
               Sets(a, messages'[i].what, x)
        PROVE  IsSo(a, x, truth'[x], Says(a, messages'[i].what, x)) \/ WordAfter(a, x, i)'
    <3>1. i + 1 \in 1 .. Len(messages) /\ messages'[i] = messages[i + 1]
      BY <1>2
    <3>2. IsSo(a, x, truth[x], Says(a, messages[i + 1].what, x)) \/ WordAfter(a, x, i + 1)
      BY <2>1, <3>1 DEF WordsLeadToTruth
    <3>3. QED
      BY <1>1, <1>2, <1>4, <3>1, <3>2
  <2>2. ~hubUp' => messages' = <<>>
    BY <1>1 DEF WordsLeadToTruth
  <2>3. QED
    BY <1>1, <2>1, <2>2 DEF WordsLeadToTruth
<1>6. \/ load' = [stage |-> "asked"]
      \/ load' = IF Answered /\ Head(messages).late THEN [load EXCEPT !.late = TRUE]
                                                    ELSE load
  BY DEF Receive, ReceiveDetails, LoadConference, MarkLoad
<1>7. AnswerLeadsToTruth' /\ load' \in {NoLoad, [stage |-> "asked"]} \cup Answers
  <2>0. CASE load' = [stage |-> "asked"]
    BY <2>0 DEF AnswerLeadsToTruth, Answered
  <2>1. CASE load' # [stage |-> "asked"] /\ Answered /\ Head(messages).late
    BY <1>6, <2>1, MarkedLoad DEF AnswerLeadsToTruth
  <2>2. CASE load' # [stage |-> "asked"] /\ ~(Answered /\ Head(messages).late)
    <3>1. load' = load
      BY <1>6, <2>2
    <3>2. ASSUME Answered, NEW a, NEW x, LateWord(a, x) PROVE LateWord(a, x)'
      <4>1. PICK j \in 1 .. Len(messages) :
              messages[j].late /\ Sets(a, messages[j].what, x)
        BY <3>2 DEF LateWord
      <4>2. j # 1
        BY <1>2, <2>2, <3>2, <4>1
      <4>3. j - 1 \in 1 .. Len(messages') /\ messages'[j - 1] = messages[j]
        BY <1>2, <4>1, <4>2
      <4>4. QED
        BY <4>1, <4>3 DEF LateWord
    <3>3. QED
      BY <1>1, <3>1, <3>2 DEF AnswerLeadsToTruth, Answered, StoreSorts
  <2>3. QED
    BY <2>0, <2>1, <2>2
<1>8. CASE loaded /\ ~broken /\ Reduce(m) /\ UNCHANGED <<missed, overtaken>>
  <2>1. /\ shown' \in [People -> EntryRecords]
        /\ listed' \in [Rooms -> {"no", "open", "locked"}]
        /\ \A x \in People, a \in Aspects :
             Aspect(a, shown'[x]) = IF Sets(a, m, x) THEN Says(a, m, x)
                                                     ELSE Aspect(a, shown[x])
    BY <1>3, <1>8, Reduced
  <2>2. UNCHANGED <<loaded, broken, missed, overtaken>>
    BY <1>8 DEF Reduce
  <2>3. ASSUME loaded, ~missed, ~overtaken, ~broken, NEW x \in People, NEW a \in Aspects
        PROVE  IsSo(a, x, truth[x], Aspect(a, shown'[x])) \/ WordAfter(a, x, 0)'
    <3>1. 0 \in 0 .. Len(messages') /\ 1 \in 1 .. Len(messages) /\ messages[1].what = m
      BY <1>2 DEF m
    <3>2. CASE Sets(a, m, x)
      <4>1. IsSo(a, x, truth[x], Says(a, m, x)) \/ WordAfter(a, x, 1)
        BY <3>1, <3>2 DEF WordsLeadToTruth
      <4>2. QED
        BY <1>4, <2>1, <3>1, <3>2, <4>1
    <3>3. CASE ~Sets(a, m, x)
      <4>1. WordAfter(a, x, 0) => WordAfter(a, x, 1)
        BY <1>2, <3>1, <3>3 DEF WordAfter
      <4>2. IsSo(a, x, truth[x], Aspect(a, shown[x])) \/ WordAfter(a, x, 0)
        BY <2>3 DEF ShownLeadsToTruth
      <4>3. QED
        BY <1>4, <2>1, <3>1, <3>3, <4>1, <4>2
    <3>4. QED
      BY <3>2, <3>3
  <2>4. ShownLeadsToTruth'
    BY <1>1, <2>2, <2>3 DEF ShownLeadsToTruth
  <2>5. QED
    BY <1>1, <1>2, <1>5, <1>7, <2>1, <2>4 DEF StoreSorts
<1>9. CASE /\ ~loaded \/ broken
           /\ broken' = (broken \/ m.kind = "RoomUpdate")
           /\ UNCHANGED <<loaded, shown, listed>>
  BY <1>1, <1>2, <1>5, <1>7, <1>9 DEF StoreSorts, ShownLeadsToTruth
<1>10. CASE ReceiveDetails
  <2>1. /\ m.kind = "Details" /\ shown' = m.entries
        /\ listed' = RoomsOf(m.entries, Participants)
    BY <1>10 DEF ReceiveDetails, LoadConferenceSuccess, ShowWith, m
  <2>2. m.entries \in [People -> EntryRecords]
    BY <1>3, <2>1, ToldKinds DEF ServerEntries
  <2>3. listed' \in [Rooms -> {"no", "open", "locked"}]
    BY <2>1 DEF RoomsOf, Listing
  <2>4. ASSUME NEW x \in People, NEW a \in Aspects
        PROVE  IsSo(a, x, truth[x], Aspect(a, shown'[x])) \/ WordAfter(a, x, 0)'
    <3>1. 0 \in 0 .. Len(messages') /\ 1 \in 1 .. Len(messages) /\ messages[1].what = m
      BY <1>2 DEF m
    <3>2. Sets(a, m, x) /\ Says(a, m, x) = Aspect(a, shown'[x])
      BY <2>1 DEF Sets, Says
    <3>3. IsSo(a, x, truth[x], Says(a, m, x)) \/ WordAfter(a, x, 1)
      BY <3>1, <3>2 DEF WordsLeadToTruth
    <3>4. QED
      BY <1>4, <3>1, <3>2, <3>3
  <2>5. ShownLeadsToTruth'
    BY <1>1, <2>4 DEF ShownLeadsToTruth
  <2>6. QED
    BY <1>1, <1>2, <1>5, <1>7, <2>1, <2>2, <2>3, <2>5 DEF StoreSorts
<1>11. QED
  BY <1>8, <1>9, <1>10 DEF Receive, m

\* Of the server's entries everyone in a room sees it locked.
LEMMA RoomsOfTheServer ==
  ASSUME NEW entries \in ServerEntries, NEW some \in SUBSET People,
         RoomsOf(entries, some) = RoomsOf(entries, People),
         NEW x \in People, entries[x].room \in Rooms
  PROVE  RoomsOf(entries, some)[entries[x].room] = Listing(entries[x].locked)
<1>1. entries \in [People -> EntryRecords]
      /\ \A y \in People : entries[y].locked <=> entries[y].room # NoRoom
  BY DEF ServerEntries
<1>2. entries[x].room # NoRoom
  BY ConferenceStoreAssumption
<1>3. RoomsOf(entries, People)[entries[x].room]
        = Listing(\E y \in People : entries[y].room = entries[x].room /\ entries[y].locked)
  BY DEF RoomsOf
<1>4. entries[x].locked
  BY <1>1, <1>2
<1>5. QED
  BY <1>3, <1>4 DEF Listing

LEMMA ReducedRooms ==
  ASSUME StoreFlags, StoreSorts, NEW m \in Told, Reduce(m), loaded, RoomsAreListed
  PROVE  RoomsAreListed'
<1> SUFFICES ASSUME ~forgotten', NEW x \in People, shown'[x].room # NoRoom
             PROVE  listed'[shown'[x].room] = Listing(shown'[x].locked)
  BY DEF RoomsAreListed
<1> USE ToldKinds DEF StoreSorts
<1>1. CASE m.kind = "RoomTransfer"
  <2>1. UpdateParticipantRoom(m.who, m.from, m.to) /\ forgotten' = forgotten
    BY <1>1 DEF Reduce
  <2>2. m.who \in People /\ m.to \in Places
    BY <1>1
  <2>3. \A y \in People :
          shown'[y] = IF y = m.who
                        THEN [shown[y] EXCEPT !.room = m.to,
                                  !.locked = m.to # NoRoom /\ ListedLock(m.to)]
                        ELSE shown[y]
    BY <2>1, <2>2 DEF UpdateParticipantRoom, ShowWith, ShowOnly
  <2>4. CASE m.to # NoRoom
    <3>1. m.to \in Rooms /\ listed' = [listed EXCEPT ![m.to] = IF @ = "no" THEN "open" ELSE @]
      BY <2>1, <2>2, <2>4 DEF UpdateParticipantRoom, Places
    <3>2. CASE x = m.who
      <4> DEFINE lock == m.to # NoRoom /\ ListedLock(m.to)
      <4>1. shown'[x] = [shown[x] EXCEPT !.room = m.to, !.locked = lock]
        BY <2>3, <3>2
      <4>2. lock <=> listed[m.to] = "locked"
        BY <2>4 DEF ListedLock
      <4> HIDE DEF lock
      <4>3. shown'[x].room = m.to /\ (shown'[x].locked <=> lock)
        BY <4>1 DEF EntryRecords
      <4>4. QED
        BY <3>1, <4>2, <4>3 DEF Listing
    <3>3. CASE x # m.who
      <4>1. listed[shown[x].room] = Listing(shown[x].locked) /\ shown'[x] = shown[x]
        BY <2>1, <2>3, <3>3 DEF RoomsAreListed
      <4>2. listed[shown[x].room] # "no"
        BY <4>1 DEF Listing
      <4>3. QED
        BY <3>1, <4>1, <4>2
    <3>4. QED
      BY <3>2, <3>3
  <2>5. CASE m.to = NoRoom
    <3>1. x # m.who
      BY <2>2, <2>3, <2>5 DEF EntryRecords
    <3>2. listed[shown[x].room] = Listing(shown[x].locked) /\ shown'[x] = shown[x]
      BY <2>1, <2>3, <3>1 DEF RoomsAreListed
    <3>3. shown[x].room \in Rooms
      BY <3>2 DEF EntryRecords, Places
    <3>4. listed'[shown[x].room] = listed[shown[x].room]
      BY <2>1, <2>5, <3>1, <3>3 DEF UpdateParticipantRoom
    <3>5. QED
      BY <3>2, <3>4
  <2>6. QED
    BY <2>4, <2>5
<1>2. CASE m.kind = "Status"
  <2>1. UpdateStatus(m.who, m.status) /\ listed' = listed /\ forgotten' = forgotten
    BY <1>2 DEF Reduce
  <2> DEFINE room == IF m.status = "Disconnected" THEN NoRoom ELSE shown[m.who].room
  <2>2. m.who \in People
    BY <1>2
  <2>3. \A y \in People :
          shown'[y] = IF y = m.who
                        THEN [shown[y] EXCEPT !.status = m.status, !.room = room]
                        ELSE shown[y]
    BY <2>1, <2>2 DEF UpdateStatus, ShowWith, ShowOnly
  <2> HIDE DEF room
  <2>4. /\ shown'[x].room \in {room, shown[x].room}
        /\ shown'[x].locked = shown[x].locked
        /\ x # m.who => shown'[x].room = shown[x].room
        /\ x = m.who => shown'[x].room = room
    BY <2>2, <2>3 DEF EntryRecords
  <2>5. shown'[x].room = shown[x].room
    BY <2>4 DEF room
  <2>6. QED
    BY <2>1, <2>4, <2>5 DEF RoomsAreListed
<1>3. CASE m.kind = "RoomUpdate"
  <2>1. UpdateRoom(m.room, m.locked) /\ forgotten' = forgotten
    BY <1>3 DEF Reduce
  <2>2. m.room \in Rooms /\ m.locked \in BOOLEAN
    BY <1>3
  <2>3. listed' = [listed EXCEPT ![m.room] = Listing(m.locked)]
        /\ shown'[x] = IF listed[m.room] # "no" /\ shown[x].room = m.room
                         THEN [shown[x] EXCEPT !.locked = m.locked] ELSE shown[x]
    BY <2>1 DEF UpdateRoom, ShowWith
  <2>4. shown'[x].room = shown[x].room
    BY <2>3 DEF EntryRecords
  <2>5. listed[shown[x].room] = Listing(shown[x].locked) /\ shown[x].room \in Rooms
    BY <2>1, <2>4 DEF RoomsAreListed, EntryRecords, Places
  <2>6. CASE shown[x].room = m.room
    <3>1. listed[m.room] # "no"
      BY <2>5, <2>6 DEF Listing
    <3>2. shown'[x].locked = m.locked
      BY <2>3, <2>6, <3>1 DEF EntryRecords
    <3>3. QED
      BY <2>2, <2>3, <2>4, <2>6, <3>2
  <2>7. CASE shown[x].room # m.room
    BY <2>3, <2>4, <2>5, <2>7
  <2>8. QED
    BY <2>6, <2>7
<1>4. CASE m.kind = "List"
  <2>1. UpdateList(m.entries, m.some)
    BY <1>4 DEF Reduce
  <2>2. /\ shown' = [y \in People |-> IF y \in m.some THEN m.entries[y] ELSE shown[y]]
        /\ listed' = RoomsOf(shown', m.some)
        /\ listed' = RoomsOf(shown', People)
        /\ ~SeenApart(shown', m.some)
    BY <2>1 DEF UpdateList, ShowOnly
  <2>3. m.entries \in ServerEntries /\ m.some \subseteq People
    BY <1>4 DEF People
  <2>4. shown' \in [People -> EntryRecords]
    BY <2>2, <2>3 DEF ServerEntries
  <2>5. shown'[x].room \in Rooms
    BY <2>4 DEF EntryRecords, Places
  <2>6. PICK y \in m.some : shown'[y].room = shown'[x].room
    <3>1. RoomsOf(shown', People)[shown'[x].room] # "no"
      BY <2>5 DEF RoomsOf, Listing
    <3>2. RoomsOf(shown', m.some)[shown'[x].room] # "no"
      BY <2>2, <3>1
    <3>3. QED
      BY <2>5, <3>2 DEF RoomsOf
  <2>7. shown'[y].locked
    <3>1. y \in People /\ shown'[y] = m.entries[y]
      BY <2>2, <2>3
    <3>2. QED
      BY <2>3, <2>6, <3>1 DEF ServerEntries
  <2>8. listed'[shown'[x].room] = Listing(TRUE)
    <3>1. \E z \in m.some : shown'[z].room = shown'[x].room /\ shown'[z].locked
      BY <2>6, <2>7
    <3>2. RoomsOf(shown', m.some)[shown'[x].room]
            = Listing(\E z \in m.some : shown'[z].room = shown'[x].room /\ shown'[z].locked)
      BY <2>5, <2>6 DEF RoomsOf
    <3>3. QED
      BY <2>2, <3>1, <3>2 DEF Listing
  <2>9. shown'[x].locked
    <3>1. CASE x \in m.some
      BY <2>2, <2>3, <3>1 DEF ServerEntries
    <3>2. CASE x \notin m.some
      BY <2>2, <2>6, <2>7, <3>2 DEF SeenApart
    <3>3. QED
      BY <3>1, <3>2
  <2>10. QED
    BY <2>8, <2>9 DEF Listing
<1>5. CASE m.kind \in Calls
  <2>1. shown' = shown /\ listed' = listed /\ forgotten' = forgotten
    BY <1>5 DEF Reduce, ShowWith, ShowOnly, Calls
  <2>2. QED
    BY <2>1 DEF RoomsAreListed
<1>6. QED
  BY <1>1, <1>2, <1>3, <1>4, <1>5 DEF Reduce, Calls

-----------------------------------------------------------------------------
StoreInv ==
  /\ StoreFlags /\ StoreSorts
  /\ WordsLeadToTruth /\ ShownLeadsToTruth /\ AnswerLeadsToTruth
  /\ RoomsAreListed

ServerActs ==
  \/ \E who \in People :
       \/ \E room \in Rooms \cup {NoRoom} : ServerTransfers(who, room)
       \/ ServerLoses(who) \/ ServerJoins(who)
  \/ \E r \in Rooms, locked \in BOOLEAN : ServerLocks(r, locked)
  \/ \E some \in {Participants, Endpoints} : ServerUpdatesList(some)
  \/ ServerUpdatesDetails \/ \E kind \in Calls : ServerCalls(kind)

LEMMA StoreInitInv ==
  ASSUME StoreInit PROVE StoreInv
<1>1. StoreFlags
  BY DEF StoreInit, StoreFlags
<1>2. StoreSorts
  <2>1. messages \in Seq(Wire) /\ ops \in 0 .. MaxOps /\ load \in {NoLoad, [stage |-> "asked"]} \cup Answers
    BY ConferenceStoreAssumption, EmptySeq DEF StoreInit
  <2>2. Unloaded \in EntryRecords
    BY DEF Unloaded, EntryRecords, StatusNames, Places
  <2>3. /\ truth \in [People -> [status : StatusNames, room : Places]]
        /\ shown \in [People -> EntryRecords]
        /\ listed \in [Rooms -> {"no", "open", "locked"}]
    BY <2>2 DEF StoreInit, StatusNames, Places
  <2>4. QED
    BY <2>1, <2>3 DEF StoreSorts
<1>3. Len(messages) = 0
  BY EmptySeq DEF StoreInit
<1>4. WordsLeadToTruth
  BY <1>3 DEF StoreInit, WordsLeadToTruth, People
<1>5. ShownLeadsToTruth /\ AnswerLeadsToTruth /\ RoomsAreListed
  BY DEF StoreInit, ShownLeadsToTruth, AnswerLeadsToTruth, RoomsAreListed, Answered, NoLoad
<1>6. QED
  BY <1>1, <1>2, <1>4, <1>5 DEF StoreInv

LEMMA ReduceFlags ==
  ASSUME StoreFlags, NEW m, Reduce(m)
  PROVE  /\ movingIn' \in BOOLEAN /\ forgotten' \in BOOLEAN
         /\ loaded' = loaded /\ asksWho' = asksWho /\ broken' = broken
<1>1. CASE m.kind = "RoomTransfer" /\ UpdateParticipantRoom(m.who, m.from, m.to)
           /\ UNCHANGED <<loaded, asksWho, forgotten, broken>>
  BY <1>1 DEF StoreFlags, UpdateParticipantRoom, ShowWith, ShowOnly
<1>2. CASE m.kind = "Status" /\ UpdateStatus(m.who, m.status)
           /\ UNCHANGED <<loaded, asksWho, forgotten, broken>>
  <2>1. movingIn' = (movingIn /\ m.who # Me) \/ movingIn' = movingIn
    BY <1>2 DEF UpdateStatus, ShowWith, ShowOnly
  <2>2. (movingIn /\ m.who # Me) \in BOOLEAN
    OBVIOUS
  <2>3. QED
    BY <1>2, <2>1, <2>2 DEF StoreFlags
<1>3. CASE m.kind = "RoomUpdate" /\ UpdateRoom(m.room, m.locked)
           /\ UNCHANGED <<loaded, asksWho, forgotten, broken>>
  BY <1>3 DEF StoreFlags, UpdateRoom, ShowWith
<1>4. CASE m.kind = "List" /\ UpdateList(m.entries, m.some)
           /\ UNCHANGED <<loaded, asksWho, broken>>
  <2>1. movingIn' = movingIn
    BY <1>4 DEF UpdateList, ShowOnly
  <2> DEFINE mixed == [x \in People |-> IF x \in m.some THEN m.entries[x] ELSE shown[x]]
  <2>2. forgotten' = (\/ forgotten \/ listed' # RoomsOf(mixed, People)
                      \/ SeenApart(mixed, m.some))
    BY <1>4 DEF UpdateList
  <2>3. forgotten' \in BOOLEAN
    BY <2>2
  <2>4. QED
    BY <1>4, <2>1, <2>3 DEF StoreFlags
<1>5. CASE m.kind \in Calls /\ Reduce(m)
  <2>1. movingIn' = TRUE \/ movingIn' = (movingIn /\ m.kind = "Closed")
    BY <1>5 DEF Reduce, ShowWith, ShowOnly, Calls
  <2>2. (movingIn /\ m.kind = "Closed") \in BOOLEAN
    OBVIOUS
  <2>3. UNCHANGED <<loaded, asksWho, forgotten, broken>>
    BY <1>5 DEF Reduce, Calls
  <2>4. QED
    BY <2>1, <2>2, <2>3 DEF StoreFlags
<1>6. QED
  BY <1>1, <1>2, <1>3, <1>4, <1>5 DEF Reduce, Calls

LEMMA SendFlags ==
  ASSUME StoreFlags, NEW sent, Send(sent), UNCHANGED storeVars
  PROVE  StoreFlags'
BY DEF StoreFlags, Send, storeVars

LEMMA StoreFlagsStep ==
  ASSUME StoreFlags, StoreSorts, [StoreNext]_storeAll
  PROVE  StoreFlags'
<1>1. CASE ServerActs
  <2>1. (\E sent : Send(sent)) /\ UNCHANGED storeVars
    BY <1>1 DEF ServerActs, ServerTransfers, ServerLoses, ServerJoins, ServerSetsStatus,
                ServerLocks, ServerUpdatesList, ServerUpdatesDetails, ServerCalls
  <2>2. QED
    BY <2>1, SendFlags
<1>2. CASE Receive
  <2>1. UNCHANGED <<hubUp, missed, overtaken>>
    BY <1>2 DEF Receive
  <2>2. CASE Reduce(Head(messages).what)
    BY <2>1, <2>2, ReduceFlags DEF StoreFlags
  <2>3. CASE /\ broken' = (broken \/ Head(messages).what.kind = "RoomUpdate")
             /\ UNCHANGED <<loaded, shown, listed, movingIn, logged, asksWho, forgotten>>
    BY <2>1, <2>3 DEF StoreFlags
  <2>4. QED
    BY <1>2, <2>2, <2>3 DEF Receive
<1>3. CASE HandleEventHubDisconnection
  BY <1>3 DEF HandleEventHubDisconnection, StoreFlags, storeVars
<1>4. CASE HubReturns \/ OpenConference \/ ServerAnswers \/ LoadConferenceFailure
  BY <1>4 DEF HubReturns, OpenConference, ServerAnswers, LoadConferenceFailure,
              StoreFlags, storeVars
<1>5. CASE ConferenceArrives
  <2>1. load \in Answers
    BY <1>5 DEF ConferenceArrives, Answered, StoreSorts, NoLoad
  <2>2. load.lost \in BOOLEAN /\ load.late \in BOOLEAN
    BY <2>1 DEF Answers
  <2>3. /\ missed' = load.lost /\ overtaken' = load.late /\ UNCHANGED <<hubUp, broken>>
        /\ loaded' = TRUE /\ asksWho' = TRUE /\ movingIn' = FALSE
        /\ forgotten' = (listed' # RoomsOf(load.entries, People))
    BY <1>5 DEF ConferenceArrives, LoadConferenceSuccess, ShowWith
  <2>4. forgotten' \in BOOLEAN
    BY <2>3
  <2>5. QED
    BY <2>2, <2>3, <2>4 DEF StoreFlags
<1>6. CASE LoadLoggedInParticipantSuccess \/ LeaveConference
  BY <1>6 DEF LoadLoggedInParticipantSuccess, LeaveConference, StoreFlags, wireVars
<1>7. CASE UNCHANGED storeAll
  BY <1>7 DEF storeAll, storeVars, wireVars, StoreFlags
<1>8. CASE ReceiveDetails
  <2>1. /\ missed' = FALSE /\ overtaken' = FALSE /\ UNCHANGED <<hubUp, broken>>
        /\ loaded' = TRUE /\ asksWho' = TRUE /\ movingIn' = FALSE
        /\ forgotten' = (listed' # RoomsOf(Head(messages).what.entries, People))
    BY <1>8 DEF ReceiveDetails, LoadConferenceSuccess, ShowWith
  <2>2. forgotten' \in BOOLEAN
    BY <2>1
  <2>3. QED
    BY <2>1, <2>2 DEF StoreFlags
<1>9. QED
  BY <1>1, <1>2, <1>3, <1>4, <1>5, <1>6, <1>7, <1>8 DEF StoreNext, ServerActs

LEMMA ServerStep ==
  ASSUME StoreInv, ServerActs
  PROVE  /\ StoreSorts' /\ RoomsAreListed'
         /\ WordsLeadToTruth' /\ ShownLeadsToTruth' /\ AnswerLeadsToTruth'
<1>1. Operate /\ UNCHANGED storeVars
  BY DEF ServerActs, ServerTransfers, ServerLoses, ServerJoins, ServerSetsStatus,
         ServerLocks, ServerUpdatesList, ServerUpdatesDetails, ServerCalls
<1>2. truth' \in [People -> [status : StatusNames, room : Places]]
  <2>1. ASSUME NEW who \in People, NEW room \in Places, ServerTransfers(who, room)
        PROVE  truth' \in [People -> [status : StatusNames, room : Places]]
    <3>1. PICK status \in {"Available", "InHearing"} :
            truth' = [truth EXCEPT ![who] =
                        [status |-> StatusIn(room, status), room |-> room]]
      BY <2>1 DEF ServerTransfers
    <3>2. StatusIn(room, status) \in StatusNames
      BY DEF StatusIn, StatusNames
    <3>3. QED
      BY <3>1, <3>2 DEF StoreInv, StoreSorts
  <2>2. ASSUME NEW who \in People, NEW status \in {"Available", "Disconnected"},
               ServerSetsStatus(who, status)
        PROVE  truth' \in [People -> [status : StatusNames, room : Places]]
    BY <2>2 DEF ServerSetsStatus, StoreInv, StoreSorts, StatusNames, Places
  <2>3. ASSUME truth' = truth
        PROVE  truth' \in [People -> [status : StatusNames, room : Places]]
    BY <2>3 DEF StoreInv, StoreSorts
  <2>4. QED
    BY <2>1, <2>2, <2>3 DEF ServerActs, ServerLoses, ServerJoins, ServerLocks,
                            ServerUpdatesList, ServerUpdatesDetails, ServerCalls, Places
<1>3. \E sent \in Seq(Told) : Telling(sent) /\ Send(sent)
  <2>1. ASSUME NEW who \in People, NEW room \in Places, ServerTransfers(who, room)
        PROVE  \E sent \in Seq(Told) : Telling(sent) /\ Send(sent)
    BY <2>1, TransferTells DEF StoreInv
  <2>2. ASSUME NEW who \in People, NEW status \in {"Available", "Disconnected"},
               ServerSetsStatus(who, status)
        PROVE  \E sent \in Seq(Told) : Telling(sent) /\ Send(sent)
    BY <2>2, SetsStatusTells DEF StoreInv
  <2>3. ASSUME NEW some \in {Participants, Endpoints}, ServerUpdatesList(some)
        PROVE  \E sent \in Seq(Told) : Telling(sent) /\ Send(sent)
    BY <2>3, UpdatesListTells DEF StoreInv
  <2>4. CASE \/ \E r \in Rooms, locked \in BOOLEAN : ServerLocks(r, locked)
             \/ \E kind \in Calls : ServerCalls(kind)
    BY <2>4, NoWordTells DEF StoreInv
  <2>5. CASE ServerUpdatesDetails
    BY <2>5, UpdatesDetailsTells DEF StoreInv
  <2>6. QED
    BY <2>1, <2>2, <2>3, <2>4, <2>5 DEF ServerActs, ServerLoses, ServerJoins, Places
<1>4. ops' \in 0 .. MaxOps
  BY <1>1, ConferenceStoreAssumption DEF Operate, StoreInv, StoreSorts
<1>5. /\ messages' \in Seq(Wire)
      /\ load' \in {NoLoad, [stage |-> "asked"]} \cup Answers
      /\ WordsLeadToTruth' /\ ShownLeadsToTruth' /\ AnswerLeadsToTruth'
  BY <1>1, <1>3, SendStep DEF StoreInv, storeVars
<1>6. QED
  BY <1>1, <1>2, <1>4, <1>5 DEF StoreInv, StoreSorts, RoomsAreListed, storeVars

\* The hub goes: what was on the wire is lost, of an answer on its way too.
LEMMA HubGoesStep ==
  ASSUME StoreInv, HandleEventHubDisconnection
  PROVE  /\ StoreSorts' /\ RoomsAreListed'
         /\ WordsLeadToTruth' /\ ShownLeadsToTruth' /\ AnswerLeadsToTruth'
<1>1. /\ Operate /\ messages' = <<>> /\ truth' = truth /\ UNCHANGED storeVars
      /\ missed' <=> missed \/ messages # <<>>
      /\ overtaken' = overtaken
  BY DEF HandleEventHubDisconnection, StoreInv, StoreFlags
<1>2. ops' \in 0 .. MaxOps /\ messages' \in Seq(Wire) /\ Len(messages') = 0
  BY <1>1, ConferenceStoreAssumption, EmptySeq DEF Operate, StoreInv, StoreSorts
<1>3. /\ load' \in {NoLoad, [stage |-> "asked"]} \cup Answers
      /\ Answered' => \/ load'.lost
                      \/ load' = load /\ messages = <<>>
  <2>1. CASE loaded
    BY <2>1 DEF HandleEventHubDisconnection, LoadConference, Answered
  <2>2. CASE ~loaded /\ Answered /\ messages # <<>>
    BY <2>2, MarkedLoad DEF HandleEventHubDisconnection, StoreInv
  <2>3. CASE ~loaded /\ ~(Answered /\ messages # <<>>)
    BY <2>3 DEF HandleEventHubDisconnection, StoreInv, StoreSorts, Answered
  <2>4. QED
    BY <2>1, <2>2, <2>3
<1>4. WordsLeadToTruth'
  BY <1>1, <1>2 DEF StoreInv, WordsLeadToTruth
<1>5. ShownLeadsToTruth'
  BY <1>1 DEF StoreInv, ShownLeadsToTruth, WordAfter, storeVars
<1>6. AnswerLeadsToTruth'
  BY <1>1, <1>3 DEF StoreInv, AnswerLeadsToTruth, LateWord, Answered
<1>7. QED
  BY <1>1, <1>2, <1>3, <1>4, <1>5, <1>6 DEF StoreInv, StoreSorts, RoomsAreListed, storeVars

\* The server answers with what it has.
LEMMA AnswersStep ==
  ASSUME StoreInv, ServerAnswers
  PROVE  /\ StoreSorts' /\ RoomsAreListed'
         /\ WordsLeadToTruth' /\ ShownLeadsToTruth' /\ AnswerLeadsToTruth'
<1>1. /\ load' = [stage |-> "answered", entries |-> Entries, lost |-> FALSE, late |-> FALSE]
      /\ messages' = [i \in DOMAIN messages |-> [messages[i] EXCEPT !.late = FALSE]]
      /\ UNCHANGED <<truthVars, storeVars, hubUp, missed, overtaken>>
  BY DEF ServerAnswers
<1>2. Len(messages) \in Nat /\ DOMAIN messages = 1 .. Len(messages)
      /\ \A i \in 1 .. Len(messages) : messages[i] \in Wire
  BY LenProperties, ElementOfSeq DEF StoreInv, StoreSorts
<1>3. messages' \in [1 .. Len(messages) -> Wire]
  BY <1>1, <1>2 DEF Wire
<1>4. messages' \in Seq(Wire) /\ Len(messages') = Len(messages)
  BY <1>2, <1>3, SeqDef, LenProperties
<1>5. \A i \in 1 .. Len(messages) : messages'[i].what = messages[i].what
  BY <1>1, <1>2 DEF Wire
<1>6. \A a, x : \A i \in Nat : WordAfter(a, x, i)' <=> WordAfter(a, x, i)
  BY <1>2, <1>4, <1>5 DEF WordAfter
<1>7. Entries \in ServerEntries
      /\ \A x \in People : Entries[x].status = truth[x].status
                           /\ Entries[x].room = truth[x].room
  BY EntriesOfTheServer DEF Entries, StoreInv
<1>8. StoreSorts'
  BY <1>1, <1>4, <1>7 DEF StoreInv, StoreSorts, Answers, truthVars, storeVars
<1>9. RoomsAreListed'
  BY <1>1 DEF StoreInv, RoomsAreListed, storeVars
<1>10. WordsLeadToTruth'
  BY <1>1, <1>2, <1>4, <1>5, <1>6 DEF StoreInv, WordsLeadToTruth, truthVars
<1>11. ShownLeadsToTruth'
  BY <1>1, <1>6 DEF StoreInv, ShownLeadsToTruth, truthVars, storeVars
<1>12. AnswerLeadsToTruth'
  <2>1. \A x \in People, a \in Aspects : IsSo(a, x, truth'[x], Aspect(a, Entries[x]))
    BY <1>1, <1>7 DEF IsSo, Aspect, truthVars
  <2>2. load'.entries = Entries
    BY <1>1
  <2>3. QED
    BY <2>1, <2>2 DEF AnswerLeadsToTruth
<1>13. QED
  BY <1>8, <1>9, <1>10, <1>11, <1>12

\* A conference that is loaded lists the rooms it has.
LEMMA LoadedRooms ==
  ASSUME NEW entries \in ServerEntries, LoadConferenceSuccess(entries)
  PROVE  RoomsAreListed'
<1> SUFFICES ASSUME ~forgotten', NEW x \in People, shown'[x].room # NoRoom
             PROVE  listed'[shown'[x].room] = Listing(shown'[x].locked)
  BY DEF RoomsAreListed
<1>1. /\ shown' = entries /\ listed' = RoomsOf(entries, Participants)
      /\ listed' = RoomsOf(entries, People)
  BY DEF LoadConferenceSuccess, ShowWith
<1>2. entries[x].room \in Rooms
  BY <1>1 DEF ServerEntries, EntryRecords, Places
<1>3. Participants \in SUBSET People
  BY DEF People
<1>4. QED
  BY <1>1, <1>2, <1>3, RoomsOfTheServer

\* The answer is shown.
LEMMA ArrivesStep ==
  ASSUME StoreInv, ConferenceArrives
  PROVE  /\ StoreSorts' /\ RoomsAreListed'
         /\ WordsLeadToTruth' /\ ShownLeadsToTruth' /\ AnswerLeadsToTruth'
<1>1. /\ Answered /\ load' = NoLoad /\ shown' = load.entries /\ loaded'
      /\ listed' = RoomsOf(load.entries, Participants)
      /\ forgotten' <=> listed' # RoomsOf(load.entries, People)
      /\ missed' = load.lost /\ overtaken' = load.late
      /\ UNCHANGED <<truthVars, hubUp, messages, broken>>
  BY DEF ConferenceArrives, LoadConferenceSuccess, ShowWith
<1>2. load.entries \in ServerEntries
  BY <1>1 DEF Answered, StoreInv, StoreSorts, NoLoad, Answers
<1>3. StoreSorts'
  <2>1. load.entries \in [People -> EntryRecords]
    BY <1>2 DEF ServerEntries
  <2>2. listed' \in [Rooms -> {"no", "open", "locked"}]
    BY <1>1 DEF RoomsOf, Listing
  <2>3. QED
    BY <1>1, <2>1, <2>2 DEF StoreInv, StoreSorts, truthVars
<1>4. RoomsAreListed'
  BY <1>2, LoadedRooms DEF ConferenceArrives
<1>5. WordsLeadToTruth'
  BY <1>1 DEF StoreInv, WordsLeadToTruth, WordAfter, truthVars
<1>6. ShownLeadsToTruth'
  <2> SUFFICES ASSUME ~load.lost, ~load.late, NEW x \in People, NEW a \in Aspects
               PROVE  IsSo(a, x, truth[x], Aspect(a, load.entries[x])) \/ WordAfter(a, x, 0)'
    BY <1>1 DEF ShownLeadsToTruth, truthVars
  <2>1. IsSo(a, x, truth[x], Aspect(a, load.entries[x])) \/ LateWord(a, x)
    BY <1>1 DEF StoreInv, AnswerLeadsToTruth
  <2>2. LateWord(a, x) => WordAfter(a, x, 0)'
    BY <1>1 DEF LateWord, WordAfter
  <2>3. QED
    BY <2>1, <2>2
<1>7. AnswerLeadsToTruth'
  BY <1>1 DEF AnswerLeadsToTruth, Answered, NoLoad
<1>8. QED
  BY <1>3, <1>4, <1>5, <1>6, <1>7

LEMMA StoreNextInv ==
  ASSUME StoreInv, [StoreNext]_storeAll
  PROVE  StoreInv'
<1>1. StoreFlags'
  BY StoreFlagsStep DEF StoreInv
<1>2. CASE ServerActs
  BY <1>1, <1>2, ServerStep DEF StoreInv
<1>3. CASE Receive \/ ReceiveDetails
  <2>1. StoreSorts' /\ WordsLeadToTruth' /\ ShownLeadsToTruth' /\ AnswerLeadsToTruth'
    BY <1>3, ReceiveStep DEF StoreInv
  <2>2. Head(messages).what \in Told
    <3>1. messages \in Seq(Wire) /\ messages # <<>>
      BY <1>3 DEF Receive, ReceiveDetails, StoreInv, StoreSorts
    <3>2. Head(messages) \in Wire
      BY <3>1, HeadTailProperties
    <3>3. QED
      BY <3>2 DEF Wire
  <2>3. CASE loaded /\ Reduce(Head(messages).what)
    BY <1>1, <2>1, <2>2, <2>3, ReducedRooms DEF StoreInv
  <2>4. CASE UNCHANGED <<loaded, shown, listed, forgotten>>
    BY <1>1, <2>1, <2>4 DEF StoreInv, RoomsAreListed
  <2>5. CASE ReceiveDetails
    <3>1. Head(messages).what.entries \in ServerEntries
      BY <2>2, <2>5, ToldKinds DEF ReceiveDetails
    <3>2. RoomsAreListed'
      BY <2>5, <3>1, LoadedRooms DEF ReceiveDetails
    <3>3. QED
      BY <1>1, <2>1, <3>2 DEF StoreInv
  <2>6. QED
    BY <1>3, <2>3, <2>4, <2>5 DEF Receive
<1>4. CASE HandleEventHubDisconnection
  BY <1>1, <1>4, HubGoesStep DEF StoreInv
<1>5. CASE ServerAnswers
  BY <1>1, <1>5, AnswersStep DEF StoreInv
<1>6. CASE ConferenceArrives
  BY <1>1, <1>6, ArrivesStep DEF StoreInv
<1>7. CASE HubReturns \/ OpenConference \/ LoadConferenceFailure \/ UNCHANGED storeAll
  <2>1. /\ UNCHANGED <<truth, storeVars, messages, missed, overtaken>>
        /\ load' \in {load, NoLoad, [stage |-> "asked"]}
        /\ hubUp' = hubUp \/ hubUp'
        /\ ops' \in {ops, ops + 1} /\ (ops' = ops \/ Operate)
    BY <1>7 DEF HubReturns, OpenConference, LoadConferenceFailure, LoadConference,
                storeAll, truthVars, wireVars, Operate
  <2>2. ops' \in 0 .. MaxOps
    BY <2>1, ConferenceStoreAssumption DEF Operate, StoreInv, StoreSorts
  <2>3. StoreSorts'
    BY <2>1, <2>2 DEF StoreInv, StoreSorts, storeVars
  <2>4. WordsLeadToTruth' /\ ShownLeadsToTruth' /\ RoomsAreListed'
    BY <2>1 DEF StoreInv, WordsLeadToTruth, ShownLeadsToTruth, RoomsAreListed, WordAfter,
                storeVars
  <2>5. AnswerLeadsToTruth'
    BY <2>1 DEF StoreInv, AnswerLeadsToTruth, LateWord, Answered, NoLoad
  <2>6. QED
    BY <1>1, <2>3, <2>4, <2>5 DEF StoreInv
<1>8. CASE LoadLoggedInParticipantSuccess
  BY <1>1, <1>8 DEF LoadLoggedInParticipantSuccess, StoreInv, StoreSorts, WordsLeadToTruth,
                    ShownLeadsToTruth, AnswerLeadsToTruth, RoomsAreListed, WordAfter,
                    LateWord, Answered, truthVars, wireVars
<1>9. CASE LeaveConference
  <2>1. /\ ~loaded' /\ UNCHANGED <<truth, wireVars>> /\ Operate
        /\ shown' = [x \in People |-> Unloaded] /\ listed' = [r \in Rooms |-> "no"]
    BY <1>9 DEF LeaveConference
  <2>2. ops' \in 0 .. MaxOps /\ Unloaded \in EntryRecords
    BY <2>1, ConferenceStoreAssumption
       DEF Operate, StoreInv, StoreSorts, Unloaded, EntryRecords, StatusNames, Places
  <2>3. StoreSorts'
    BY <2>1, <2>2 DEF StoreInv, StoreSorts, wireVars
  <2>4. QED
    BY <1>1, <2>1, <2>3 DEF StoreInv, WordsLeadToTruth, ShownLeadsToTruth, AnswerLeadsToTruth,
                            RoomsAreListed, WordAfter, LateWord, Answered, wireVars
<1>10. QED
  BY <1>2, <1>3, <1>4, <1>5, <1>6, <1>7, <1>8, <1>9 DEF StoreNext, ServerActs

\* With nothing on the wire, what is shown is so.
LEMMA StoreInvSafe ==
  ASSUME StoreInv PROVE StoreTypeOK /\ StoreCatchesUp
<1>1. StoreTypeOK
  <2>1. load.stage \in {"none", "asked", "answered"}
    BY DEF StoreInv, StoreSorts, NoLoad, Answers
  <2>2. \A x \in People : shown[x].room \in Rooms \cup {NoRoom}
    BY DEF StoreInv, StoreSorts, EntryRecords, Places
  <2>3. listed \in [Rooms -> {"no", "open", "locked"}] /\ ops \in 0 .. MaxOps
    BY DEF StoreInv, StoreSorts
  <2>4. StoreFlags
    BY DEF StoreInv
  <2>5. QED
    BY <2>1, <2>2, <2>3, <2>4, Zenon DEF StoreTypeOK, StoreFlags
<1>2. StoreCatchesUp
  <2> SUFFICES ASSUME loaded, messages = <<>>, ~missed, ~overtaken, ~broken, NEW x \in People
               PROVE  /\ shown[x].status = truth[x].status
                      /\ truth[x].status = "InConsultation" => shown[x].room = truth[x].room
                      /\ x \in Participants /\ shown[x].status = "Disconnected" =>
                           shown[x].room = NoRoom
    BY DEF StoreCatchesUp
  <2>1. \A a : ~WordAfter(a, x, 0)
    BY DEF WordAfter
  <2>2. \A a \in Aspects : IsSo(a, x, truth[x], Aspect(a, shown[x]))
    BY <2>1 DEF StoreInv, ShownLeadsToTruth
  <2>3. shown[x].status = truth[x].status /\ (Placed(x, truth[x]) => shown[x].room = truth[x].room)
    <3>1. IsSo("status", x, truth[x], Aspect("status", shown[x]))
          /\ IsSo("room", x, truth[x], Aspect("room", shown[x]))
      BY <2>2 DEF Aspects
    <3>2. QED
      BY <3>1 DEF IsSo, Aspect
  <2>4. QED
    BY <2>3 DEF StoreInv, WordsLeadToTruth, Placed
<1>3. QED
  BY <1>1, <1>2

\* However messages, losses of the hub, and loads asked for, cancelled and answered
\* interleave: with nothing on its way the store shows the status of everyone and
\* the room of everyone in a consultation as the server has them, unless a message
\* was lost or overtaken since; and everyone in a room sees it listed, locked or
\* open as they see it, unless the rooms were listed from one kind of people.
THEOREM StoreSpecSafe ==
  StoreSpec => [](StoreTypeOK /\ StoreCatchesUp /\ RoomsAreListed)
<1>1. StoreInit => StoreInv
  BY StoreInitInv
<1>2. StoreInv /\ [StoreNext]_storeAll => StoreInv'
  BY StoreNextInv
<1>3. StoreInv => StoreTypeOK /\ StoreCatchesUp /\ RoomsAreListed
  BY StoreInvSafe DEF StoreInv
<1>4. QED
  BY <1>1, <1>2, <1>3, PTL DEF StoreSpec
=============================================================================
