--------------------------- MODULE ConferenceStore ---------------------------
(***************************************************************************)
(* The conference in the store of a waiting room (conference.reducer.ts),  *)
(* the load of it (conference.effects.ts) and the messages of the hub that *)
(* change it (events.service.ts), beside the conference the server has.    *)
(* People are the participants and the endpoints of one hearing.           *)
(*                                                                         *)
(* Messages come in the order they were sent, and none while the hub is    *)
(* away.  The answer to a load comes in no order with them.                *)
(***************************************************************************)
EXTENDS Naturals, Sequences

CONSTANTS
  Participants,
  Endpoints,
  Me,             \* the participant who is logged in
  Rooms,          \* the labels of the consultation rooms
  NoRoom,
  MaxOps          \* bound on what the server and the hub do in a behaviour

ASSUME ConferenceStoreAssumption ==
  /\ Me \in Participants /\ Participants \cap Endpoints = {}
  /\ NoRoom \notin Rooms /\ MaxOps \in Nat

VARIABLES
  truth,          \* the status and the room of everyone on the server
  hubUp,
  messages,       \* on their way from the hub, the oldest first
  load,           \* the request for the conference
  loaded,         \* there is a currentConference
  shown,          \* status, room and lock of everyone in it
  listed,         \* availableRooms: "no", "open" or "locked"
  movingIn,       \* my transferDirection in it
  logged,         \* loggedInParticipant
  asksWho,        \* getCurrentParticipant is in flight
  ops,            \* bounded by MaxOps
  missed,         \* history: a message was lost, and no later load has come
  overtaken,      \* history: the last load is older than a message before it
  forgotten,      \* history: rooms were listed from one kind of people only
  broken          \* history: a reducer has thrown, and the store is dead

storeVars == <<loaded, shown, listed, movingIn, logged, asksWho, forgotten,
               broken>>
truthVars == <<truth, ops>>
wireVars == <<hubUp, messages, load, missed, overtaken>>
storeAll == <<storeVars, truthVars, wireVars>>

People == Participants \cup Endpoints
Unloaded == [status |-> "Unknown", room |-> NoRoom, locked |-> FALSE]
NobodyKnown == [known |-> FALSE, entry |-> Unloaded, movingIn |-> FALSE]
NoLoad == [stage |-> "none"]

-----------------------------------------------------------------------------
(***************************************************************************)
(* The reducers.                                                           *)
(***************************************************************************)
\* updateLoggedInParticipant
LoggedFrom(entries, coming) ==
  IF logged.known
    THEN [known |-> TRUE, entry |-> entries[Me], movingIn |-> coming]
    ELSE logged

ShowWith(entries, coming) ==
  /\ shown' = entries
  /\ movingIn' = coming
  /\ logged' = LoggedFrom(entries, coming)

\* The reducers that leave loggedInParticipant as it is.
ShowOnly(entries, coming) ==
  /\ shown' = entries
  /\ movingIn' = coming
  /\ UNCHANGED logged

\* Mutant: a participant who goes away keeps the room.
KeepingRoom(who, status) ==
  IF who \in Participants
    THEN ShowWith([shown EXCEPT ![who].status = status], movingIn /\ who # Me)
    ELSE ShowOnly([shown EXCEPT ![who].status = status], movingIn)

\* updateParticipantStatus, updateEndpointStatus
UpdateStatus(who, status) ==
  LET room == IF status = "Disconnected" THEN NoRoom ELSE shown[who].room
      entries == [shown EXCEPT ![who] = [@ EXCEPT !.status = status,
                                                  !.room = room]]
  IN  IF who \in Participants
        THEN ShowWith(entries, movingIn /\ who # Me)
        ELSE ShowOnly(entries, movingIn)

ListedLock(r) == listed[r] = "locked"
Listing(locked) == IF locked THEN "locked" ELSE "open"

\* A consultation room that is not listed is listed, open; one that is left
\* by the last in it is not listed any more.
UpdateParticipantRoom(who, from, to) ==
  LET entries == [shown EXCEPT ![who].room = to,
                               ![who].locked = to # NoRoom /\ ListedLock(to)]
      empty == \A x \in People \ {who} : shown[x].room # from
  IN  /\ listed' = IF to # NoRoom
                     THEN [listed EXCEPT ![to] = IF @ = "no" THEN "open" ELSE @]
                     ELSE [r \in Rooms |->
                             IF r = from /\ empty THEN "no" ELSE listed[r]]
      /\ IF who \in Participants
           THEN ShowWith(entries, movingIn)
           ELSE ShowOnly(entries, movingIn)

\* Mutant: the people in the room keep the room they had.
UpdateRoomAlone(r, locked) ==
  /\ listed' = [listed EXCEPT ![r] = Listing(locked)]
  /\ ShowWith(shown, movingIn)

\* updateRoom: those in a room that is not listed are not looked at.
UpdateRoom(r, locked) ==
  /\ listed' = [listed EXCEPT ![r] = Listing(locked)]
  /\ ShowWith([x \in People |->
                 IF listed[r] # "no" /\ shown[x].room = r
                   THEN [shown[x] EXCEPT !.locked = locked] ELSE shown[x]],
              movingIn)

\* distinctRoomLabels, of the rooms of some of the people
RoomsOf(entries, some) ==
  [r \in Rooms |->
     IF \E x \in some : entries[x].room = r
       THEN Listing(\E x \in some : entries[x].room = r /\ entries[x].locked)
       ELSE "no"]

\* Two people see a room they share locked and open.
SeenApart(entries, some) ==
  \E x \in some, y \in People \ some :
    /\ entries[x].room = entries[y].room /\ entries[x].room # NoRoom
    /\ entries[x].locked # entries[y].locked

\* updateParticipantList, updateExistingEndpoints: the rooms are those of the
\* people updated, and the others keep the rooms and the locks they had.
UpdateList(entries, some) ==
  LET mixed == [x \in People |-> IF x \in some THEN entries[x] ELSE shown[x]]
  IN  /\ listed' = RoomsOf(mixed, some)
      /\ forgotten' = (\/ forgotten
                       \/ listed' # RoomsOf(mixed, People)
                       \/ SeenApart(mixed, some))
      /\ ShowOnly(mixed, movingIn)

LoadConferenceSuccess(entries) ==
  /\ loaded' = TRUE
  /\ listed' = RoomsOf(entries, Participants)
  /\ forgotten' = (listed' # RoomsOf(entries, People))
  /\ asksWho' = TRUE
  /\ ShowWith(entries, FALSE)

-----------------------------------------------------------------------------
(***************************************************************************)
(* The server, and the hub between.                                        *)
(***************************************************************************)
\* A room is locked in the cache when somebody enters it
\* (UpsertConsultationRoom), and stays so: a lock or an unlock is told to the
\* browsers and not stored.
Entries == [x \in People |->
              [status |-> truth[x].status, room |-> truth[x].room,
               locked |-> truth[x].room # NoRoom]]

Operate == ops < MaxOps /\ ops' = ops + 1

Answered == load.stage = "answered"

Send(sent) ==
  IF hubUp
    THEN /\ messages' = messages \o
              [i \in DOMAIN sent |-> [what |-> sent[i], late |-> Answered]]
         /\ UNCHANGED <<hubUp, load, missed, overtaken>>
    ELSE /\ missed' = TRUE
         /\ load' = IF Answered THEN [load EXCEPT !.lost = TRUE] ELSE load
         /\ UNCHANGED <<hubUp, messages, overtaken>>

StatusIn(room, otherwise) == IF room = NoRoom THEN otherwise ELSE "InConsultation"

ServerTransfers(who, room) ==
  /\ Operate
  /\ truth[who].status # "Disconnected"
  /\ room # truth[who].room
  /\ \E status \in {"Available", "InHearing"} :
       /\ truth' = [truth EXCEPT ![who] =
                      [status |-> StatusIn(room, status), room |-> room]]
       /\ Send(<<[kind |-> "RoomTransfer", who |-> who,
                  from |-> truth[who].room, to |-> room],
                 [kind |-> "Status", who |-> who,
                  status |-> StatusIn(room, status)]>>)
  /\ UNCHANGED storeVars

\* An endpoint that is disconnected keeps its room.
ServerSetsStatus(who, status) ==
  /\ Operate
  /\ truth' = [truth EXCEPT
       ![who] = [status |-> status,
                 room |-> IF who \in Endpoints THEN @.room ELSE NoRoom]]
  /\ Send(<<[kind |-> "Status", who |-> who, status |-> status]>>)
  /\ UNCHANGED storeVars

ServerLoses(who) ==
  truth[who].status # "Disconnected" /\ ServerSetsStatus(who, "Disconnected")

ServerJoins(who) ==
  truth[who].status = "Disconnected" /\ ServerSetsStatus(who, "Available")

ServerLocks(r, locked) ==
  /\ Operate
  /\ Send(<<[kind |-> "RoomUpdate", room |-> r, locked |-> locked]>>)
  /\ UNCHANGED <<truth, storeVars>>

ServerUpdatesList(some) ==
  /\ Operate
  /\ Send(<<[kind |-> "List", entries |-> Entries, some |-> some]>>)
  /\ UNCHANGED <<truth, storeVars>>

\* HearingDetailsUpdatedMessage carries the whole conference.
ServerUpdatesDetails ==
  /\ Operate
  /\ Send(<<[kind |-> "Details", entries |-> Entries]>>)
  /\ UNCHANGED <<truth, storeVars>>

Calls == {"HearingTransfer", "Paused", "Closed"}

\* I am called into the hearing, or the hearing is paused or closed.
ServerCalls(kind) ==
  /\ Operate
  /\ Send(<<[kind |-> kind]>>)
  /\ UNCHANGED <<truth, storeVars>>

Reduce(m) ==
  \/ /\ m.kind = "RoomTransfer"
     /\ UpdateParticipantRoom(m.who, m.from, m.to)
     /\ UNCHANGED <<loaded, asksWho, forgotten, broken>>
  \/ /\ m.kind = "Status"
     /\ UpdateStatus(m.who, m.status)
     /\ UNCHANGED <<loaded, listed, asksWho, forgotten, broken>>
  \/ /\ m.kind = "RoomUpdate"
     /\ UpdateRoom(m.room, m.locked)
     /\ UNCHANGED <<loaded, asksWho, forgotten, broken>>
  \/ /\ m.kind = "List"
     /\ UpdateList(m.entries, m.some)
     /\ UNCHANGED <<loaded, asksWho, broken>>
  \/ /\ m.kind = "HearingTransfer"
     /\ ShowWith(shown, TRUE)
     /\ UNCHANGED <<loaded, listed, asksWho, forgotten, broken>>
  \/ /\ m.kind \in {"Paused", "Closed"}
     /\ ShowOnly(shown, movingIn /\ m.kind = "Closed")
     /\ UNCHANGED <<loaded, listed, asksWho, forgotten, broken>>

\* An answer on its way is older than the message that is received.
MarkLoad(m) ==
  IF Answered /\ m.late THEN [load EXCEPT !.late = TRUE] ELSE load

\* A load that is asked for cancels the one before.
LoadConference == load' = [stage |-> "asked"]

\* A message for no conference is ignored, but updateRoom reads the conference
\* there is not.  A hearing that closes is loaded again: refreshConferenceOnClose$.
Receive ==
  /\ messages # <<>>
  /\ messages' = Tail(messages)
  /\ IF loaded /\ ~broken /\ Head(messages).what.kind = "Closed"
       THEN LoadConference
       ELSE load' = MarkLoad(Head(messages))
  /\ \/ loaded /\ ~broken /\ Reduce(Head(messages).what)
     \/ /\ broken \/ (~loaded /\ Head(messages).what.kind # "Details")
        /\ broken' = (broken \/ Head(messages).what.kind = "RoomUpdate")
        /\ UNCHANGED <<loaded, shown, listed, movingIn, logged, asksWho,
                       forgotten>>
  /\ UNCHANGED <<truthVars, hubUp, missed, overtaken>>

\* HearingDetailsUpdatedMessage is a load that nobody has asked for.
ReceiveDetails ==
  /\ messages # <<>> /\ ~broken
  /\ Head(messages).what.kind = "Details"
  /\ messages' = Tail(messages)
  /\ load' = MarkLoad(Head(messages))
  /\ LoadConferenceSuccess(Head(messages).what.entries)
  /\ missed' = FALSE /\ overtaken' = FALSE
  /\ UNCHANGED <<truthVars, hubUp, broken>>

\* handleEventHubDisconnection: the conference is loaded when the hub goes (or
\* another attempt fails), and not when it comes back.
HandleEventHubDisconnection ==
  /\ Operate
  /\ hubUp' = FALSE
  /\ messages' = <<>>
  /\ missed' = (missed \/ messages # <<>>)
  /\ IF loaded
       THEN LoadConference
       ELSE load' = IF Answered /\ messages # <<>>
                      THEN [load EXCEPT !.lost = TRUE] ELSE load
  /\ UNCHANGED <<truth, storeVars, overtaken>>

HubReturns ==
  /\ ~hubUp
  /\ hubUp' = TRUE
  /\ UNCHANGED <<truthVars, storeVars, messages, load, missed, overtaken>>

OpenConference ==
  /\ ~loaded
  /\ Operate
  /\ LoadConference
  /\ UNCHANGED <<truth, storeVars, hubUp, messages, missed,
                 overtaken>>

ServerAnswers ==
  /\ load.stage = "asked"
  /\ load' = [stage |-> "answered", entries |-> Entries, lost |-> FALSE,
              late |-> FALSE]
  /\ messages' = [i \in DOMAIN messages |-> [messages[i] EXCEPT !.late = FALSE]]
  /\ UNCHANGED <<truthVars, storeVars, hubUp, missed, overtaken>>

ConferenceArrives ==
  /\ Answered /\ ~broken
  /\ load' = NoLoad
  /\ LoadConferenceSuccess(load.entries)
  /\ missed' = load.lost
  /\ overtaken' = load.late
  /\ UNCHANGED <<truthVars, hubUp, messages, broken>>

\* The error page or a message, and the conference stays as it was.
LoadConferenceFailure ==
  /\ load # NoLoad
  /\ load' = NoLoad
  /\ UNCHANGED <<truthVars, storeVars, hubUp, messages, missed, overtaken>>

LoadLoggedInParticipantSuccess ==
  /\ asksWho /\ loaded /\ ~broken
  /\ asksWho' = FALSE
  /\ logged' = [known |-> TRUE, entry |-> shown[Me], movingIn |-> movingIn]
  /\ UNCHANGED <<truthVars, wireVars, loaded, shown, listed, movingIn,
                 forgotten, broken>>

LeaveConference ==
  /\ loaded /\ ~broken
  /\ Operate
  /\ loaded' = FALSE
  /\ shown' = [x \in People |-> Unloaded]
  /\ listed' = [r \in Rooms |-> "no"]
  /\ movingIn' = FALSE
  /\ logged' = NobodyKnown
  /\ UNCHANGED <<truth, wireVars, asksWho, forgotten, broken>>

StoreInit ==
  /\ truth = [x \in People |-> [status |-> "Available", room |-> NoRoom]]
  /\ hubUp = TRUE /\ messages = <<>>
  /\ load = NoLoad
  /\ loaded = FALSE
  /\ shown = [x \in People |-> Unloaded]
  /\ listed = [r \in Rooms |-> "no"]
  /\ movingIn = FALSE
  /\ logged = NobodyKnown /\ asksWho = FALSE
  /\ ops = 0
  /\ missed = FALSE /\ overtaken = FALSE /\ forgotten = FALSE
  /\ broken = FALSE

StoreNext ==
  \/ \E who \in People :
       \/ \E room \in Rooms \cup {NoRoom} : ServerTransfers(who, room)
       \/ ServerLoses(who) \/ ServerJoins(who)
  \/ \E r \in Rooms, locked \in BOOLEAN : ServerLocks(r, locked)
  \/ \E some \in {Participants, Endpoints} : ServerUpdatesList(some)
  \/ ServerUpdatesDetails \/ \E kind \in Calls : ServerCalls(kind)
  \/ Receive \/ ReceiveDetails \/ HandleEventHubDisconnection \/ HubReturns
  \/ OpenConference \/ ServerAnswers \/ ConferenceArrives
  \/ LoadConferenceFailure
  \/ LoadLoggedInParticipantSuccess \/ LeaveConference

StoreSpec == StoreInit /\ [][StoreNext]_storeAll

-----------------------------------------------------------------------------
(***************************************************************************)
(* Properties.                                                             *)
(***************************************************************************)
StoreTypeOK ==
  /\ {hubUp, loaded, movingIn, asksWho, missed, overtaken, forgotten,
      broken} \subseteq BOOLEAN
  /\ load.stage \in {"none", "asked", "answered"}
  /\ \A x \in People : shown[x].room \in Rooms \cup {NoRoom}
  /\ listed \in [Rooms -> {"no", "open", "locked"}]
  /\ ops \in 0..MaxOps

\* With nothing on its way the store shows everyone where the server has them,
\* and a participant who is away in no room, whatever loads were asked for,
\* cancelled and answered between the messages - unless a message was lost and
\* no load was answered since, or the answer to the last load was taken before a
\* message that came before it.
StoreCatchesUp ==
  loaded /\ messages = <<>> /\ load = NoLoad
    /\ ~missed /\ ~overtaken /\ ~broken =>
    \A x \in People :
      /\ shown[x].status = truth[x].status
      /\ truth[x].status = "InConsultation" => shown[x].room = truth[x].room
      /\ x \in Participants /\ shown[x].status = "Disconnected" =>
           shown[x].room = NoRoom

\* Everyone in a room sees it listed, and locked or open as it is listed,
\* unless the rooms were listed from the participants alone or the endpoints
\* alone while the others had one of their own, or saw one of them otherwise.
RoomsAreListed ==
  loaded /\ ~forgotten =>
    \A x \in People : shown[x].room # NoRoom =>
      listed[shown[x].room] = Listing(shown[x].locked)
=============================================================================
