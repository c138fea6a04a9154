----------------------------- MODULE Conference -----------------------------
(***************************************************************************)
(* The cached conference of VideoWeb.Common/Models/Conference.cs and the   *)
(* operations on it that the event handlers call.  A conference is one     *)
(* record: it is read from the cache, changed and written back as a whole. *)
(*                                                                         *)
(* A consultation room is its label.  "rooms" is the list                  *)
(* Conference.ConsultationRooms; the room a participant or an endpoint is  *)
(* in (its CurrentRoom) is kept beside it, as in the JSON in the cache,    *)
(* where the two are separate objects.  The conference has one civilian    *)
(* room (a VMR shared by linked participants, for instance a witness and   *)
(* an interpreter); "vmr" is the list of participants in it.               *)
(***************************************************************************)
CONSTANTS
  Participants,   \* ids of the participants of the conference
  Endpoints,      \* ids of its video endpoints (JVS)
  Rooms,          \* labels of consultation rooms
  NoRoom          \* CurrentRoom = null

Locations == {"WaitingRoom", "HearingRoom"} \cup Rooms

ASSUME PartiesAssumption == Participants \cap Endpoints = {}
ASSUME RoomsAssumption ==
  /\ NoRoom \notin Locations
  /\ Rooms \cap {"WaitingRoom", "HearingRoom", "Out"} = {}

ConferenceStatus ==
  {"NotStarted", "InSession", "Paused", "Suspended", "Closed"}

ParticipantStatus ==
  {"None", "NotSignedIn", "Joining", "Available", "InHearing",
   "InConsultation", "Disconnected"}

EndpointStatus ==
  {"NotYetJoined", "Connected", "InHearing", "InConsultation", "Disconnected"}

CachedConference ==
  [status            : ConferenceStatus,
   countdownComplete : BOOLEAN,
   pStatus           : [Participants -> ParticipantStatus],
   pRoom             : [Participants -> Rooms \cup {NoRoom}],
   eStatus           : [Endpoints -> EndpointStatus],
   eRoom             : [Endpoints -> Rooms \cup {NoRoom}],
   rooms             : SUBSET Rooms,
   vmr               : SUBSET Participants]

NewConference ==
  [status            |-> "NotStarted",
   countdownComplete |-> FALSE,
   pStatus           |-> [p \in Participants |-> "None"],
   pRoom             |-> [p \in Participants |-> NoRoom],
   eStatus           |-> [e \in Endpoints |-> "NotYetJoined"],
   eRoom             |-> [e \in Endpoints |-> NoRoom],
   rooms             |-> {},
   vmr               |-> {}]

-----------------------------------------------------------------------------
(***************************************************************************)
(* Consultation rooms.                                                     *)
(***************************************************************************)
IsConsultation(label) == label \in Rooms

InRoom(c, label) ==
  {p \in Participants : c.pRoom[p] = label}
    \cup {e \in Endpoints : c.eRoom[e] = label}

UpsertConsultationRoom(c, label) == [c EXCEPT !.rooms = @ \cup {label}]

\* Mutant: the room is not added to the list.
AddParticipantUnlisted(c, label, p) == [c EXCEPT !.pRoom[p] = label]

AddParticipantToConsultationRoom(c, label, p) ==
  [UpsertConsultationRoom(c, label) EXCEPT !.pRoom[p] = label]

AddEndpointToConsultationRoom(c, label, e) ==
  [UpsertConsultationRoom(c, label) EXCEPT !.eRoom[e] = label]

CheckAndRemoveEmptyConsultationRoom(c, label) ==
  IF InRoom(c, label) = {} THEN [c EXCEPT !.rooms = @ \ {label}] ELSE c

\* Whatever room the party is in is left; the emptied room that is looked for
\* is the one the caller names, which need not be the same.
RemoveParticipantFromConsultationRoom(c, p, label) ==
  CheckAndRemoveEmptyConsultationRoom([c EXCEPT !.pRoom[p] = NoRoom], label)

RemoveEndpointFromConsultationRoom(c, e, label) ==
  CheckAndRemoveEmptyConsultationRoom([c EXCEPT !.eRoom[e] = NoRoom], label)

-----------------------------------------------------------------------------
(***************************************************************************)
(* Statuses.                                                               *)
(***************************************************************************)
\* Mutant: a participant who disconnects stays in the room.
UpdateParticipantStatusOnly(c, p, status) == [c EXCEPT !.pStatus[p] = status]

UpdateParticipantStatus(c, p, status) ==
  LET updated == [c EXCEPT !.pStatus[p] = status]
  IN  IF status = "Disconnected" /\ c.pRoom[p] # NoRoom
        THEN RemoveParticipantFromConsultationRoom(updated, p, c.pRoom[p])
        ELSE updated

\* Unlike a participant, an endpoint that disconnects keeps its room.
UpdateEndpointStatus(c, e, status) == [c EXCEPT !.eStatus[e] = status]

UpdateConferenceStatus(c, status) ==
  [c EXCEPT
     !.status            = status,
     !.countdownComplete = @ /\ status \notin {"Closed", "Paused", "Suspended"}]

CompleteCountdown(c) == [c EXCEPT !.countdownComplete = TRUE]

-----------------------------------------------------------------------------
(***************************************************************************)
(* The civilian room.                                                      *)
(***************************************************************************)
AddParticipantToRoom(c, p) == [c EXCEPT !.vmr = @ \cup {p}]

\* Mutant: a participant who leaves stays a member of the civilian room.
RemoveNobodyFromRoom(c, p) == c

RemoveParticipantFromRoom(c, p) == [c EXCEPT !.vmr = @ \ {p}]

\* What ConferenceCacheMapper makes of the conference the Video API returns:
\* the rooms people are in survive, the list of consultation rooms and the
\* countdown do not, as the new object starts without them.
MapConferenceToCacheModel(details) ==
  [details EXCEPT !.rooms = {}, !.countdownComplete = FALSE]
=============================================================================
