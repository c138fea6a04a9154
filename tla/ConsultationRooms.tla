-------------------------- MODULE ConsultationRooms --------------------------
(***************************************************************************)
(* Who gets into which consultation room.  Parties who are screened from   *)
(* each other must not meet, so the controller checks a party who joins,   *)
(* is invited or is added against the rooms in the cached conference, and  *)
(* then calls the Video API.  The cache learns of the move only later,     *)
(* when the supplier's callback has been handled; the one who starts a     *)
(* consultation and those who answer an invitation are not checked.        *)
(*                                                                         *)
(* How a callback is handled is the subject of ConferenceEvents: here it   *)
(* is a read of the conference and the writes of it, and the callbacks of  *)
(* one party are handled in order.  How linked participants answer         *)
(* together is the subject of Consultations.                               *)
(* The Video API is not in this repository; it moves whom it is asked to   *)
(* move, or refuses.                                                       *)
(***************************************************************************)
EXTENDS Naturals, Sequences, FiniteSets

CONSTANTS
  Participants, Endpoints,
  ProtectFrom,       \* ProtectFrom[x]: the parties x is protected from
  Unscreened,        \* hosts, judicial office holders and quick link users
  Observers,
  EndpointsOf,       \* EndpointsOf[p]: the endpoints linked to participant p
  Rooms, WaitingRoom,
  Workers,           \* requests that can be in progress at the same time
  Nobody, NoRoom,    \* fields of a worker that handles no request
  Patient,           \* nobody asks for anything until all is settled
  MaxRequests,       \* bound on the requests sent in a behaviour
  MaxFaults          \* bound on the calls the Video API refuses

Parties == Participants \cup Endpoints
Places  == Rooms \cup {WaitingRoom}
Callbacks == Places \cup {NoRoom}

-----------------------------------------------------------------------------
(***************************************************************************)
(* Screening, Conference.cs.  It has no direction: it is enough that one   *)
(* of two is protected from the other.                                     *)
(***************************************************************************)
SupportsScreening(x) == x \notin Unscreened

\* Mutant: endpoints are not screened from each other or from participants.
ParticipantsAreScreened(S) ==
  \E x \in S \cap Participants :
    \E y \in S \cap Participants : SupportsScreening(y) /\ y \in ProtectFrom[x]

AreEntitiesScreenedFromEachOther(S) ==
  \E x \in S : \E y \in S : SupportsScreening(y) /\ y \in ProtectFrom[x]

Screened(x, y) ==
  \/ SupportsScreening(y) /\ y \in ProtectFrom[x]
  \/ SupportsScreening(x) /\ x \in ProtectFrom[y]

ASSUME ConsultationRoomsAssumption ==
  /\ ProtectFrom \in [Parties -> SUBSET Parties]
  /\ Unscreened \subseteq Participants
  /\ Observers \subseteq Participants
  /\ EndpointsOf \in [Participants -> SUBSET Endpoints]
  /\ \A p \in Participants : \A e \in EndpointsOf[p] : ~Screened(p, e)
  /\ WaitingRoom \notin Rooms
  /\ Nobody \notin Parties /\ NoRoom \notin Places
  /\ Patient \in BOOLEAN
  /\ MaxRequests \in Nat /\ MaxFaults \in Nat

VARIABLES
  place,       \* place[x]: where the Video API has x
  pending,     \* pending[x]: the callbacks about x that are not handled yet:
               \* the room of a transfer, or NoRoom when an endpoint has gone
  handling,    \* handling[x]: what the handler of the first of them is about
               \* to write, and the conference it has read, with its change
  cached,      \* cached[x]: CurrentRoom of x in the cached conference
  rooms,       \* the consultation rooms that have been created
  shown,       \* <<r, p>>: p has been shown an invitation to room r
  told,        \* told[x]: the last consultation answer clients heard of x
  req,         \* req[w]: the request worker w is handling
  sent,        \* requests sent so far (bounded by MaxRequests)
  faults,      \* calls refused so far (bounded by MaxFaults)
  entry,       \* history: how x last came to a consultation, and whom a check
               \* of it could not see
  overwritten  \* history: parties whose cached room an older copy replaced

historyVars == <<entry, overwritten>>
vars == <<place, pending, handling, cached, rooms, shown, told, req, sent,
          faults, historyVars>>

InRoom(r) == {x \in Parties : cached[x] = r}

\* CanParticipantJoinConsultationRoom, CanEndpointJoinConsultationRoom
CanJoinConsultationRoom(r, x) ==
  /\ x \notin Observers
  /\ ~AreEntitiesScreenedFromEachOther(InRoom(r) \cup {x})

-----------------------------------------------------------------------------
(***************************************************************************)
(* The worker.  "by" is how the request brings "who" into "room":          *)
(* Joined and Added are checked, Answered is not.  "copy" is the           *)
(* conference StartParticipantConsultation has read.                       *)
(***************************************************************************)
Steps == {"idle", "tell", "call", "announce", "create", "write", "show", "link"}
Ways  == {"None", "Joined", "Added", "Answered", "Started", "Linked"}
Checked == {"Joined", "Added"}

Request ==
  [pc        : Steps,
   by        : Ways,
   who       : Parties \cup {Nobody},
   room      : Rooms \cup {NoRoom},
   invitees  : SUBSET Participants,
   endpoints : SUBSET Endpoints,
   copy      : [Parties -> Places],
   unseen    : SUBSET Parties]

Nowhere == [x \in Parties |-> WaitingRoom]

Idle ==
  [pc |-> "idle", by |-> "None", who |-> Nobody, room |-> NoRoom,
   invitees |-> {}, endpoints |-> {}, copy |-> Nowhere, unseen |-> {}]

At(w, step) == req[w].pc = step

\* Parties the cache may be wrong about, and those a request is about to move.
OnTheWay ==
  {x \in Parties : pending[x] # <<>>} \cup overwritten
    \cup {x \in Parties : \E w \in Workers :
                            req[w].pc \in {"tell", "call"} /\ req[w].who = x}

Settled ==
  /\ \A w \in Workers : At(w, "idle")
  /\ \A x \in Parties : pending[x] = <<>>

Send ==
  /\ sent < MaxRequests
  /\ sent' = sent + 1
  /\ Patient => Settled

Refused ==
  /\ faults < MaxFaults
  /\ faults' = faults + 1

\* The Video API moves x; the supplier will call back.
MoveTo(x, r, by, unseen) ==
  /\ place' = [place EXCEPT ![x] = r]
  /\ pending' = [pending EXCEPT ![x] = Append(@, r)]
  /\ entry' = [entry EXCEPT ![x] = [by |-> by, unseen |-> unseen]]

-----------------------------------------------------------------------------
(***************************************************************************)
(* JoinPrivateConsultation, AddEndpointToConsultationAsync and, for an     *)
(* invitation that all have accepted, RespondToConsultationRequestAsync.   *)
(* The last two tell the clients before they call, the first afterwards.   *)
(***************************************************************************)
Join(w, p, r) ==
  /\ At(w, "idle") /\ Send
  /\ r \in rooms
  /\ CanJoinConsultationRoom(r, p)
  /\ req' = [req EXCEPT ![w] = [Idle EXCEPT !.pc = "call", !.by = "Joined",
                                  !.who = p, !.room = r, !.unseen = OnTheWay]]
  /\ UNCHANGED <<place, pending, handling, cached, rooms, shown, told, faults,
                 historyVars>>

AddEndpoint(w, e, r) ==
  /\ At(w, "idle") /\ Send
  /\ r \in rooms
  /\ CanJoinConsultationRoom(r, e)
  /\ req' = [req EXCEPT ![w] = [Idle EXCEPT !.pc = "tell", !.by = "Added",
                                  !.who = e, !.room = r, !.unseen = OnTheWay]]
  /\ UNCHANGED <<place, pending, handling, cached, rooms, shown, told, faults,
                 historyVars>>

Accept(w, p, r) ==
  /\ At(w, "idle") /\ Send
  /\ <<r, p>> \in shown
  /\ req' = [req EXCEPT ![w] = [Idle EXCEPT !.pc = "tell", !.by = "Answered",
                                  !.who = p, !.room = r]]
  /\ UNCHANGED <<place, pending, handling, cached, rooms, shown, told, faults,
                 historyVars>>

TellTransferring(w) ==
  /\ At(w, "tell")
  /\ told' = [told EXCEPT ![req[w].who] = "Transferring"]
  /\ req' = [req EXCEPT ![w].pc = "call"]
  /\ UNCHANGED <<place, pending, handling, cached, rooms, shown, sent, faults,
                 historyVars>>

\* Mutant: the room is not handed on to the Video API.
CallWithoutRoom(w) ==
  /\ At(w, "call")
  /\ MoveTo(req[w].who, Idle.room, req[w].by, req[w].unseen)
  /\ req' = [req EXCEPT ![w] = Idle]
  /\ UNCHANGED <<handling, cached, rooms, shown, told, sent, faults,
                 overwritten>>

Call(w) ==
  /\ At(w, "call")
  /\ LET r == req[w]
     IN  /\ MoveTo(r.who, r.room, r.by, r.unseen)
         /\ req' = [req EXCEPT ![w] = IF r.by = "Joined"
                                        THEN [r EXCEPT !.pc = "announce"] ELSE Idle]
  /\ UNCHANGED <<handling, cached, rooms, shown, told, sent, faults,
                 overwritten>>

\* Mutant: a refused call is not told.
CallRefusedSilently(w) ==
  /\ At(w, "call") /\ Refused
  /\ req' = [req EXCEPT ![w] = Idle]
  /\ UNCHANGED <<place, pending, handling, cached, rooms, shown, told, sent,
                 historyVars>>

\* A refused call is told as Failed, unless it is a participant's own join.
CallRefused(w) ==
  /\ At(w, "call") /\ Refused
  /\ told' = IF req[w].by = "Joined" THEN told
             ELSE [told EXCEPT ![req[w].who] = "Failed"]
  /\ req' = [req EXCEPT ![w] = Idle]
  /\ UNCHANGED <<place, pending, handling, cached, rooms, shown, sent,
                 historyVars>>

NotifyParticipantTransferring(w) ==
  /\ At(w, "announce")
  /\ told' = [told EXCEPT ![req[w].who] = "Transferring"]
  /\ req' = [req EXCEPT ![w] = Idle]
  /\ UNCHANGED <<place, pending, handling, cached, rooms, shown, sent, faults,
                 historyVars>>

\* InviteToConsultationAsync: checked when invited, and not again.
Invite(w, p, r) ==
  /\ At(w, "idle") /\ Send
  /\ r \in rooms
  /\ CanJoinConsultationRoom(r, p)
  /\ req' = [req EXCEPT ![w] = [Idle EXCEPT !.pc = "show", !.room = r,
                                            !.invitees = {p}]]
  /\ UNCHANGED <<place, pending, handling, cached, rooms, shown, told, faults,
                 historyVars>>

-----------------------------------------------------------------------------
(***************************************************************************)
(* StartConsultationAsync.  The invited are checked against each other;    *)
(* the page of the one who starts offers nobody screened from them.        *)
(***************************************************************************)
Start(w, p, r, I, E) ==
  /\ At(w, "idle") /\ Send
  /\ p \notin Observers /\ p \notin I
  /\ \A q \in I : ~Screened(p, q)
  /\ r \notin rooms /\ \A v \in Workers : req[v].room # r
  /\ ~AreEntitiesScreenedFromEachOther(I \cup E)
  /\ I \cap Observers = {}
  /\ req' = [req EXCEPT ![w] = [Idle EXCEPT !.pc = "create", !.who = p, !.room = r,
                                  !.invitees = I, !.endpoints = E \cap EndpointsOf[p],
                                  !.copy = cached]]
  /\ UNCHANGED <<place, pending, handling, cached, rooms, shown, told, faults,
                 historyVars>>

\* CreatePrivateConsultationAsync: a new room, with the one who asked for it.
CreateRoom(w) ==
  /\ At(w, "create")
  /\ rooms' = rooms \cup {req[w].room}
  /\ MoveTo(req[w].who, req[w].room, "Started", {})
  /\ req' = [req EXCEPT ![w].pc = "write"]
  /\ UNCHANGED <<handling, cached, shown, told, sent, faults, overwritten>>

CreateRefused(w) ==
  /\ At(w, "create") /\ Refused
  /\ req' = [req EXCEPT ![w] = Idle]
  /\ UNCHANGED <<place, pending, handling, cached, rooms, shown, told, sent,
                 historyVars>>

\* UpdateConferenceAsync, of the conference as it was before the call.
UpdateConference(w) ==
  /\ At(w, "write")
  /\ cached' = req[w].copy
  /\ overwritten' = overwritten \cup {x \in Parties : cached[x] # req[w].copy[x]}
  /\ req' = [req EXCEPT ![w].pc = "show"]
  /\ UNCHANGED <<place, pending, handling, rooms, shown, told, sent, faults,
                 entry>>

ShowInvitation(w) ==
  /\ At(w, "show")
  /\ LET r == req[w]
     IN  \/ /\ r.invitees = {}
            /\ req' = [req EXCEPT ![w].pc = "link"]
            /\ UNCHANGED shown
         \/ \E p \in r.invitees :
              /\ shown' = shown \cup {<<r.room, p>>}
              /\ req' = [req EXCEPT ![w].invitees = @ \ {p}]
  /\ UNCHANGED <<place, pending, handling, cached, rooms, told, sent, faults,
                 historyVars>>

\* JoinEndpointToConsultationAsync of the linked endpoints, until one succeeds.
LinkEndpoint(w) ==
  /\ At(w, "link")
  /\ LET r == req[w]
     IN  \/ /\ r.endpoints = {}
            /\ req' = [req EXCEPT ![w] = Idle]
            /\ UNCHANGED <<place, pending, entry, told, faults>>
         \/ \E e \in r.endpoints :
              \/ /\ MoveTo(e, r.room, "Linked", {})
                 /\ req' = [req EXCEPT ![w] = Idle]
                 /\ UNCHANGED <<told, faults>>
              \/ /\ Refused
                 /\ told' = [told EXCEPT ![e] = "Failed"]
                 /\ req' = [req EXCEPT ![w].endpoints = @ \ {e}]
                 /\ UNCHANGED <<place, pending, entry>>
  /\ UNCHANGED <<handling, cached, rooms, shown, sent, overwritten>>

-----------------------------------------------------------------------------
(***************************************************************************)
(* Leaving, and the handlers of the callbacks (EventHandlerBase).          *)
(***************************************************************************)
Leaves(x, callback) ==
  /\ Send
  /\ place[x] # WaitingRoom
  /\ place' = [place EXCEPT ![x] = WaitingRoom]
  /\ pending' = [pending EXCEPT ![x] = Append(@, callback)]
  /\ UNCHANGED <<handling, cached, rooms, shown, told, req, faults,
                 historyVars>>

\* LeaveConsultationAsync, or the supplier ends the consultation.  A participant
\* who disconnects is taken from the room, as one who leaves.
Leave(x) == Leaves(x, WaitingRoom)

Disconnect(e) == Leaves(e, NoRoom)

\* An endpoint that has gone keeps its room.
RoomAfter(callback, room) == IF callback = NoRoom THEN room ELSE callback

Unhandled == [step |-> "none", copy |-> Nowhere]

\* HandleAsync.  A transfer writes the room first and then the status.
HandleCallback(x) ==
  /\ handling[x].step = "none" /\ pending[x] # <<>>
  /\ LET callback == Head(pending[x])
     IN  handling' = [handling EXCEPT
           ![x] = [step |-> IF callback = NoRoom THEN "status" ELSE "room",
                   copy |-> [cached EXCEPT ![x] = RoomAfter(callback, @)]]]
  /\ UNCHANGED <<place, pending, cached, rooms, shown, told, req, sent, faults,
                 historyVars>>

\* The whole copy is stored, with the rooms of all others as they were read.
StoreCopy(x) ==
  /\ cached' = handling[x].copy
  /\ overwritten' = (overwritten \ {x}) \cup
       {y \in Parties \ {x} : cached[y] # handling[x].copy[y]}

UpdateConsultationRoom(x) ==
  /\ handling[x].step = "room"
  /\ StoreCopy(x)
  /\ handling' = [handling EXCEPT ![x].step = "status"]
  /\ UNCHANGED <<place, pending, rooms, shown, told, req, sent, faults, entry>>

UpdateStatus(x) ==
  /\ handling[x].step = "status"
  /\ StoreCopy(x)
  /\ handling' = [handling EXCEPT ![x] = Unhandled]
  /\ pending' = [pending EXCEPT ![x] = Tail(@)]
  /\ UNCHANGED <<place, rooms, shown, told, req, sent, faults, entry>>

Handle(w) ==
  \/ TellTransferring(w) \/ Call(w) \/ CallRefused(w)
  \/ NotifyParticipantTransferring(w)
  \/ CreateRoom(w) \/ CreateRefused(w) \/ UpdateConference(w)
  \/ ShowInvitation(w) \/ LinkEndpoint(w)

Init ==
  /\ place = Nowhere
  /\ pending = [x \in Parties |-> <<>>]
  /\ handling = [x \in Parties |-> Unhandled]
  /\ cached = Nowhere
  /\ rooms = {}
  /\ shown = {}
  /\ told = [x \in Parties |-> "None"]
  /\ req = [w \in Workers |-> Idle]
  /\ sent = 0
  /\ faults = 0
  /\ entry = [x \in Parties |-> [by |-> "None", unseen |-> {}]]
  /\ overwritten = {}

Next ==
  \/ \E w \in Workers :
       \/ Handle(w)
       \/ \E r \in Rooms :
            \/ \E p \in Participants :
                 \/ Join(w, p, r) \/ Accept(w, p, r) \/ Invite(w, p, r)
                 \/ \E I \in SUBSET Participants, E \in SUBSET Endpoints :
                      Start(w, p, r, I, E)
            \/ \E e \in Endpoints : AddEndpoint(w, e, r)
  \/ \E x \in Parties :
       \/ Leave(x)
       \/ HandleCallback(x) \/ UpdateConsultationRoom(x) \/ UpdateStatus(x)
  \/ \E e \in Endpoints : Disconnect(e)

Spec == Init /\ [][Next]_vars

-----------------------------------------------------------------------------
(***************************************************************************)
(* Properties.                                                             *)
(***************************************************************************)
TypeOK ==
  /\ place \in [Parties -> Places]
  /\ pending \in [Parties -> Seq(Callbacks)]
  /\ handling \in [Parties -> [step : {"none", "room", "status"},
                               copy : [Parties -> Places]]]
  /\ cached \in [Parties -> Places]
  /\ rooms \subseteq Rooms
  /\ shown \subseteq Rooms \X Participants
  /\ told \in [Parties -> {"None", "Transferring", "Failed"}]
  /\ req \in [Workers -> Request]
  /\ sent \in Nat /\ faults \in Nat
  /\ entry \in [Parties -> [by : Ways, unseen : SUBSET Parties]]
  /\ overwritten \subseteq Parties

Together(x, y) == x # y /\ place[x] = place[y] /\ place[x] \in Rooms

\* One of the two was on the way, or its room overwritten, at the other's check.
Unseen(x, y) == x \in entry[y].unseen \/ y \in entry[x].unseen

\* Of two parties who both came in by a check and are screened from each other,
\* none is let into the other's room unless the cache could not tell: a request
\* or a callback was under way, or an older copy of the conference was stored.
CheckedMeetOnlyUnseen ==
  \A x, y \in Parties :
    Together(x, y) /\ Screened(x, y)
      /\ entry[x].by \in Checked /\ entry[y].by \in Checked => Unseen(x, y)

\* What AreEntitiesScreenedFromEachOther says of screened entities, that they
\* "cannot be in a consultation together", claimed of requests none of which is
\* made before all earlier ones are settled.
ScreenedAreApart ==
  \A x, y \in Parties :
    Together(x, y) /\ Screened(x, y) => {x, y} \cap overwritten # {}

\* When no request is in progress, whom the clients were last told to be
\* transferring has been moved at some time: a refusal is told to all.
TransferringIsMoved ==
  (\A w \in Workers : At(w, "idle")) =>
    \A x \in Parties : told[x] = "Transferring" => entry[x].by # "None"
=============================================================================
