--------------------------- MODULE ConferenceEvents ---------------------------
(***************************************************************************)
(* The event pipeline of vh-video-web: how the callbacks of the conference *)
(* supplier, the status a browser posts, a started consultation and an     *)
(* internal refresh change the conference in the shared Redis cache.       *)
(*                                                                         *)
(* Every request is handled by one worker (an ASP.NET request on any       *)
(* instance).  A worker reads the whole conference, awaits, changes its    *)
(* copy and writes the whole conference back; nothing locks or versions    *)
(* the entry, so the steps of different workers interleave at every await. *)
(*                                                                         *)
(* The supplier and the Video API are not in this repository.  They are    *)
(* modelled from how the code uses them: the supplier moves people between *)
(* the waiting room, the hearing room and consultation rooms and posts one *)
(* callback per move; the Video API records every event raised to it.      *)
(***************************************************************************)
EXTENDS Conference, Naturals, Sequences

CONSTANTS
  Workers,        \* requests that can be in progress at the same time
  Linked,         \* participants that connect through the civilian room
  VMR,            \* the id of the civilian room, as an event's participant id
  Nobody,         \* an event about the conference as a whole
  Missing,        \* the cache has no entry for the conference
  InOrder,        \* TRUE: requests are taken up in the order they are sent
  Kinds,          \* the kinds of request a behaviour contains
  MaxEvents,      \* bound on the requests sent in a behaviour
  MaxFaults       \* bound on failures of the cache and of the Video API

VARIABLES
  where,      \* supplier: where each party is, "Out" when not connected
  hearing,    \* supplier: the status of the hearing and of its countdown
  net,        \* requests sent to the web app and not yet taken up
  cache,      \* the cache entry: a conference, or Missing
  api,        \* the conference as the Video API would return it
  req,        \* req[w]: the request worker w is handling
  ui,         \* what the messages of the hub have told the connected clients
  raised,     \* history: the callbacks the Video API has accepted
  sent,       \* requests sent so far (bounded by MaxEvents)
  faults      \* failures so far (bounded by MaxFaults)

supplierVars == <<where, hearing, net, sent>>
apiVars      == <<api, raised>>
vars == <<supplierVars, cache, apiVars, req, ui, faults>>

Parties == Participants \cup Endpoints

-----------------------------------------------------------------------------
(***************************************************************************)
(* Requests.  "to" and "from" are rooms, used by transfers and, for "to",  *)
(* by StartConsultation.  "via" says the event carries the id of the       *)
(* civilian room beside the participant's.                                 *)
(***************************************************************************)
SupplierTypes ==
  {"Joined", "Disconnected", "Leave", "LeaveForOtherDevice", "Transfer",
   "Start", "Pause", "Suspend", "Close", "CountdownFinished"}
BrowserTypes == {"BrowserNotSignedIn", "BrowserJoining", "BrowserDisconnected"}
Types == SupplierTypes \cup BrowserTypes \cup {"StartConsultation", "Refresh"}

ASSUME EventsAssumption ==
  /\ Linked \subseteq Participants
  /\ VMR \notin Participants \cup Endpoints
  /\ Nobody \notin Participants \cup Endpoints \cup {VMR}
  /\ Missing \notin CachedConference
  /\ InOrder \in BOOLEAN
  /\ Kinds \subseteq Types
  /\ MaxEvents \in Nat /\ MaxFaults \in Nat

Event ==
  [type : Types,
   who  : Parties \cup {VMR, Nobody},
   from : Locations \cup {NoRoom},
   to   : Locations \cup {NoRoom},
   via  : BOOLEAN]

Simple(type, who) ==
  [type |-> type, who |-> who, from |-> NoRoom, to |-> NoRoom, via |-> FALSE]

Via(type, who) == [Simple(type, who) EXCEPT !.via = TRUE]

Transfer(who, from, to) ==
  [Simple("Transfer", who) EXCEPT !.from = from, !.to = to]

(***************************************************************************)
(* A callback event: one per participant concerned, with the status that   *)
(* its handler is going to publish ("None" where that is no participant's  *)
(* or endpoint's status).                                                  *)
(***************************************************************************)
Statuses == ParticipantStatus \cup EndpointStatus \cup ConferenceStatus

Callback ==
  [type : Types, who : Parties \cup {Nobody}, status : Statuses,
   from : Locations \cup {NoRoom}, to : Locations \cup {NoRoom}]

NoCallback ==
  [type |-> "Refresh", who |-> Nobody, status |-> "None",
   from |-> NoRoom, to |-> NoRoom]

-----------------------------------------------------------------------------
(***************************************************************************)
(* CallbackEventMapper and the Derive... methods of the transfer handlers. *)
(* They look at the conference the controller has read, which the          *)
(* handlers do not: they read it again.                                    *)
(***************************************************************************)
OthersInConsultation(c, p) ==
  {q \in c.vmr \ {p} : c.pStatus[q] = "InConsultation"}

JoinedStatus(c, p, inVmr) ==
  IF inVmr /\ p \in c.vmr /\ c.status = "InSession" THEN "InHearing"
  ELSE IF inVmr /\ OthersInConsultation(c, p) # {} THEN "InConsultation"
  ELSE "Available"

\* Mutant: an endpoint gets a participant's status in the waiting room.
ParticipantTransferStatus(party, to) ==
  IF to = "HearingRoom" THEN "InHearing"
  ELSE IF IsConsultation(to) THEN "InConsultation" ELSE "Available"

TransferStatus(party, to) ==
  IF to = "HearingRoom" THEN "InHearing"
  ELSE IF IsConsultation(to) THEN "InConsultation"
  ELSE IF party \in Endpoints THEN "Connected" ELSE "Available"

ConferenceStatusOf(type) ==
  CASE type = "Start"   -> "InSession"
    [] type = "Pause"   -> "Paused"
    [] type = "Suspend" -> "Suspended"
    [] type = "Close"   -> "Closed"
    [] OTHER            -> "None"

StatusOf(e, party, c) ==
  CASE e.type = "Joined" ->
         IF party \in Endpoints THEN "Connected"
         ELSE JoinedStatus(c, party, e.via \/ e.who = VMR)
    [] e.type = "Transfer" -> TransferStatus(party, e.to)
    [] e.type \in {"Disconnected", "Leave", "LeaveForOtherDevice",
                   "BrowserDisconnected"} -> "Disconnected"
    [] e.type = "BrowserJoining" -> "Joining"
    [] e.type = "BrowserNotSignedIn" -> "NotSignedIn"
    [] OTHER -> ConferenceStatusOf(e.type)

\* An event about the civilian room becomes one event per participant in it.
Concerned(e, c) == IF e.who = VMR THEN c.vmr ELSE {e.who}

Callbacks(e, c) ==
  {[type |-> e.type, who |-> party, status |-> StatusOf(e, party, c),
    from |-> e.from, to |-> e.to] : party \in Concerned(e, c)}

(***************************************************************************)
(* What the handler of a callback does to its copy of the conference: the  *)
(* room first (transfers only), then the status.                           *)
(***************************************************************************)
MoveRoom(c, cb) ==
  IF cb.who \in Endpoints
    THEN IF IsConsultation(cb.to)
           THEN AddEndpointToConsultationRoom(c, cb.to, cb.who)
           ELSE RemoveEndpointFromConsultationRoom(c, cb.who, cb.from)
    ELSE IF IsConsultation(cb.to)
           THEN AddParticipantToConsultationRoom(c, cb.to, cb.who)
           ELSE RemoveParticipantFromConsultationRoom(c, cb.who, cb.from)

SetStatus(c, cb) ==
  IF cb.who \in Participants THEN UpdateParticipantStatus(c, cb.who, cb.status)
  ELSE IF cb.who \in Endpoints THEN UpdateEndpointStatus(c, cb.who, cb.status)
  ELSE IF cb.type = "CountdownFinished" THEN CompleteCountdown(c)
  ELSE UpdateConferenceStatus(c, cb.status)

\* LeaveEventHandler publishes only for a participant who is in the hearing or
\* in a consultation, or whose seat another device has taken.
LeaveIsIgnored(c, cb) ==
  /\ cb.type = "Leave"
  /\ c.pStatus[cb.who] \notin {"InHearing", "InConsultation"}

\* The room and the status a hub message shows.  The client's reducer empties
\* the room of whoever disconnects, endpoints included.
\* Mutant: only moves into a consultation are shown.
ShowConsultationRoom(c, cb) ==
  IF ~IsConsultation(cb.to) THEN c
  ELSE IF cb.who \in Endpoints THEN [c EXCEPT !.eRoom[cb.who] = cb.to]
                               ELSE [c EXCEPT !.pRoom[cb.who] = cb.to]

ShowRoom(c, cb) ==
  LET room == IF IsConsultation(cb.to) THEN cb.to ELSE NoRoom
  IN  IF cb.who \in Endpoints THEN [c EXCEPT !.eRoom[cb.who] = room]
                              ELSE [c EXCEPT !.pRoom[cb.who] = room]

ShowStatus(c, cb) ==
  LET shown == SetStatus(c, cb)
  IN  IF cb.who \in Endpoints /\ cb.status = "Disconnected"
        THEN [shown EXCEPT !.eRoom[cb.who] = NoRoom]
        ELSE shown

\* The Video API applies an event it accepts: room and status together.
Record(c, cb) ==
  ShowStatus(IF cb.type = "Transfer" THEN ShowRoom(c, cb) ELSE c, cb)

-----------------------------------------------------------------------------
(***************************************************************************)
(* A request in progress.  "conf" is the worker's copy of the conference:  *)
(* the controller's until the callbacks are built, then the one the        *)
(* current handler has read.  "overtaken" is history: another worker has   *)
(* written the cache since this copy was read.                             *)
(***************************************************************************)
Steps == {"idle", "get", "fill", "plan", "raise", "next", "room",
          "writeRoom", "status", "publish", "relay", "create", "force",
          "add"}
Phases == {"controller", "handler", "final"}

Request ==
  [pc          : Steps,
   phase       : Phases,
   event       : Event,
   conf        : CachedConference,
   unraised    : SUBSET Callback,      \* still to be raised to the Video API
   unpublished : SUBSET Callback,      \* still to be handled and published
   current     : Callback,             \* the one being handled
   relay       : SUBSET Participants,  \* linked participants in consultation
   overtaken   : BOOLEAN]

Idle ==
  [pc |-> "idle", phase |-> "controller", event |-> Simple("Refresh", Nobody),
   conf |-> NewConference, unraised |-> {}, unpublished |-> {},
   current |-> NoCallback, relay |-> {}, overtaken |-> FALSE]

At(w, pc) == req[w].pc = pc

FromBrowser(e) == e.type \in BrowserTypes

\* Supplier callbacks are raised to the Video API before they are published to
\* the UI; the status a browser posts is published first.
\* Mutant: every event is published before it is raised.
PublishFirst(r) ==
  CASE r.unpublished # {} -> "next"
    [] r.unpublished = {} /\ r.unraised # {} -> "raise"
    [] r.unpublished = {} /\ r.unraised = {} /\ r.relay # {} -> "relay"
    [] OTHER -> "idle"

Following(r) ==
  LET publishing == r.unpublished # {}
      raising    == r.unraised # {}
  IN  CASE raising /\ ~(FromBrowser(r.event) /\ publishing) -> "raise"
        [] publishing /\ ~(raising /\ ~FromBrowser(r.event)) -> "next"
        [] ~publishing /\ ~raising /\ r.relay # {} -> "relay"
        [] OTHER -> "idle"

Continue(w, r) ==
  req' = [req EXCEPT
            ![w] = IF Following(r) = "idle" THEN Idle
                   ELSE [r EXCEPT !.pc = Following(r), !.current = NoCallback,
                                  !.conf = NewConference, !.overtaken = FALSE]]

(***************************************************************************)
(* The cache.  A failed write is logged and lost, a failed read is a miss. *)
(* A write makes the copies of all other workers stale.                    *)
(***************************************************************************)
HoldsCopy ==
  {"fill", "plan", "room", "writeRoom", "status", "create", "add"}

Overtake(rs, w) ==
  [v \in Workers |-> IF v # w /\ rs[v].pc \in HoldsCopy
                       THEN [rs[v] EXCEPT !.overtaken = TRUE] ELSE rs[v]]

Fault == faults < MaxFaults /\ faults' = faults + 1
NoFault == UNCHANGED faults

WriteToCache(w, c, r) ==
  \/ /\ cache' = c
     /\ req' = Overtake([req EXCEPT ![w] = r], w)
     /\ NoFault
  \/ /\ Fault
     /\ req' = [req EXCEPT ![w] = r]
     /\ UNCHANGED cache

\* The sliding expiry of the entry, or its eviction.
Evict ==
  /\ cache # Missing
  /\ Fault
  /\ cache' = Missing
  /\ UNCHANGED <<supplierVars, apiVars, req, ui>>

-----------------------------------------------------------------------------
(***************************************************************************)
(* GetConference: used once by the controller and once by every handler.   *)
(***************************************************************************)
Got(r) ==
  CASE r.phase = "final"   -> Idle
    [] r.phase = "handler" ->
         [r EXCEPT !.pc = IF r.current.type = "Transfer" THEN "room" ELSE "status"]
    [] OTHER -> [r EXCEPT !.pc = IF r.event.type = "StartConsultation"
                                   THEN "create" ELSE "plan"]

\* Mutant: a hit returns the Video API's conference.
GetHitFromApi(w) ==
  /\ At(w, "get")
  /\ cache # Missing
  /\ req' = [req EXCEPT ![w] = Got([req[w] EXCEPT !.conf = api, !.overtaken = FALSE])]
  /\ UNCHANGED <<supplierVars, cache, apiVars, ui, faults>>

GetHit(w) ==
  /\ At(w, "get")
  /\ cache # Missing
  /\ req' = [req EXCEPT
               ![w] = Got([req[w] EXCEPT !.conf = cache, !.overtaken = FALSE])]
  /\ UNCHANGED <<supplierVars, cache, apiVars, ui, faults>>

GetMiss(w) ==
  /\ At(w, "get")
  /\ \/ cache = Missing /\ NoFault
     \/ cache # Missing /\ Fault
  /\ req' = [req EXCEPT ![w].pc = "fill", ![w].overtaken = FALSE,
                        ![w].conf = MapConferenceToCacheModel(api)]
  /\ UNCHANGED <<supplierVars, cache, apiVars, ui>>

Fill(w) ==
  /\ At(w, "fill")
  /\ WriteToCache(w, req[w].conf, Got(req[w]))
  /\ UNCHANGED <<supplierVars, apiVars, ui>>

-----------------------------------------------------------------------------
(***************************************************************************)
(* SendHearingEventAsync and UpdateParticipantStatusAsync.                 *)
(***************************************************************************)
Receive(w, i) ==
  /\ At(w, "idle")
  /\ i \in 1..Len(net) /\ (InOrder => i = 1)
  /\ net' = SubSeq(net, 1, i - 1) \o SubSeq(net, i + 1, Len(net))
  /\ req' = [req EXCEPT
               ![w] = [Idle EXCEPT
                         !.pc = IF net[i].type = "Refresh" THEN "force" ELSE "get",
                         !.event = net[i]]]
  /\ UNCHANGED <<where, hearing, sent, cache, apiVars, ui, faults>>

\* UpdateConferenceRoomParticipants
ChangesCivilianRoom(e) == e.via /\ e.type \in {"Joined", "Disconnected"}

CivilianRoomAfter(c, e) ==
  IF ~ChangesCivilianRoom(e) THEN c
  ELSE IF e.type = "Joined"  THEN AddParticipantToRoom(c, e.who)
                             ELSE RemoveParticipantFromRoom(c, e.who)

Planned(r) ==
  LET conf == CivilianRoomAfter(r.conf, r.event)
      cbs  == Callbacks(r.event, conf)
  IN  [r EXCEPT
         !.unraised = cbs,
         !.unpublished = cbs,
         !.relay = IF r.event.via /\ r.event.type = "Joined"
                     THEN OthersInConsultation(conf, r.event.who) ELSE {}]

Ready(r) ==
  IF Following(r) = "idle" THEN Idle
  ELSE [r EXCEPT !.pc = Following(r), !.conf = NewConference,
                 !.overtaken = FALSE]

Plan(w) ==
  /\ At(w, "plan")
  /\ LET r == req[w]
         planned == Ready(Planned(r))
     IN  IF ChangesCivilianRoom(r.event)
           THEN WriteToCache(w, CivilianRoomAfter(r.conf, r.event), planned)
           ELSE /\ req' = [req EXCEPT ![w] = planned]
                /\ UNCHANGED <<cache, faults>>
  /\ UNCHANGED <<supplierVars, apiVars, ui>>

\* RaiseVideoEventAsync, once per event
Raise(w) ==
  /\ At(w, "raise")
  /\ \E cb \in req[w].unraised :
       /\ api' = Record(api, cb)
       /\ raised' = raised \cup {cb}
       /\ Continue(w, [req[w] EXCEPT !.unraised = @ \ {cb}])
  /\ UNCHANGED <<supplierVars, cache, ui, faults>>

\* The call fails: the request ends with the error, what is left is dropped.
\* Mutant: a failure is swallowed, the event is handled all the same.
RaiseFailsSilently(w) ==
  /\ At(w, "raise")
  /\ Fault
  /\ Continue(w, [req[w] EXCEPT !.unraised = {}])
  /\ UNCHANGED <<supplierVars, cache, apiVars, ui>>

RaiseFails(w) ==
  /\ At(w, "raise")
  /\ Fault
  /\ req' = [req EXCEPT ![w] = Idle]
  /\ UNCHANGED <<supplierVars, cache, apiVars, ui>>

\* One handler after the other, each starting with its own GetConference.
NextCallback(w) ==
  /\ At(w, "next")
  /\ \E cb \in req[w].unpublished :
       req' = [req EXCEPT ![w].pc = "get", ![w].phase = "handler",
                          ![w].current = cb, ![w].unpublished = @ \ {cb}]
  /\ UNCHANGED <<supplierVars, cache, apiVars, ui, faults>>

-----------------------------------------------------------------------------
(***************************************************************************)
(* EventHandlerBase.  A transfer shows the move to the participants, then  *)
(* writes it, then does what every other status change does: change the    *)
(* copy, write it, show it.                                                *)
(***************************************************************************)
\* Mutant: the move is written but not shown.
SkipRoomTransfer(w) ==
  /\ At(w, "room")
  /\ req' = [req EXCEPT ![w].pc = "writeRoom"]
  /\ UNCHANGED <<supplierVars, cache, apiVars, ui, faults>>

PublishRoomTransfer(w) ==
  /\ At(w, "room")
  /\ ui' = ShowRoom(ui, req[w].current)
  /\ req' = [req EXCEPT ![w].pc = "writeRoom"]
  /\ UNCHANGED <<supplierVars, cache, apiVars, faults>>

UpdateConsultationRoom(w) ==
  /\ At(w, "writeRoom")
  /\ LET moved == MoveRoom(req[w].conf, req[w].current)
     IN  WriteToCache(w, moved,
                      [req[w] EXCEPT !.pc = "status", !.conf = moved])
  /\ UNCHANGED <<supplierVars, apiVars, ui>>

UpdateStatus(w) ==
  /\ At(w, "status")
  /\ ~LeaveIsIgnored(req[w].conf, req[w].current)
  /\ LET changed == SetStatus(req[w].conf, req[w].current)
     IN  WriteToCache(w, changed,
                      [req[w] EXCEPT !.pc = "publish", !.conf = changed])
  /\ UNCHANGED <<supplierVars, apiVars, ui>>

IgnoreLeave(w) ==
  /\ At(w, "status")
  /\ LeaveIsIgnored(req[w].conf, req[w].current)
  /\ Continue(w, req[w])
  /\ UNCHANGED <<supplierVars, cache, apiVars, ui, faults>>

PublishStatus(w) ==
  /\ At(w, "publish")
  /\ ui' = ShowStatus(ui, req[w].current)
  /\ Continue(w, req[w])
  /\ UNCHANGED <<supplierVars, cache, apiVars, faults>>

(***************************************************************************)
(* GenerateTransferEventOnVmrParticipantJoining: someone joined a civilian *)
(* room whose others were in a consultation.  The Video API says which     *)
(* room that is and the whole civilian room is transferred to it again.    *)
(***************************************************************************)
\* Mutant: the others are joined again instead of transferred.
RelayAsJoined(w) ==
  /\ At(w, "relay")
  /\ \E p \in req[w].relay :
       req' = [req EXCEPT ![w] = [Idle EXCEPT !.pc = "get", !.event = Via("Joined", p)]]
  /\ UNCHANGED <<supplierVars, cache, apiVars, ui, faults>>

Relay(w) ==
  /\ At(w, "relay")
  /\ \E p \in req[w].relay :
       req' = [req EXCEPT
                 ![w] = IF api.pRoom[p] = NoRoom THEN Idle
                        ELSE [Idle EXCEPT
                                !.pc = "get",
                                !.event = Transfer(VMR, "WaitingRoom", api.pRoom[p])]]
  /\ UNCHANGED <<supplierVars, cache, apiVars, ui, faults>>

-----------------------------------------------------------------------------
(***************************************************************************)
(* StartParticipantConsultation: the room is created by the Video API      *)
(* between the read and the write.  ForceGetConference: the conference of  *)
(* the Video API replaces the cached one, then is read back.               *)
(***************************************************************************)
CreateConsultation(w) ==
  /\ At(w, "create")
  /\ WriteToCache(w, UpsertConsultationRoom(req[w].conf, req[w].event.to), Idle)
  /\ UNCHANGED <<supplierVars, apiVars, ui>>

CreateConsultationFails(w) ==
  /\ At(w, "create")
  /\ Fault
  /\ req' = [req EXCEPT ![w] = Idle]
  /\ UNCHANGED <<supplierVars, cache, apiVars, ui>>

ForceGet(w) ==
  /\ At(w, "force")
  /\ req' = [req EXCEPT ![w].pc = "add", ![w].overtaken = FALSE,
                        ![w].conf = MapConferenceToCacheModel(api)]
  /\ UNCHANGED <<supplierVars, cache, apiVars, ui, faults>>

AddConference(w) ==
  /\ At(w, "add")
  /\ WriteToCache(w, req[w].conf, [Idle EXCEPT !.pc = "get", !.phase = "final"])
  /\ UNCHANGED <<supplierVars, apiVars, ui>>

\* A read of the Video API fails - on a miss, for a relay, or for a refresh - and
\* ends the request where it is: what it has raised or stored stays.
AsksVideoApi(w) ==
  At(w, "relay") \/ At(w, "force") \/ (At(w, "get") /\ cache = Missing)

ReadFails(w) ==
  /\ AsksVideoApi(w)
  /\ Fault
  /\ req' = [req EXCEPT ![w] = Idle]
  /\ UNCHANGED <<supplierVars, cache, apiVars, ui>>

Handle(w) ==
  \/ \E i \in 1..Len(net) : Receive(w, i)
  \/ GetHit(w) \/ GetMiss(w) \/ Fill(w)
  \/ ReadFails(w)
  \/ Plan(w) \/ Raise(w) \/ RaiseFails(w) \/ NextCallback(w)
  \/ PublishRoomTransfer(w) \/ UpdateConsultationRoom(w)
  \/ UpdateStatus(w) \/ IgnoreLeave(w) \/ PublishStatus(w) \/ Relay(w)
  \/ CreateConsultation(w) \/ CreateConsultationFails(w)
  \/ ForceGet(w) \/ AddConference(w)

-----------------------------------------------------------------------------
(***************************************************************************)
(* The supplier, the browsers and the other services.                      *)
(***************************************************************************)
Send(e) ==
  /\ sent < MaxEvents
  /\ e.type \in Kinds
  /\ sent' = sent + 1
  /\ net' = Append(net, e)
  /\ UNCHANGED <<cache, apiVars, req, ui, faults>>

Connected(party) == where[party] # "Out"
LinkedConnected == {p \in Linked : Connected(p)}
Enter(party, type) ==
  IF party \in Linked THEN Via(type, party) ELSE Simple(type, party)

\* A linked participant arrives where the others already are.
Connect(party) ==
  /\ ~Connected(party)
  /\ \E place \in IF party \in Linked /\ LinkedConnected # {}
                    THEN {where[q] : q \in LinkedConnected}
                    ELSE {"WaitingRoom"} :
       where' = [where EXCEPT ![party] = place]
  /\ Send(Enter(party, "Joined"))
  /\ UNCHANGED hearing

MayMoveTo(to) == to = "HearingRoom" => hearing.status = "InSession"

Move(party, to) ==
  /\ party \notin Linked
  /\ Connected(party) /\ where[party] # to /\ MayMoveTo(to)
  /\ where' = [where EXCEPT ![party] = to]
  /\ Send(Transfer(party, where[party], to))
  /\ UNCHANGED hearing

MoveCivilianRoom(to) ==
  /\ MayMoveTo(to)
  /\ \E p \in LinkedConnected :
       /\ where[p] # to
       /\ Send(Transfer(VMR, where[p], to))
  /\ where' = [q \in Parties |-> IF q \in LinkedConnected THEN to ELSE where[q]]
  /\ UNCHANGED hearing

Drop(party) ==
  /\ Connected(party)
  /\ where' = [where EXCEPT ![party] = "Out"]
  /\ Send(Enter(party, "Disconnected"))
  /\ UNCHANGED hearing

LeaveCall(p, type) ==
  /\ p \notin Linked
  /\ Connected(p)
  /\ where' = [where EXCEPT ![p] = "Out"]
  /\ Send(Simple(type, p))
  /\ UNCHANGED hearing

HearingEvent(type, from, to) ==
  /\ hearing.status \in from
  /\ hearing' = [status |-> to, countdown |-> FALSE]
  /\ Send(Simple(type, Nobody))
  /\ UNCHANGED where

FinishCountdown ==
  /\ hearing = [status |-> "InSession", countdown |-> FALSE]
  /\ hearing' = [hearing EXCEPT !.countdown = TRUE]
  /\ Send(Simple("CountdownFinished", Nobody))
  /\ UNCHANGED where

\* A browser posts a status while its user is not in the conference.
Post(p, type) ==
  /\ ~Connected(p)
  /\ Send(Simple(type, p))
  /\ UNCHANGED <<where, hearing>>

Internal ==
  /\ \/ Send(Simple("Refresh", Nobody))
     \/ \E r \in Rooms :
          Send([Simple("StartConsultation", Nobody) EXCEPT !.to = r])
  /\ UNCHANGED <<where, hearing>>

Environment ==
  \/ \E party \in Parties : Connect(party) \/ Drop(party)
  \/ \E party \in Parties, to \in Locations : Move(party, to)
  \/ \E to \in Locations : MoveCivilianRoom(to)
  \/ \E p \in Participants, type \in {"Leave", "LeaveForOtherDevice"} :
       LeaveCall(p, type)
  \/ HearingEvent("Start", {"NotStarted", "Paused", "Suspended"}, "InSession")
  \/ HearingEvent("Pause", {"InSession"}, "Paused")
  \/ HearingEvent("Suspend", {"InSession"}, "Suspended")
  \/ HearingEvent("Close", {"InSession", "Paused", "Suspended"}, "Closed")
  \/ FinishCountdown
  \/ \E p \in Participants, type \in BrowserTypes : Post(p, type)
  \/ Internal

Init ==
  /\ where = [party \in Parties |-> "Out"]
  /\ hearing = [status |-> "NotStarted", countdown |-> FALSE]
  /\ net = <<>>
  /\ cache \in {Missing, NewConference}
  /\ api = NewConference
  /\ raised = {}
  /\ req = [w \in Workers |-> Idle]
  /\ ui = NewConference
  /\ sent = 0
  /\ faults = 0

Next ==
  \/ Environment
  \/ Evict
  \/ \E w \in Workers : Handle(w)

Spec == Init /\ [][Next]_vars
FairSpec == Spec /\ \A w \in Workers : WF_vars(Handle(w))

-----------------------------------------------------------------------------
(***************************************************************************)
(* Properties.                                                             *)
(***************************************************************************)
TypeOK ==
  /\ where \in [Parties -> Locations \cup {"Out"}]
  /\ hearing \in [status : ConferenceStatus, countdown : BOOLEAN]
  /\ net \in Seq(Event)
  /\ cache \in CachedConference \cup {Missing}
  /\ api \in CachedConference
  /\ raised \in SUBSET Callback
  /\ req \in [Workers -> Request]
  /\ ui \in CachedConference
  /\ sent \in Nat
  /\ faults \in Nat

NoRequestInProgress == \A w \in Workers : At(w, "idle")
Quiet == net = <<>> /\ NoRequestInProgress

RoomAt(place) == IF IsConsultation(place) THEN place ELSE NoRoom

\* Handling callbacks one at a time and in the order they were sent, the cached
\* conference ends up saying of everyone what is true at the supplier: the
\* status of the hearing and of its countdown, who is connected, and which room
\* each participant is in - linked participants, whose arrival is relayed, too.
\* (An endpoint's room is not promised: EndpointDisconnected keeps it.)
CacheMirrorsSupplier ==
  Quiet /\ cache # Missing =>
    /\ cache.status = hearing.status
    /\ cache.countdownComplete = hearing.countdown
    /\ \A p \in Participants : cache.pRoom[p] = RoomAt(where[p])
    /\ \A p \in Participants \ Linked :
         IF Connected(p)
           THEN cache.pStatus[p] = TransferStatus(p, where[p])
           ELSE cache.pStatus[p] \notin {"InHearing", "InConsultation"}
    /\ \A e \in Endpoints :
         IF Connected(e)
           THEN cache.eStatus[e] = TransferStatus(e, where[e])
           ELSE cache.eStatus[e] \in {"NotYetJoined", "Disconnected"}

\* Between requests handled one at a time, what the hub's messages have told a
\* connected client about statuses and participants' rooms is what a client
\* that loads the conference now would be given from the cache.
UiMirrorsCache ==
  NoRequestInProgress /\ cache # Missing =>
    /\ ui.status = cache.status
    /\ ui.countdownComplete = cache.countdownComplete
    /\ ui.pStatus = cache.pStatus
    /\ ui.pRoom = cache.pRoom
    /\ ui.eStatus = cache.eStatus

\* However requests interleave and whatever fails, neither the cache nor the
\* clients are ahead of the Video API: a status or a room that comes from the
\* supplier has been accepted by RaiseVideoEventAsync before either shows it.
Accepted(who, status) ==
  \E cb \in raised : cb.who = who /\ cb.status = status

AcceptedMove(who, room) ==
  \E cb \in raised : cb.who = who /\ cb.type = "Transfer" /\ cb.to = room

Backed(c) ==
  /\ \A p \in Participants :
       /\ c.pStatus[p] \in {"Available", "InHearing", "InConsultation"}
            => Accepted(p, c.pStatus[p])
       /\ c.pRoom[p] # NoRoom => AcceptedMove(p, c.pRoom[p])
  /\ \A e \in Endpoints :
       /\ c.eStatus[e] # "NotYetJoined" => Accepted(e, c.eStatus[e])
       /\ c.eRoom[e] # NoRoom => AcceptedMove(e, c.eRoom[e])
  /\ c.status # "NotStarted" => Accepted(Nobody, c.status)
  /\ c.countdownComplete => \E cb \in raised : cb.type = "CountdownFinished"

NeverAheadOfVideoApi == (cache # Missing => Backed(cache)) /\ Backed(ui)

\* Every room somebody is in is in the list of consultation rooms, under any
\* interleaving, as long as the conference is not rebuilt from the Video API
\* while it is in use (which forgets the list).
OccupiedRoomsAreListed ==
  cache # Missing =>
    \A r \in Rooms : InRoom(cache, r) # {} => r \in cache.rooms

\* A handler that no other request has overtaken changes nothing but what its
\* callback is about: a lost update needs a write between the handler's own
\* read (not the controller's, which is older) and its write.
SameBut(c, d, who) ==
  /\ \A p \in Participants \ {who} :
       c.pStatus[p] = d.pStatus[p] /\ c.pRoom[p] = d.pRoom[p]
  /\ \A e \in Endpoints \ {who} :
       c.eStatus[e] = d.eStatus[e] /\ c.eRoom[e] = d.eRoom[e]
  /\ c.vmr = d.vmr
  /\ who # Nobody => c.status = d.status
                  /\ c.countdownComplete = d.countdownComplete

OnlyOvertakenHandlersLoseUpdates ==
  [][\A w \in Workers :
       /\ req[w].pc \in {"writeRoom", "status"} /\ ~req[w].overtaken
       /\ req'[w].pc # req[w].pc /\ cache # Missing
       => SameBut(cache, cache', req[w].current.who)]_vars

\* Every request that is sent is handled to its end, relays included.
EveryRequestIsHandled == <>[]Quiet
=============================================================================
